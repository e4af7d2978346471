----------------------- MODULE ClassificationTreeProofs -----------------------
(* Proofs about ClassificationTree, for all nodes, types, slugs, forests,  *)
(* batches and requests.                                                   *)
EXTENDS ClassificationTree, SequenceTheorems, TLAPS

-----------------------------------------------------------------------------
(* Paths.                                                                  *)

LEMMA ExtendPath ==
  ASSUME NEW T, NEW path \in Seq(T), NEW slug \in T
  PROVE  /\ Append(path, slug) \in Seq(T)
         /\ Len(Append(path, slug)) = Len(path) + 1
         /\ Append(path, slug)[Len(path) + 1] = slug
         /\ \A i \in 1..Len(path) : Append(path, slug)[i] = path[i]
BY AppendProperties

(* A path starts with another if they agree on all of the shorter one.     *)
LEMMA StartsPointwise ==
  ASSUME NEW T, NEW path \in Seq(T), NEW old \in Seq(T)
  PROVE  StartsWith(path, old)
           <=> Len(path) > Len(old) /\ \A i \in 1..Len(old) : path[i] = old[i]
<1>1. /\ Len(path) \in Nat /\ Len(old) \in Nat
      /\ DOMAIN old = 1..Len(old) /\ old \in [1..Len(old) -> T]
      /\ \A i \in 1..Len(path) : path[i] \in T
  BY LenProperties
<1>2. CASE Len(path) > Len(old)
  <2> DEFINE start == SubSeq(path, 1, Len(old))
  <2>0. \A i \in 1..Len(old) : path[i] \in T
    BY <1>1, <1>2
  <2>1. /\ start \in Seq(T)
        /\ Len(start) = IF 1 <= Len(old) THEN Len(old) - 1 + 1 ELSE 0
        /\ \A i \in 1..(Len(old) - 1 + 1) : start[i] = path[1 + i - 1]
    BY <2>0, <1>1, SubSeqProperties
  <2>2. Len(start) = Len(old) /\ \A i \in 1..Len(old) : start[i] = path[i]
    BY <1>1, <2>1
  <2> HIDE DEF start
  <2>3. start = old <=> \A i \in 1..Len(old) : start[i] = old[i]
    BY <2>1, <2>2, SeqEqual
  <2>4. QED
    BY <1>2, <2>2, <2>3 DEF StartsWith, start
<1>3. CASE ~(Len(path) > Len(old))
  BY <1>3 DEF StartsWith
<1>4. QED
  BY <1>2, <1>3

(* A path that is longer by one slug starts with old just when the shorter *)
(* one does or is old.                                                     *)
LEMMA StartsBelow ==
  ASSUME NEW T, NEW path \in Seq(T), NEW old \in Seq(T), NEW slug \in T
  PROVE  StartsWith(Append(path, slug), old) <=> path = old \/ StartsWith(path, old)
<1> DEFINE below == Append(path, slug)
<1>1. /\ Len(path) \in Nat /\ Len(old) \in Nat
      /\ below \in Seq(T) /\ Len(below) = Len(path) + 1
      /\ \A i \in 1..Len(path) : below[i] = path[i]
  BY LenProperties, ExtendPath
<1> HIDE DEF below
<1>2. StartsWith(below, old)
        <=> Len(path) + 1 > Len(old) /\ \A i \in 1..Len(old) : below[i] = old[i]
  BY <1>1, StartsPointwise
<1>3. StartsWith(path, old)
        <=> Len(path) > Len(old) /\ \A i \in 1..Len(old) : path[i] = old[i]
  BY StartsPointwise
<1>4. path = old <=> Len(path) = Len(old) /\ \A i \in 1..Len(old) : path[i] = old[i]
  BY SeqEqual
<1>5. Len(path) + 1 > Len(old) <=> Len(path) > Len(old) \/ Len(path) = Len(old)
  BY <1>1
<1>6. Len(path) + 1 > Len(old) =>
        ((\A i \in 1..Len(old) : below[i] = old[i]) <=> (\A i \in 1..Len(old) : path[i] = old[i]))
  BY <1>1
<1>7. QED
  BY <1>2, <1>3, <1>4, <1>5, <1>6 DEF below

(* What is left of a path after its first k slugs.                         *)
LEMMA RestProperties ==
  ASSUME NEW T, NEW path \in Seq(T), NEW k \in 0..Len(path)
  PROVE  LET rest == SubSeq(path, k + 1, Len(path))
         IN  /\ rest \in Seq(T) /\ Len(rest) = Len(path) - k
             /\ \A i \in 1..(Len(path) - k) : rest[i] = path[k + i]
<1> DEFINE rest == SubSeq(path, k + 1, Len(path))
<1>1. Len(path) \in Nat /\ k \in Nat /\ k <= Len(path) /\ \A i \in 1..Len(path) : path[i] \in T
  BY LenProperties
<1>2. \A i \in (k + 1)..Len(path) : path[i] \in T
  BY <1>1
<1>3. /\ rest \in Seq(T)
      /\ Len(rest) = IF k + 1 <= Len(path) THEN Len(path) - (k + 1) + 1 ELSE 0
      /\ \A i \in 1..(Len(path) - (k + 1) + 1) : rest[i] = path[k + 1 + i - 1]
  BY <1>1, <1>2, SubSeqProperties
<1> HIDE DEF rest
<1>4. Len(rest) = Len(path) - k
  BY <1>1, <1>3
<1>5. ASSUME NEW i \in 1..(Len(path) - k) PROVE rest[i] = path[k + i]
  <2>1. i \in 1..(Len(path) - (k + 1) + 1) /\ k + 1 + i - 1 = k + i
    BY <1>1
  <2>2. QED
    BY <1>3, <2>1
<1>6. QED
  BY <1>3, <1>4, <1>5 DEF rest

LEMMA RestOfExtended ==
  ASSUME NEW T, NEW path \in Seq(T), NEW slug \in T, NEW k \in 0..Len(path)
  PROVE  SubSeq(Append(path, slug), k + 1, Len(Append(path, slug)))
           = Append(SubSeq(path, k + 1, Len(path)), slug)
<1> DEFINE below == Append(path, slug)
           rest == SubSeq(path, k + 1, Len(path))
           left == SubSeq(below, k + 1, Len(below))
           more == Append(rest, slug)
<1>1. Len(path) \in Nat /\ k \in Nat /\ k <= Len(path)
  BY LenProperties
<1>2. /\ below \in Seq(T) /\ Len(below) = Len(path) + 1
      /\ \A i \in 1..Len(path) : below[i] = path[i]
      /\ below[Len(path) + 1] = slug
  BY ExtendPath
<1>3. /\ rest \in Seq(T) /\ Len(rest) = Len(path) - k
      /\ \A i \in 1..(Len(path) - k) : rest[i] = path[k + i]
  BY RestProperties
<1> HIDE DEF rest, below
<1>4. k \in 0..Len(below)
  BY <1>1, <1>2
<1>5. /\ left \in Seq(T) /\ Len(left) = Len(below) - k
      /\ \A i \in 1..(Len(below) - k) : left[i] = below[k + i]
  BY <1>2, <1>4, RestProperties
<1> HIDE DEF left
<1>6. /\ more \in Seq(T) /\ Len(more) = Len(rest) + 1
      /\ \A i \in 1..Len(rest) : more[i] = rest[i]
      /\ more[Len(rest) + 1] = slug
  BY <1>3, ExtendPath
<1> HIDE DEF more
<1>7. Len(left) = Len(more)
  BY <1>1, <1>2, <1>3, <1>5, <1>6
<1>8. ASSUME NEW i \in 1..Len(left) PROVE left[i] = more[i]
  <2>0. i \in 1..(Len(below) - k)
    BY <1>5
  <2>1. left[i] = below[k + i]
    BY <1>5, <2>0
  <2>2. CASE i = Len(rest) + 1
    <3>1. k + i = Len(path) + 1
      BY <1>1, <1>3, <2>2
    <3>2. QED
      BY <1>2, <1>6, <2>1, <2>2, <3>1
  <2>3. CASE i # Len(rest) + 1
    <3>1. i \in 1..(Len(path) - k) /\ i \in 1..Len(rest) /\ k + i \in 1..Len(path)
      BY <1>1, <1>2, <1>3, <2>0, <2>3
    <3>2. QED
      BY <1>2, <1>3, <1>6, <2>1, <3>1
  <2>4. QED
    BY <2>2, <2>3
<1>9. left = more
  BY <1>5, <1>6, <1>7, <1>8, SeqEqual
<1>10. QED
  BY <1>9 DEF left, more, below, rest

(* The path that updateChildPaths gives a node whose path starts with old, *)
(* and a node below it.                                                    *)
After(path, old, new) == new \o SubSeq(path, Len(old) + 1, Len(path))

LEMMA AfterAppend ==
  ASSUME NEW T, NEW path \in Seq(T), NEW old \in Seq(T), NEW new \in Seq(T), NEW slug \in T,
         Len(old) <= Len(path)
  PROVE  After(Append(path, slug), old, new) = Append(After(path, old, new), slug)
<1> DEFINE rest == SubSeq(path, Len(old) + 1, Len(path))
           below == Append(path, slug)
<1>1. Len(path) \in Nat /\ Len(old) \in 0..Len(path)
  BY LenProperties
<1>2. rest \in Seq(T)
  BY <1>1, RestProperties
<1>3. SubSeq(below, Len(old) + 1, Len(below)) = Append(rest, slug)
  BY <1>1, RestOfExtended
<1>4. After(path, old, new) = new \o rest /\ After(below, old, new) = new \o Append(rest, slug)
  BY <1>3 DEF After
<1> HIDE DEF rest, below
<1>5. new \o rest \in Seq(T)
  BY <1>2, ConcatProperties
<1>6. Append(rest, slug) = rest \o <<slug>> /\ <<slug>> \in Seq(T)
  BY <1>2, AppendIsConcat
<1>7. Append(new \o rest, slug) = (new \o rest) \o <<slug>>
  BY <1>5, AppendIsConcat
<1>8. new \o (rest \o <<slug>>) = (new \o rest) \o <<slug>>
  BY SMTT(40), <1>2, <1>6, ConcatAssociative
<1>9. QED
  BY <1>4, <1>6, <1>7, <1>8 DEF below

LEMMA AfterSame ==
  ASSUME NEW T, NEW old \in Seq(T), NEW new \in Seq(T)
  PROVE  After(old, old, new) = new
<1> DEFINE rest == SubSeq(old, Len(old) + 1, Len(old))
<1>1. Len(old) \in Nat /\ Len(old) \in 0..Len(old)
  BY LenProperties
<1>2. rest \in Seq(T) /\ Len(rest) = Len(old) - Len(old)
  BY <1>1, RestProperties
<1>3. After(old, old, new) = new \o rest
  BY DEF After
<1> HIDE DEF rest
<1>4. rest = <<>>
  BY <1>1, <1>2, EmptySeq
<1>5. QED
  BY <1>3, <1>4, ConcatEmptySeq

LEMMA AfterBelow ==
  ASSUME NEW T, NEW path \in Seq(T), NEW old \in Seq(T), NEW new \in Seq(T), NEW slug \in T,
         StartsWith(path, old)
  PROVE  After(Append(path, slug), old, new) = Append(After(path, old, new), slug)
<1>1. Len(path) \in Nat /\ Len(old) \in Nat /\ Len(old) <= Len(path)
  BY LenProperties DEF StartsWith
<1>2. QED
  BY <1>1, AfterAppend

LEMMA AfterChild ==
  ASSUME NEW T, NEW old \in Seq(T), NEW new \in Seq(T), NEW slug \in T
  PROVE  After(Append(old, slug), old, new) = Append(new, slug)
<1>1. Len(old) \in Nat /\ Len(old) <= Len(old)
  BY LenProperties
<1>2. QED
  BY <1>1, AfterAppend, AfterSame

LEMMA AfterType ==
  ASSUME NEW T, NEW path \in Seq(T), NEW old \in Seq(T), NEW new \in Seq(T),
         StartsWith(path, old)
  PROVE  After(path, old, new) \in Seq(T)
<1>1. Len(path) \in Nat /\ Len(old) \in 0..Len(path)
  BY LenProperties DEF StartsWith
<1>2. SubSeq(path, Len(old) + 1, Len(path)) \in Seq(T)
  BY <1>1, RestProperties
<1>3. QED
  BY <1>2, ConcatProperties DEF After

-----------------------------------------------------------------------------
(* The rows of a forest.  What follows a parent from the roots down is     *)
(* defined by recursion; that it is defined at all rests on IsForest: of   *)
(* the nodes that no solution reaches, one would have a parent that one    *)
(* does.                                                                   *)

Begins(parent, path, n) == IF parent[n] = None THEN <<TypeOf[n]>> ELSE path[parent[n]]

(* The paths of some of the nodes, with each node's parent among them.     *)
Solves(parent, slug, path) ==
  /\ DOMAIN path \subseteq DOMAIN parent
  /\ \A n \in DOMAIN path : /\ parent[n] \in DOMAIN path \cup {None}
                            /\ path[n] = Append(Begins(parent, path, n), slug[n])

LEMMA SolutionsAgree ==
  ASSUME NEW parent, IsForest(parent), NEW slug, NEW f, NEW g,
         Solves(parent, slug, f), Solves(parent, slug, g)
  PROVE  \A n \in DOMAIN f \cap DOMAIN g : f[n] = g[n]
<1> DEFINE S == {n \in DOMAIN f \cap DOMAIN g : f[n] # g[n]}
<1>1. SUFFICES ASSUME S # {} PROVE FALSE
  OBVIOUS
<1>2. S \in SUBSET DOMAIN parent
  BY DEF Solves
<1>3. PICK n \in S : parent[n] \notin S
  BY <1>1, <1>2 DEF IsForest
<1>4. /\ n \in DOMAIN f \cap DOMAIN g /\ f[n] # g[n]
      /\ parent[n] \in DOMAIN f \cup {None} /\ parent[n] \in DOMAIN g \cup {None}
      /\ f[n] = Append(Begins(parent, f, n), slug[n])
      /\ g[n] = Append(Begins(parent, g, n), slug[n])
  BY DEF Solves
<1>5. Begins(parent, f, n) = Begins(parent, g, n)
  <2>1. CASE parent[n] = None
    BY <2>1 DEF Begins
  <2>2. CASE parent[n] # None
    <3>1. parent[n] \in DOMAIN f \cap DOMAIN g
      BY <1>4, <2>2
    <3>2. f[parent[n]] = g[parent[n]]
      BY <1>3, <3>1
    <3>3. QED
      BY <2>2, <3>2 DEF Begins
  <2>3. QED
    BY <2>1, <2>2
<1>6. QED
  BY <1>4, <1>5

LEMMA SolutionExists ==
  ASSUME NEW parent, IsForest(parent), NEW slug
  PROVE  \E path : DOMAIN path = DOMAIN parent /\ Solves(parent, slug, path)
<1> DEFINE Partial(f) == Solves(parent, slug, f)
           S == {n \in DOMAIN parent : ~\E f : Partial(f) /\ n \in DOMAIN f}
           of(n) == CHOOSE f : Partial(f) /\ n \in DOMAIN f
           path == [n \in DOMAIN parent |-> of(n)[n]]
<1>1. S = {}
  <2>1. SUFFICES ASSUME S # {} PROVE FALSE
    OBVIOUS
  <2>2. PICK n \in S : parent[n] \notin S
    BY <2>1 DEF IsForest
  <2>3. n \in DOMAIN parent /\ parent[n] \in DOMAIN parent \cup {None}
    BY <2>2 DEF IsForest
  <2>4. \E f : Partial(f) /\ n \in DOMAIN f
    <3>1. CASE parent[n] = None
      <4> DEFINE f == [m \in {n} |-> Append(<<TypeOf[n]>>, slug[n])]
      <4>1. DOMAIN f = {n} /\ f[n] = Append(Begins(parent, f, n), slug[n])
        BY <3>1 DEF Begins
      <4> HIDE DEF f
      <4>2. Partial(f)
        BY <2>3, <3>1, <4>1 DEF Solves
      <4>3. QED
        BY <4>1, <4>2
    <3>2. CASE parent[n] # None
      <4>1. parent[n] \in DOMAIN parent
        BY <2>3, <3>2
      <4>2. PICK g : Partial(g) /\ parent[n] \in DOMAIN g
        BY <2>2, <4>1
      <4>3. n \notin DOMAIN g
        BY <2>2, <4>2
      <4> DEFINE f == [m \in DOMAIN g \cup {n} |->
                         IF m = n THEN Append(g[parent[n]], slug[n]) ELSE g[m]]
      <4>4. /\ DOMAIN f = DOMAIN g \cup {n} /\ f[n] = Append(g[parent[n]], slug[n])
            /\ \A m \in DOMAIN g : f[m] = g[m]
        BY <4>3
      <4> HIDE DEF f
      <4>5. DOMAIN f \subseteq DOMAIN parent
        BY <2>3, <4>2, <4>4 DEF Solves
      <4>6. ASSUME NEW m \in DOMAIN g
            PROVE  /\ parent[m] \in DOMAIN f \cup {None}
                   /\ f[m] = Append(Begins(parent, f, m), slug[m])
        <5>1. /\ parent[m] \in DOMAIN g \cup {None}
              /\ g[m] = Append(Begins(parent, g, m), slug[m])
          BY <4>2 DEF Solves
        <5>2. Begins(parent, f, m) = Begins(parent, g, m)
          BY <4>4, <5>1 DEF Begins
        <5>3. QED
          BY <4>4, <5>1, <5>2
      <4>7. /\ parent[n] \in DOMAIN f \cup {None}
            /\ f[n] = Append(Begins(parent, f, n), slug[n])
        BY <3>2, <4>2, <4>4 DEF Begins
      <4>8. Partial(f) /\ n \in DOMAIN f
        BY <4>4, <4>5, <4>6, <4>7 DEF Solves
      <4>9. QED
        BY <4>8
    <3>3. QED
      BY <3>1, <3>2
  <2>5. QED
    BY <2>2, <2>4
<1>2. ASSUME NEW n \in DOMAIN parent PROVE Partial(of(n)) /\ n \in DOMAIN of(n)
  <2>1. \E f : Partial(f) /\ n \in DOMAIN f
    BY <1>1
  <2>2. QED
    BY <2>1
<1>3. ASSUME NEW n \in DOMAIN parent, NEW m \in DOMAIN of(n) PROVE path[m] = of(n)[m]
  <2>1. m \in DOMAIN parent
    BY <1>2 DEF Solves
  <2>2. path[m] = of(m)[m]
    BY <2>1
  <2> HIDE DEF of
  <2>3. Partial(of(n)) /\ Partial(of(m)) /\ m \in DOMAIN of(n) \cap DOMAIN of(m)
    BY <1>2, <2>1
  <2>4. of(m)[m] = of(n)[m]
    BY <2>3, SolutionsAgree
  <2>5. QED
    BY <2>2, <2>4
<1> HIDE DEF of
<1>4. DOMAIN path = DOMAIN parent /\ \A n \in DOMAIN parent : path[n] = of(n)[n]
  OBVIOUS
<1> HIDE DEF path
<1>5. ASSUME NEW n \in DOMAIN parent
      PROVE  /\ parent[n] \in DOMAIN path \cup {None}
             /\ path[n] = Append(Begins(parent, path, n), slug[n])
  <2> DEFINE f == of(n)
  <2>1. Partial(f) /\ n \in DOMAIN f /\ path[n] = f[n]
    BY <1>2, <1>4
  <2>2. \A m \in DOMAIN f : path[m] = f[m]
    BY <1>3
  <2> HIDE DEF f
  <2>3. /\ parent[n] \in DOMAIN f \cup {None} /\ DOMAIN f \subseteq DOMAIN parent
        /\ f[n] = Append(Begins(parent, f, n), slug[n])
    BY <2>1 DEF Solves
  <2>4. Begins(parent, path, n) = Begins(parent, f, n)
    BY <2>2, <2>3 DEF Begins
  <2>5. QED
    BY <1>4, <2>1, <2>3, <2>4
<1>6. Solves(parent, slug, path)
  BY <1>4, <1>5 DEF Solves
<1>7. QED
  BY <1>4, <1>6

LEMMA SeedPathSolves ==
  ASSUME NEW parent, IsForest(parent), NEW slug
  PROVE  DOMAIN SeedPath(parent, slug) = DOMAIN parent /\ Solves(parent, slug, SeedPath(parent, slug))
<1> DEFINE From(f) == [n \in DOMAIN parent |-> Append(Begins(parent, f, n), slug[n])]
           path == CHOOSE f : f = From(f)
<1>1. SeedPath(parent, slug) = path
  BY DEF SeedPath, Begins
<1>2. PICK f : DOMAIN f = DOMAIN parent /\ Solves(parent, slug, f)
  BY SolutionExists
<1> DEFINE g == [n \in DOMAIN parent |-> f[n]]
<1>3. DOMAIN g = DOMAIN parent /\ \A n \in DOMAIN parent : g[n] = f[n]
  OBVIOUS
<1>4. \A n \in DOMAIN parent :
        /\ parent[n] \in DOMAIN parent \cup {None}
        /\ g[n] = Append(Begins(parent, g, n), slug[n])
  BY <1>2, <1>3 DEF Solves, Begins
<1>5. g = From(g)
  BY <1>4
<1>6. path = From(path)
  BY <1>5
<1> HIDE DEF path
<1>7. DOMAIN path = DOMAIN parent
  BY <1>6
<1>8. \A n \in DOMAIN parent : path[n] = Append(Begins(parent, path, n), slug[n])
  BY <1>6
<1>9. QED
  BY <1>1, <1>4, <1>7, <1>8 DEF Solves

LEMMA SeedPathType ==
  ASSUME NEW parent, IsForest(parent), NEW slug, \A n \in DOMAIN parent : slug[n] \in Names
  PROVE  \A n \in DOMAIN parent :
           SeedPath(parent, slug)[n] \in Seq(Names) /\ Len(SeedPath(parent, slug)[n]) >= 2
<1> DEFINE path == SeedPath(parent, slug)
           S == {n \in DOMAIN parent : ~(path[n] \in Seq(Names) /\ Len(path[n]) >= 2)}
<1>1. SUFFICES ASSUME S # {} PROVE FALSE
  OBVIOUS
<1>2. PICK n \in S : parent[n] \notin S
  BY <1>1 DEF IsForest
<1>3. /\ n \in DOMAIN parent /\ n \in Nodes /\ parent[n] \in DOMAIN parent \cup {None}
      /\ path[n] = Append(Begins(parent, path, n), slug[n])
  BY SeedPathSolves DEF IsForest, Solves
<1>4. Begins(parent, path, n) \in Seq(Names) /\ Len(Begins(parent, path, n)) >= 1
  <2>1. CASE parent[n] = None
    <3>1. TypeOf[n] \in Names
      BY <1>3, NodesAssumption DEF Names
    <3>2. Begins(parent, path, n) = <<TypeOf[n]>>
      BY <2>1 DEF Begins
    <3>3. QED
      BY <3>1, <3>2
  <2>2. CASE parent[n] # None
    <3>1. path[parent[n]] \in Seq(Names) /\ Len(path[parent[n]]) >= 2
      BY <1>2, <1>3, <2>2
    <3>2. Begins(parent, path, n) = path[parent[n]]
      BY <2>2 DEF Begins
    <3> HIDE DEF path
    <3>3. Len(path[parent[n]]) \in Nat
      BY <3>1, LenProperties
    <3>4. QED
      BY <3>1, <3>2, <3>3
  <2>3. QED
    BY <2>1, <2>2
<1>5. slug[n] \in Names
  BY <1>3
<1>6. path[n] \in Seq(Names) /\ Len(path[n]) = Len(Begins(parent, path, n)) + 1
  BY <1>3, <1>4, <1>5, ExtendPath
<1>7. Len(Begins(parent, path, n)) \in Nat
  BY <1>4, LenProperties
<1>8. Len(path[n]) >= 2
  BY <1>4, <1>6, <1>7
<1>9. QED
  BY <1>2, <1>6, <1>8

-----------------------------------------------------------------------------
(* What holds in every state: the types; that rows are under nodes that    *)
(* are in the table, and images of rows too; that the seeder has not       *)
(* written the batches from the one it is at; that mixed has what it       *)
(* should; and what a request holds of the nodes that it names.            *)

Moving == {"target", "walk", "write", "find", "rewrite"}
Aimed == {"walk", "write", "find", "rewrite"}

HeldFacts(r, h) ==
  /\ r.phase \in {"new", "done"} => DOMAIN h = {}
  /\ r.phase = "insert" => r.node \in Nodes \ Platform /\ r.target \in DOMAIN h \cup {None}
  /\ r.phase = "delete" => r.node \in Nodes
  /\ r.phase \in Moving => r.node \in DOMAIN h /\ r.target \in Nodes
  /\ r.phase \in Aimed => r.target \in DOMAIN h
  /\ r.phase = "walk" => r.at \in DOMAIN h
  /\ r.phase = "rewrite" => r.below \subseteq DOMAIN h

Rooted(P, row) == row.parent \in P \cup {None} /\ Len(row.path) >= 2
Kept(P, h) == DOMAIN h \subseteq P /\ \A n \in DOMAIN h : Rooted(P, h[n])

Unseeded(P) == \A k \in DOMAIN Batches : seeder.at \in 1..k => DOMAIN Batches[k] \cap P = {}

RowsInv ==
  /\ \A n \in Present : Rooted(Present, node[n])
  /\ Strays \subseteq mixed
HeldInv ==
  /\ DOMAIN held = Requests
  /\ \A q \in Requests : IsImages(held[q]) /\ Kept(Present, held[q]) /\ HeldFacts(request[q], held[q])
SeederInv == Kept(Present, seeder.found) /\ Unseeded(Present)

Base == TypeOK /\ RowsInv /\ HeldInv /\ SeederInv

-----------------------------------------------------------------------------

LEMMA PresentNodes == Present \subseteq Nodes /\ None \notin Present
BY NodesAssumption DEF Present

LEMMA NamesType ==
  /\ \A n \in Nodes : Slug[n] \in Names /\ TypeOf[n] \in Names /\ TypeOf[n] \in Types
  /\ \A n \in Platform : SeedSlug[n] \in Names
BY NodesAssumption DEF Names

LEMMA RowType ==
  ASSUME NEW row \in Row
  PROVE  /\ row.present \in BOOLEAN /\ row.parent \in Parent /\ row.depth \in Nat
         /\ row.path \in Seq(Names) /\ Len(row.path) \in Nat
<1>1. row.present \in BOOLEAN /\ row.parent \in Parent /\ row.depth \in Nat /\ row.path \in Seq(Names)
  BY DEF Row
<1>2. QED
  BY <1>1, LenProperties

LEMMA BatchFacts ==
  ASSUME NEW k \in DOMAIN Batches
  PROVE  /\ k \in Nat \ {0} /\ k <= Len(Batches) /\ Len(Batches) \in Nat \ {0}
         /\ DOMAIN Batches[k] \subseteq Nodes /\ DOMAIN Batches[k] \subseteq Platform
         /\ \A n \in DOMAIN Batches[k] : Batches[k][n] \in Parent
<1>1. k \in Nat \ {0} /\ k <= Len(Batches) /\ Len(Batches) \in Nat \ {0}
  BY BatchesAssumption
<1>2. DOMAIN Batches[k] \subseteq Nodes /\ \A n \in DOMAIN Batches[k] : Batches[k][n] \in Parent
  <2>1. CASE k = 1
    BY <2>1, BatchesAssumption DEF IsForest, Parent
  <2>2. CASE k # 1
    BY <2>2, BatchesAssumption DEF Parent
  <2>3. QED
    BY <2>1, <2>2
<1>3. DOMAIN Batches[k] \subseteq Platform
  BY DEF Platform
<1>4. QED
  BY <1>1, <1>2, <1>3

LEMMA SeededRows ==
  ASSUME NEW parent, IsForest(parent), NEW slug, \A n \in DOMAIN parent : slug[n] \in Names
  PROVE  LET rows == Seeded(parent, slug) IN
         /\ DOMAIN parent \subseteq Nodes
         /\ rows \in [Nodes -> Row]
         /\ \A n \in Nodes : rows[n].present <=> n \in DOMAIN parent
         /\ \A n \in DOMAIN parent :
              /\ rows[n].parent = parent[n] /\ parent[n] \in DOMAIN parent \cup {None}
              /\ rows[n].path = Append(IF parent[n] = None THEN <<TypeOf[n]>>
                                         ELSE rows[parent[n]].path, slug[n])
              /\ Len(rows[n].path) >= 2
<1> DEFINE path == SeedPath(parent, slug)
           row(n) == [present |-> TRUE, parent |-> parent[n], path |-> path[n],
                      depth |-> Len(path[n]) - 2, active |-> TRUE, deleted |-> FALSE]
           empty == [present |-> FALSE, parent |-> None, path |-> <<>>, depth |-> 0,
                     active |-> TRUE, deleted |-> FALSE]
           rows == Seeded(parent, slug)
<1>1. DOMAIN parent \subseteq Nodes /\ \A n \in DOMAIN parent : parent[n] \in DOMAIN parent \cup {None}
  BY DEF IsForest
<1>2. rows = [n \in Nodes |-> IF n \in DOMAIN parent THEN row(n) ELSE empty]
  BY DEF Seeded
<1>3. \A n \in DOMAIN parent : path[n] \in Seq(Names) /\ Len(path[n]) >= 2
  BY SeedPathType
<1>4. \A n \in DOMAIN parent : path[n] = Append(Begins(parent, path, n), slug[n])
  BY SeedPathSolves DEF Solves
<1> HIDE DEF path, rows
<1>5. empty \in Row
  BY DEF Row, Parent
<1>6. ASSUME NEW n \in DOMAIN parent PROVE row(n) \in Row
  <2>1. path[n] \in Seq(Names) /\ Len(path[n]) >= 2 /\ Len(path[n]) \in Nat
    BY <1>3, LenProperties
  <2>2. Len(path[n]) - 2 \in Nat
    BY <2>1
  <2>3. parent[n] \in Parent
    BY <1>1 DEF Parent
  <2>4. QED
    BY <2>1, <2>2, <2>3 DEF Row
<1>7. /\ \A n \in DOMAIN parent : rows[n] = row(n)
      /\ \A n \in Nodes \ DOMAIN parent : rows[n] = empty
  BY <1>1, <1>2
<1>8. rows \in [Nodes -> Row]
  BY <1>2, <1>5, <1>6
<1>9. \A n \in Nodes : rows[n].present <=> n \in DOMAIN parent
  <2>1. ASSUME NEW n \in DOMAIN parent PROVE rows[n].present
    <3>1. rows[n] = row(n)
      BY <1>7
    <3>2. QED
      BY <3>1
  <2>2. ASSUME NEW n \in Nodes \ DOMAIN parent PROVE ~rows[n].present
    <3>1. rows[n] = empty
      BY <1>7
    <3>2. QED
      BY <3>1
  <2>3. QED
    BY <2>1, <2>2
<1>10. ASSUME NEW n \in DOMAIN parent
       PROVE  /\ rows[n].parent = parent[n] /\ rows[n].path = path[n]
              /\ path[n] = Append(IF parent[n] = None THEN <<TypeOf[n]>>
                                    ELSE rows[parent[n]].path, slug[n])
  <2>1. ASSUME NEW m \in DOMAIN parent PROVE rows[m].parent = parent[m] /\ rows[m].path = path[m]
    <3>1. rows[m] = row(m)
      BY <1>7
    <3>2. QED
      BY <3>1
  <2>2. parent[n] # None => rows[parent[n]].path = path[parent[n]]
    BY <1>1, <2>1
  <2>3. QED
    BY <1>4, <2>1, <2>2 DEF Begins
<1>11. QED
  BY <1>1, <1>3, <1>8, <1>9, <1>10 DEF rows

LEMMA KeptGrows ==
  ASSUME NEW P, NEW Q, P \subseteq Q, NEW h, Kept(P, h)
  PROVE  Kept(Q, h)
BY DEF Kept, Rooted

(* What a query returns, and findOne.                                      *)
LEMMA QueriedKept ==
  ASSUME Base, NEW q \in Requests, NEW S \in SUBSET Present
  PROVE  /\ IsImages(Queried(q, S)) /\ Kept(Present, Queried(q, S))
         /\ DOMAIN Queried(q, S) = DOMAIN held[q] \cup S
         /\ \A n \in S : Queried(q, S)[n] = node[n]
         /\ \A n \in DOMAIN held[q] \ S : Queried(q, S)[n] = held[q][n]
<1>1. /\ IsImages(held[q]) /\ Kept(Present, held[q]) /\ node \in [Nodes -> Row]
      /\ \A n \in Present : Rooted(Present, node[n])
  BY DEF Base, HeldInv, RowsInv, TypeOK
<1>2. \A n \in DOMAIN held[q] : held[q][n] \in Row /\ n \in Nodes
  BY <1>1 DEF IsImages
<1>3. \A n \in S : node[n] \in Row /\ n \in Nodes
  BY <1>1, PresentNodes
<1> DEFINE h == Queried(q, S)
<1>4. h = [n \in DOMAIN held[q] \cup S |-> IF n \in S THEN node[n] ELSE held[q][n]]
  BY DEF Queried
<1> HIDE DEF h
<1>5. /\ DOMAIN h = DOMAIN held[q] \cup S
      /\ \A n \in S : h[n] = node[n]
      /\ \A n \in DOMAIN held[q] \ S : h[n] = held[q][n]
  BY <1>4
<1>6. IsImages(h)
  BY <1>2, <1>3, <1>4, <1>5 DEF IsImages
<1>7. Kept(Present, h)
  BY <1>1, <1>5 DEF Kept
<1>8. QED
  BY <1>5, <1>6, <1>7 DEF h

LEMMA LoadedKept ==
  ASSUME Base, NEW q \in Requests, NEW n \in Present
  PROVE  /\ IsImages(Loaded(q, n)) /\ Kept(Present, Loaded(q, n))
         /\ n \in DOMAIN Loaded(q, n) /\ DOMAIN held[q] \subseteq DOMAIN Loaded(q, n)
         /\ \A m \in DOMAIN Loaded(q, n) :
              \/ Loaded(q, n)[m] = node[m]
              \/ m \in DOMAIN held[q] /\ Loaded(q, n)[m] = held[q][m]
<1> DEFINE S == IF n \in DOMAIN held[q] THEN {held[q][n].parent} \ (DOMAIN held[q] \cup {None})
                  ELSE {n, node[n].parent} \ {None}
<1>1. Loaded(q, n) = Queried(q, S)
  BY DEF Loaded
<1>2. n # None
  BY PresentNodes
<1>3. S \in SUBSET Present /\ n \in DOMAIN held[q] \cup S
  BY <1>2 DEF Base, HeldInv, RowsInv, Kept, Rooted
<1> DEFINE h == Queried(q, S)
<1> HIDE DEF S
<1>4. /\ IsImages(h) /\ Kept(Present, h) /\ DOMAIN h = DOMAIN held[q] \cup S
      /\ \A m \in S : h[m] = node[m]
      /\ \A m \in DOMAIN held[q] \ S : h[m] = held[q][m]
  BY <1>3, QueriedKept
<1> HIDE DEF h
<1>5. QED
  BY <1>1, <1>3, <1>4 DEF h

-----------------------------------------------------------------------------
(* Every step preserves it.                                                *)

LEMMA StrayTypes == Strays \subseteq Types /\ Strays' \subseteq Types
BY NamesType DEF Strays, Present

LEMMA SameRows ==
  ASSUME node' = node
  PROVE  Present' = Present /\ Strays' = Strays
BY DEF Present, Strays

LEMMA NothingHeld ==
  ASSUME NEW P
  PROVE  LET h == [n \in {} |-> Idle]
         IN  IsImages(h) /\ Kept(P, h) /\ DOMAIN h = {} /\ HeldFacts(Over, h)
<1> DEFINE h == [n \in {} |-> Idle]
<1>1. DOMAIN h = {}
  OBVIOUS
<1>2. h \in [{} -> Row]
  OBVIOUS
<1> HIDE DEF h
<1>3. IsImages(h) /\ Kept(P, h)
  BY <1>1, <1>2 DEF IsImages, Kept
<1>4. Over.phase = "done"
  BY DEF Over, Idle
<1>5. HeldFacts(Over, h)
  BY <1>1, <1>4 DEF HeldFacts, Moving, Aimed
<1>6. QED
  BY <1>1, <1>3, <1>5 DEF h

LEMMA RequestTypes ==
  /\ Idle \in Request /\ Over \in Request
  /\ Idle.phase = "new" /\ Over.phase = "done"
<1>1. <<>> \in Seq(Names) /\ {} \in SUBSET Nodes /\ None \in Parent
  BY EmptySeq DEF Parent
<1>2. Idle \in Request /\ Idle.phase = "new"
  BY <1>1 DEF Idle, Request, Phase
<1>3. "done" \in Phase
  BY DEF Phase
<1>4. Over \in Request /\ Over.phase = "done"
  BY <1>2, <1>3 DEF Over, Request
<1>5. QED
  BY <1>2, <1>4

(* The other requests keep what they hold when rows are added.             *)
LEMMA RequestStep ==
  ASSUME Base, NEW q \in Requests, NEW r \in Request, NEW h,
         IsImages(h), Kept(Present', h), HeldFacts(r, h), Present \subseteq Present',
         request' = [request EXCEPT ![q] = r],
         DOMAIN held' = Requests, held'[q] = h,
         \A p \in Requests \ {q} : held'[p] = held[p]
  PROVE  request' \in [Requests -> Request] /\ HeldInv'
<1>1. request \in [Requests -> Request]
  BY DEF Base, TypeOK
<1>2. request' \in [Requests -> Request]
  BY <1>1
<1>3. request'[q] = r /\ \A p \in Requests \ {q} : request'[p] = request[p]
  BY <1>1
<1>4. ASSUME NEW p \in Requests
      PROVE  IsImages(held'[p]) /\ Kept(Present', held'[p]) /\ HeldFacts(request'[p], held'[p])
  <2>1. CASE p = q
    BY <1>3, <2>1
  <2>2. CASE p # q
    <3>1. held'[p] = held[p] /\ request'[p] = request[p]
      BY <1>3, <2>2
    <3>2. IsImages(held[p]) /\ Kept(Present, held[p]) /\ HeldFacts(request[p], held[p])
      BY DEF Base, HeldInv
    <3>3. Kept(Present', held[p])
      BY <3>2, KeptGrows
    <3>4. QED
      BY <3>1, <3>2, <3>3
  <2>3. QED
    BY <2>1, <2>2
<1>5. HeldInv'
  BY <1>4 DEF HeldInv
<1>6. QED
  BY <1>2, <1>5

LEMMA EndStep ==
  ASSUME Base, NEW q \in Requests, End(q), Present \subseteq Present'
  PROVE  request' \in [Requests -> Request] /\ HeldInv'
<1> DEFINE h == [n \in {} |-> Idle]
<1>1. /\ request' = [request EXCEPT ![q] = Over]
      /\ held' = [held EXCEPT ![q] = h]
  BY DEF End
<1>2. IsImages(h) /\ Kept(Present', h) /\ HeldFacts(Over, h)
  BY NothingHeld
<1> HIDE DEF h
<1>3. DOMAIN held = Requests
  BY DEF Base, TypeOK
<1>4. DOMAIN held' = Requests /\ held'[q] = h /\ \A p \in Requests \ {q} : held'[p] = held[p]
  BY <1>1, <1>3
<1>5. QED
  BY <1>1, <1>2, <1>4, RequestTypes, RequestStep

(* What a step does to the history of the paths.                           *)
Noting ==
  /\ mixed' \subseteq Types /\ Strays' \subseteq mixed' /\ mixed \subseteq mixed'
  /\ behind' \subseteq Nodes

LEMMA SameNoting ==
  ASSUME Base, Strays' = Strays, mixed' = mixed, behind' \subseteq Nodes
  PROVE  Noting
BY DEF Noting, Base, TypeOK, RowsInv

(* A step that leaves the seeder alone.                                    *)
LEMMA BaseStep ==
  ASSUME Base, node' \in [Nodes -> Row], Present \subseteq Present',
         \A n \in Present' : Rooted(Present', node'[n]),
         \A n \in Present' \ Present : n \notin Platform,
         seeder' = seeder, Noting,
         request' \in [Requests -> Request], HeldInv',
         overlapped' \in BOOLEAN, selfMoved' \in BOOLEAN
  PROVE  Base'
<1>1. /\ seeder.at \in 0..Len(Batches) /\ IsImages(seeder.found)
      /\ Kept(Present, seeder.found) /\ Unseeded(Present)
  BY DEF Base, SeederInv, TypeOK
<1>2. mixed' \subseteq Types /\ Strays' \subseteq mixed' /\ behind' \subseteq Nodes
  BY DEF Noting
<1>3. TypeOK'
  BY <1>1, <1>2 DEF TypeOK, HeldInv
<1>4. RowsInv'
  BY <1>2 DEF RowsInv
<1>5. Kept(Present', seeder.found)
  BY <1>1, KeptGrows
<1>6. ASSUME NEW k \in DOMAIN Batches, seeder.at \in 1..k
      PROVE  DOMAIN Batches[k] \cap Present' = {}
  BY <1>1, <1>6, BatchFacts DEF Unseeded
<1>7. SeederInv'
  BY <1>5, <1>6 DEF SeederInv, Unseeded
<1>8. QED
  BY <1>3, <1>4, <1>7 DEF Base

(* And the rows as well.                                                   *)
LEMMA BaseQuiet ==
  ASSUME Base, node' = node, seeder' = seeder, Noting \/ UNCHANGED <<mixed, behind>>,
         request' \in [Requests -> Request], HeldInv',
         overlapped' \in BOOLEAN, selfMoved' \in BOOLEAN
  PROVE  Base'
<1>1. Present' = Present /\ Strays' = Strays
  BY SameRows
<1>2. /\ node \in [Nodes -> Row] /\ behind \subseteq Nodes
      /\ \A n \in Present : Rooted(Present, node[n])
  BY DEF Base, TypeOK, RowsInv
<1>3. Noting
  BY <1>1, <1>2, SameNoting
<1>4. \A n \in Present' : Rooted(Present', node'[n])
  BY <1>1, <1>2
<1>5. QED
  BY <1>1, <1>2, <1>3, <1>4, BaseStep

LEMMA BeginBase ==
  ASSUME Base, NEW q \in Requests, NEW first \in Request, Begin(q, first),
         NEW h, IsImages(h), Kept(Present, h), HeldFacts(first, h),
         DOMAIN held' = Requests, held'[q] = h, \A p \in Requests \ {q} : held'[p] = held[p],
         UNCHANGED <<node, seeder, mixed, behind>>
  PROVE  Base'
<1>1. /\ request' = [request EXCEPT ![q] = first]
      /\ overlapped' \in BOOLEAN /\ selfMoved' \in BOOLEAN
  BY DEF Begin, Base, TypeOK, Busy
<1>2. Present' = Present
  BY SameRows
<1>3. Kept(Present', h) /\ Present \subseteq Present'
  BY <1>2
<1>4. request' \in [Requests -> Request] /\ HeldInv'
  BY <1>1, <1>3, RequestStep
<1>5. QED
  BY <1>1, <1>4, BaseQuiet

LEMMA RemoveBase ==
  ASSUME Base, NEW q \in Requests, NEW n \in Nodes, Remove(q, n) \/ RemoveRefused(q, n),
         UNCHANGED <<seeder, mixed, behind>>
  PROVE  Base'
<1> DEFINE first == [Idle EXCEPT !.phase = "delete", !.node = n]
<1>1. /\ DOMAIN held = Requests /\ IsImages(held[q]) /\ Kept(Present, held[q])
      /\ HeldFacts(request[q], held[q])
  BY DEF Base, HeldInv
<1>2. UNCHANGED <<node, held>> /\ request[q].phase = "new"
  BY DEF Remove, RemoveRefused, Begin
<1>3. DOMAIN held[q] = {}
  BY <1>1, <1>2 DEF HeldFacts
<1>4. CASE Remove(q, n)
  <2>1. Begin(q, first)
    BY <1>4 DEF Remove
  <2>2. first \in Request /\ first.phase = "delete" /\ first.node = n
    BY RequestTypes DEF Request, Phase, Parent
  <2> HIDE DEF first
  <2>3. HeldFacts(first, held[q])
    BY <2>2 DEF HeldFacts, Moving, Aimed
  <2>4. QED
    BY <1>1, <1>2, <2>1, <2>2, <2>3, BeginBase
<1>5. CASE RemoveRefused(q, n)
  <2>1. Begin(q, Over)
    BY <1>5 DEF RemoveRefused
  <2>2. HeldFacts(Over, held[q])
    BY <1>3, RequestTypes DEF HeldFacts, Moving, Aimed
  <2>3. QED
    BY <1>1, <1>2, <2>1, <2>2, RequestTypes, BeginBase
<1>6. QED
  BY <1>4, <1>5

LEMMA CreateBase ==
  ASSUME Base, NEW q \in Requests, NEW n \in Nodes, NEW parent \in Parent,
         n \notin Platform, Create(q, n, parent), UNCHANGED <<seeder, mixed, behind>>
  PROVE  Base'
<1> DEFINE first == [Idle EXCEPT !.phase = "insert", !.node = n, !.target = parent]
           h == IF parent = None THEN held[q] ELSE Loaded(q, parent)
<1>1. /\ DOMAIN held = Requests /\ IsImages(held[q]) /\ Kept(Present, held[q])
  BY DEF Base, HeldInv
<1>2. /\ parent # None => parent \in Present
      /\ Begin(q, first)
      /\ held' = IF parent = None THEN held ELSE [held EXCEPT ![q] = Loaded(q, parent)]
      /\ node' = node
  BY DEF Create
<1>3. first \in Request /\ first.phase = "insert" /\ first.node = n /\ first.target = parent
  BY RequestTypes DEF Request, Phase, Parent
<1>4. IsImages(h) /\ Kept(Present, h) /\ parent \in DOMAIN h \cup {None}
  BY <1>1, <1>2, LoadedKept
<1>5. DOMAIN held' = Requests /\ held'[q] = h /\ \A p \in Requests \ {q} : held'[p] = held[p]
  BY <1>1, <1>2
<1> HIDE DEF first, h
<1>6. HeldFacts(first, h)
  BY <1>3, <1>4 DEF HeldFacts, Moving, Aimed
<1>7. QED
  BY <1>2, <1>3, <1>4, <1>5, <1>6, BeginBase

LEMMA MoveBase ==
  ASSUME Base, NEW q \in Requests, NEW n \in Nodes, NEW target \in Nodes,
         Move(q, n, target), UNCHANGED <<seeder, mixed, behind>>
  PROVE  Base'
<1> DEFINE first == [Idle EXCEPT !.phase = "target", !.node = n, !.target = target]
           h == Loaded(q, n)
<1>1. n \in Present /\ Begin(q, first) /\ held' = [held EXCEPT ![q] = h] /\ node' = node
  BY DEF Move
<1>2. first \in Request /\ first.phase = "target" /\ first.node = n /\ first.target = target
  BY RequestTypes DEF Request, Phase, Parent
<1>3. IsImages(h) /\ Kept(Present, h) /\ n \in DOMAIN h
  BY <1>1, LoadedKept
<1> HIDE DEF first, h
<1>4. DOMAIN held' = Requests /\ held'[q] = h /\ \A p \in Requests \ {q} : held'[p] = held[p]
  BY <1>1 DEF Base, TypeOK
<1>5. HeldFacts(first, h)
  BY <1>2, <1>3 DEF HeldFacts, Moving, Aimed
<1>6. QED
  BY <1>1, <1>2, <1>3, <1>4, <1>5, BeginBase

(* Steps that touch a flag of a row at most.                               *)
SameShape ==
  \A n \in Nodes : /\ node'[n].present <=> node[n].present
                   /\ node'[n].parent = node[n].parent
                   /\ node'[n].path = node[n].path

LEMMA ShapeKept ==
  ASSUME SameShape
  PROVE  /\ Present' = Present /\ Strays' = Strays
         /\ \A n \in Present : node'[n].parent = node[n].parent /\ node'[n].path = node[n].path
<1>1. Present' = Present
  BY DEF SameShape, Present
<1>2. \A n \in Present : node'[n].parent = node[n].parent /\ node'[n].path = node[n].path
  BY PresentNodes DEF SameShape
<1>3. Strays' = Strays
  BY <1>1, <1>2 DEF Strays
<1>4. QED
  BY <1>1, <1>2, <1>3

LEMMA ShapeBase ==
  ASSUME Base, node' \in [Nodes -> Row], SameShape,
         seeder' = seeder, Noting \/ UNCHANGED <<mixed, behind>>,
         request' \in [Requests -> Request], HeldInv',
         overlapped' \in BOOLEAN, selfMoved' \in BOOLEAN
  PROVE  Base'
<1>1. /\ Present' = Present /\ Strays' = Strays
      /\ \A n \in Present : node'[n].parent = node[n].parent /\ node'[n].path = node[n].path
  BY ShapeKept
<1>2. behind \subseteq Nodes /\ \A n \in Present : Rooted(Present, node[n])
  BY DEF Base, TypeOK, RowsInv
<1>3. Noting
  BY <1>1, <1>2, SameNoting
<1>4. \A n \in Present' : Rooted(Present', node'[n])
  BY <1>1, <1>2 DEF Rooted
<1>5. QED
  BY <1>1, <1>3, <1>4, BaseStep

LEMMA FlagShape ==
  ASSUME Base, NEW n \in Nodes, NEW flag \in BOOLEAN,
         \/ node' = [node EXCEPT ![n].deleted = flag]
         \/ node' = [node EXCEPT ![n].active = flag]
  PROVE  node' \in [Nodes -> Row] /\ SameShape
<1>1. node \in [Nodes -> Row]
  BY DEF Base, TypeOK
<1>2. PICK row \in {[node[n] EXCEPT !.deleted = flag], [node[n] EXCEPT !.active = flag]} :
        node' = [node EXCEPT ![n] = row]
  BY <1>1
<1>3. node[n] \in Row
  BY <1>1
<1>4. /\ row \in Row /\ (row.present <=> node[n].present)
      /\ row.parent = node[n].parent /\ row.path = node[n].path
  <2>1. CASE row = [node[n] EXCEPT !.deleted = flag]
    BY <1>3, <2>1 DEF Row
  <2>2. CASE row = [node[n] EXCEPT !.active = flag]
    BY SMTT(40), <1>3, <2>2 DEF Row
  <2>3. QED
    BY <1>2, <2>1, <2>2
<1>5. node' \in [Nodes -> Row] /\ node'[n] = row /\ \A m \in Nodes \ {n} : node'[m] = node[m]
  BY SMTT(40), <1>1, <1>2, <1>4
<1>6. QED
  BY <1>4, <1>5 DEF SameShape

(* The insert: a new row, under the parent as the request knows it.        *)
LEMMA InsertFacts ==
  ASSUME Base, NEW q \in Requests, Insert(q)
  PROVE  LET n == request[q].node
             parent == request[q].target
         IN  /\ n \in Nodes \ Platform /\ n \notin Present
             /\ node' \in [Nodes -> Row] /\ \A m \in Nodes \ {n} : node'[m] = node[m]
             /\ Present' = Present \cup {n}
             /\ node'[n].parent = parent
             /\ parent # None => parent \in DOMAIN held[q] /\ parent \in Present
             /\ node'[n].path = Append(IF parent = None THEN <<TypeOf[n]>>
                                         ELSE held[q][parent].path, Slug[n])
             /\ Rooted(Present', node'[n])
             /\ End(q)
<1> DEFINE n == request[q].node
           parent == request[q].target
           begin == IF parent = None THEN <<TypeOf[n]>> ELSE held[q][parent].path
           high == IF parent = None THEN 0 ELSE held[q][parent].depth + 1
           path == Append(begin, Slug[n])
           row == [present |-> TRUE, parent |-> parent, path |-> path, depth |-> high,
                   active |-> TRUE, deleted |-> FALSE]
<1>1. /\ node' = [node EXCEPT ![n] = row] /\ n \notin Present /\ End(q)
      /\ request[q].phase = "insert"
  BY DEF Insert
<1>2. /\ HeldFacts(request[q], held[q]) /\ IsImages(held[q]) /\ Kept(Present, held[q])
      /\ node \in [Nodes -> Row]
  BY DEF Base, HeldInv, TypeOK
<1>3. n \in Nodes \ Platform /\ parent \in DOMAIN held[q] \cup {None}
  BY <1>1, <1>2 DEF HeldFacts
<1>4. parent # None => /\ held[q][parent] \in Row /\ parent \in Present
                       /\ Len(held[q][parent].path) >= 2
  BY <1>2, <1>3 DEF IsImages, Kept, Rooted
<1> HIDE DEF n, parent
<1>5. parent \in Parent
  BY <1>4, PresentNodes DEF Parent
<1>6. begin \in Seq(Names) /\ Len(begin) >= 1 /\ high \in Nat
  <2>1. CASE parent = None
    <3>1. TypeOf[n] \in Names
      BY <1>3, NamesType
    <3>2. begin = <<TypeOf[n]>> /\ high = 0
      BY <2>1
    <3> HIDE DEF begin, high
    <3>3. QED
      BY <3>1, <3>2
  <2>2. CASE parent # None
    <3>1. begin = held[q][parent].path /\ high = held[q][parent].depth + 1
      BY <2>2
    <3>2. QED
      BY <1>4, <2>2, <3>1, RowType
  <2>3. QED
    BY <2>1, <2>2
<1> HIDE DEF begin, high
<1>7. path \in Seq(Names) /\ Len(path) >= 2
  <2>1. path \in Seq(Names) /\ Len(path) = Len(begin) + 1
    BY <1>3, <1>6, NamesType, ExtendPath
  <2>2. Len(begin) \in Nat
    BY <1>6, LenProperties
  <2>3. QED
    BY <1>6, <2>1, <2>2
<1> HIDE DEF path
<1>8. row \in Row
  BY <1>5, <1>6, <1>7 DEF Row
<1>9. row.present /\ row.parent = parent /\ row.path = path
  OBVIOUS
<1> HIDE DEF row
<1>10. node' \in [Nodes -> Row] /\ node'[n] = row /\ \A m \in Nodes \ {n} : node'[m] = node[m]
  BY <1>1, <1>2, <1>3, <1>8
<1>11. Present' = Present \cup {n}
  BY <1>3, <1>9, <1>10 DEF Present
<1>12. Rooted(Present', node'[n])
  BY <1>4, <1>7, <1>9, <1>10, <1>11 DEF Rooted
<1>13. QED
  BY <1>1, <1>3, <1>4, <1>9, <1>10, <1>11, <1>12 DEF n, parent, path, begin

LEMMA InsertBase ==
  ASSUME Base, NEW q \in Requests, Insert(q), Noting, UNCHANGED <<seeder, history>>
  PROVE  Base'
<1> DEFINE n == request[q].node
<1>1. /\ n \in Nodes \ Platform /\ node' \in [Nodes -> Row]
      /\ \A m \in Nodes \ {n} : node'[m] = node[m]
      /\ Present' = Present \cup {n} /\ Rooted(Present', node'[n]) /\ End(q)
  BY InsertFacts
<1> HIDE DEF n
<1>2. \A m \in Present : m \in Nodes /\ Rooted(Present, node[m])
  BY PresentNodes DEF Base, RowsInv
<1>3. ASSUME NEW m \in Present' PROVE Rooted(Present', node'[m])
  <2>1. CASE m = n
    BY <1>1, <2>1
  <2>2. CASE m # n
    BY <1>1, <1>2, <2>2 DEF Rooted
  <2>3. QED
    BY <2>1, <2>2
<1>4. request' \in [Requests -> Request] /\ HeldInv'
  BY <1>1, EndStep
<1>5. overlapped' \in BOOLEAN /\ selfMoved' \in BOOLEAN
  BY DEF history, Base, TypeOK
<1>6. QED
  BY SMTT(40), <1>1, <1>3, <1>4, <1>5, BaseStep

(* The steps that end a request, or only read, or set a flag.              *)
LEMMA EndBase ==
  ASSUME Base, NEW q \in Requests, End(q), node' \in [Nodes -> Row], SameShape,
         Noting, UNCHANGED <<seeder, history>>
  PROVE  Base'
<1>1. Present' = Present
  BY ShapeKept
<1>2. request' \in [Requests -> Request] /\ HeldInv'
  BY <1>1, EndStep
<1>3. QED
  BY <1>2, ShapeBase DEF history, Base, TypeOK

LEMMA SameShapeNode ==
  ASSUME Base, node' = node
  PROVE  node' \in [Nodes -> Row] /\ SameShape
BY DEF SameShape, Base, TypeOK

LEMMA DeleteShape ==
  ASSUME Base, NEW q \in Requests, Delete(q)
  PROVE  node' \in [Nodes -> Row] /\ SameShape
<1>1. HeldFacts(request[q], held[q])
  BY DEF Base, HeldInv
<1>2. request[q].node \in Nodes /\ node' = [node EXCEPT ![request[q].node].deleted = TRUE]
  BY <1>1 DEF Delete, HeldFacts
<1>3. QED
  BY <1>2, FlagShape

LEMMA EndsBase ==
  ASSUME Base, NEW q \in Requests, Noting, UNCHANGED <<seeder, history>>,
         \/ InsertFails(q) \/ Delete(q) \/ FindTargetFails(q) \/ WalkRefuses(q)
  PROVE  Base'
<1>1. End(q)
  BY DEF InsertFails, Delete, FindTargetFails, WalkRefuses
<1>2. node' \in [Nodes -> Row] /\ SameShape
  BY SameShapeNode, DeleteShape DEF InsertFails, FindTargetFails, WalkRefuses
<1>3. QED
  BY <1>1, <1>2, EndBase

(* A step of a request that only reads.                                    *)
LEMMA ReadBase ==
  ASSUME Base, NEW q \in Requests, NEW r \in Request, NEW h,
         IsImages(h), Kept(Present, h), HeldFacts(r, h),
         request' = [request EXCEPT ![q] = r],
         DOMAIN held' = Requests, held'[q] = h,
         \A p \in Requests \ {q} : held'[p] = held[p],
         node' = node, Noting, UNCHANGED <<seeder, history>>
  PROVE  Base'
<1>1. Present' = Present
  BY SameRows
<1>2. request' \in [Requests -> Request] /\ HeldInv'
  BY <1>1, RequestStep
<1>3. QED
  BY <1>2, BaseQuiet DEF history, Base, TypeOK

LEMMA RequestFields ==
  ASSUME Base, NEW q \in Requests
  PROVE  /\ request[q] \in Request /\ request[q].phase \in Phase
         /\ request[q].node \in Parent /\ request[q].target \in Parent /\ request[q].at \in Parent
         /\ request[q].old \in Seq(Names) /\ request[q].below \subseteq Nodes
         /\ DOMAIN held = Requests /\ IsImages(held[q]) /\ Kept(Present, held[q])
         /\ HeldFacts(request[q], held[q])
         /\ \A n \in DOMAIN held[q] : /\ n \in Present /\ n \in Nodes
                                      /\ held[q][n] \in Row /\ held[q][n].path \in Seq(Names)
BY PresentNodes DEF Base, TypeOK, HeldInv, Request, Kept, IsImages, Row

LEMMA FindTargetBase ==
  ASSUME Base, NEW q \in Requests, FindTarget(q), Noting, UNCHANGED <<seeder, history>>
  PROVE  Base'
<1> DEFINE target == request[q].target
           r == [request[q] EXCEPT !.phase = "walk", !.at = target]
           h == Loaded(q, target)
<1>1. /\ request[q].phase = "target" /\ target \in Present /\ node' = node
      /\ held' = [held EXCEPT ![q] = h]
      /\ request' = [request EXCEPT ![q].phase = "walk", ![q].at = target]
  BY DEF FindTarget
<1>2. request[q] \in Request /\ DOMAIN held = Requests /\ request \in [Requests -> Request]
  BY RequestFields DEF Base, TypeOK
<1>3. request' = [request EXCEPT ![q] = r]
  BY <1>1, <1>2
<1>4. /\ r \in Request /\ r.phase = "walk" /\ r.at = target
      /\ r.node = request[q].node /\ r.target = target
  BY <1>1, <1>2, PresentNodes DEF Request, Phase, Parent
<1>5. IsImages(h) /\ Kept(Present, h) /\ target \in DOMAIN h /\ DOMAIN held[q] \subseteq DOMAIN h
  BY <1>1, LoadedKept
<1>6. DOMAIN held' = Requests /\ held'[q] = h /\ \A p \in Requests \ {q} : held'[p] = held[p]
  BY <1>1, <1>2
<1>7. request[q].node \in DOMAIN held[q] /\ request[q].target \in Nodes
  BY <1>1, RequestFields DEF HeldFacts, Moving
<1> HIDE DEF r, h, target
<1>8. HeldFacts(r, h)
  BY <1>4, <1>5, <1>7 DEF HeldFacts, Moving, Aimed, target
<1>9. QED
  BY <1>1, <1>3, <1>4, <1>5, <1>6, <1>8, ReadBase

LEMMA WalkUpBase ==
  ASSUME Base, NEW q \in Requests, WalkUp(q), Noting, UNCHANGED <<seeder, history>>
  PROVE  Base'
<1> DEFINE above == Above(q)
           r == [request[q] EXCEPT !.at = above]
           h == Loaded(q, above)
<1>1. /\ request[q].phase = "walk" /\ above # None /\ node' = node
      /\ held' = [held EXCEPT ![q] = h]
      /\ request' = [request EXCEPT ![q].at = above]
  BY DEF WalkUp
<1>2. request[q] \in Request /\ DOMAIN held = Requests /\ request \in [Requests -> Request]
  BY RequestFields DEF Base, TypeOK
<1>3. request' = [request EXCEPT ![q] = r]
  BY <1>1, <1>2
<1>4. /\ request[q].node \in DOMAIN held[q] /\ request[q].target \in Nodes
      /\ request[q].target \in DOMAIN held[q] /\ request[q].at \in DOMAIN held[q]
  BY <1>1, RequestFields DEF HeldFacts, Moving, Aimed
<1>5. above \in Present
  BY <1>1, <1>4, RequestFields DEF Above, Kept, Rooted
<1> HIDE DEF above
<1>6. /\ r \in Request /\ r.phase = "walk" /\ r.at = above
      /\ r.node = request[q].node /\ r.target = request[q].target
  BY <1>1, <1>2, <1>5, PresentNodes DEF Request, Parent
<1>7. IsImages(h) /\ Kept(Present, h) /\ above \in DOMAIN h /\ DOMAIN held[q] \subseteq DOMAIN h
  BY <1>5, LoadedKept
<1>8. DOMAIN held' = Requests /\ held'[q] = h /\ \A p \in Requests \ {q} : held'[p] = held[p]
  BY <1>1, <1>2
<1> HIDE DEF r, h
<1>9. HeldFacts(r, h)
  BY <1>4, <1>6, <1>7 DEF HeldFacts, Moving, Aimed
<1>10. QED
  BY <1>1, <1>3, <1>6, <1>7, <1>8, <1>9, ReadBase

LEMMA WalkPassesBase ==
  ASSUME Base, NEW q \in Requests, WalkPasses(q), Noting, UNCHANGED <<seeder, history>>
  PROVE  Base'
<1> DEFINE old == held[q][request[q].node].path
           r == [request[q] EXCEPT !.phase = "write", !.old = old]
<1>1. /\ request[q].phase = "walk" /\ node' = node /\ held' = held
      /\ request' = [request EXCEPT ![q].phase = "write", ![q].old = old]
  BY DEF WalkPasses
<1>2. request[q] \in Request /\ DOMAIN held = Requests /\ request \in [Requests -> Request]
  BY RequestFields DEF Base, TypeOK
<1>3. request' = [request EXCEPT ![q] = r]
  BY <1>1, <1>2
<1>4. /\ request[q].node \in DOMAIN held[q] /\ request[q].target \in Nodes
      /\ request[q].target \in DOMAIN held[q]
  BY <1>1, RequestFields DEF HeldFacts, Moving, Aimed
<1>5. old \in Seq(Names)
  BY <1>4, RequestFields
<1> HIDE DEF old
<1>6. /\ r \in Request /\ r.phase = "write"
      /\ r.node = request[q].node /\ r.target = request[q].target
  BY <1>2, <1>5 DEF Request, Phase
<1> HIDE DEF r
<1>7. HeldFacts(r, held[q])
  BY <1>4, <1>6 DEF HeldFacts, Moving, Aimed
<1>8. IsImages(held[q]) /\ Kept(Present, held[q])
  BY RequestFields
<1>9. QED
  BY <1>1, <1>2, <1>3, <1>6, <1>7, <1>8, ReadBase

LEMMA FindBelowBase ==
  ASSUME Base, NEW q \in Requests, FindBelow(q), Noting, UNCHANGED <<seeder, history>>
  PROVE  Base'
<1> DEFINE below == {m \in Present : /\ TypeOf[m] = TypeOf[request[q].node]
                                     /\ StartsWith(node[m].path, request[q].old)}
           r == [request[q] EXCEPT !.phase = "rewrite", !.below = below]
           h == Queried(q, below)
<1>1. /\ request[q].phase = "find" /\ node' = node
      /\ held' = [held EXCEPT ![q] = h]
      /\ request' = [request EXCEPT ![q].phase = "rewrite", ![q].below = below]
  BY DEF FindBelow
<1>2. request[q] \in Request /\ DOMAIN held = Requests /\ request \in [Requests -> Request]
  BY RequestFields DEF Base, TypeOK
<1>3. request' = [request EXCEPT ![q] = r]
  BY <1>1, <1>2
<1>4. /\ request[q].node \in DOMAIN held[q] /\ request[q].target \in Nodes
      /\ request[q].target \in DOMAIN held[q]
  BY <1>1, RequestFields DEF HeldFacts, Moving, Aimed
<1>5. below \in SUBSET Present /\ below \in SUBSET Nodes
  BY PresentNodes
<1> HIDE DEF below
<1>6. /\ r \in Request /\ r.phase = "rewrite" /\ r.below = below
      /\ r.node = request[q].node /\ r.target = request[q].target
  BY <1>2, <1>5 DEF Request, Phase
<1>7. IsImages(h) /\ Kept(Present, h) /\ DOMAIN h = DOMAIN held[q] \cup below
  BY <1>5, QueriedKept
<1>8. DOMAIN held' = Requests /\ held'[q] = h /\ \A p \in Requests \ {q} : held'[p] = held[p]
  BY <1>1, <1>2
<1> HIDE DEF r, h
<1>9. HeldFacts(r, h)
  BY <1>4, <1>6, <1>7 DEF HeldFacts, Moving, Aimed
<1>10. QED
  BY <1>1, <1>3, <1>6, <1>7, <1>8, <1>9, ReadBase

(* What the flush of a move writes of one row.                             *)
LEMMA WrittenFields ==
  ASSUME NEW row \in Row, NEW image, NEW after \in Row
  PROVE  LET new == Written(row, image, after)
         IN  /\ new \in Row /\ (new.present <=> row.present)
             /\ new.parent = IF after.parent # image.parent THEN after.parent ELSE row.parent
             /\ new.path = IF after.path # image.path THEN after.path ELSE row.path
<1> DEFINE parent == IF after.parent # image.parent THEN after.parent ELSE row.parent
           path == IF after.path # image.path THEN after.path ELSE row.path
           depth == IF after.depth # image.depth THEN after.depth ELSE row.depth
           new == [row EXCEPT !.parent = parent, !.path = path, !.depth = depth]
<1>1. /\ Written(row, image, after) =
            [row EXCEPT !.parent = IF after.parent # image.parent THEN after.parent ELSE row.parent,
                        !.path = IF after.path # image.path THEN after.path ELSE row.path,
                        !.depth = IF after.depth # image.depth THEN after.depth ELSE row.depth]
  BY DEF Written, Row
<1>2. Written(row, image, after) = new
  BY <1>1
<1>3. parent \in Parent /\ path \in Seq(Names) /\ depth \in Nat
  BY RowType
<1> HIDE DEF parent, path, depth
<1>4. /\ new \in Row /\ (new.present <=> row.present)
      /\ new.parent = parent /\ new.path = path
  BY <1>3 DEF Row
<1>5. QED
  BY <1>2, <1>4 DEF parent, path

LEMMA WriteFacts ==
  ASSUME Base, NEW q \in Requests, WriteNode(q)
  PROVE  LET n == request[q].node
             target == request[q].target
             image == held[q][n]
             path == Append(held[q][target].path, Slug[n])
         IN  /\ n \in DOMAIN held[q] /\ n \in Present /\ n \in Nodes
             /\ target \in DOMAIN held[q] /\ target \in Present /\ target \in Nodes
             /\ request[q].phase = "write"
             /\ node' \in [Nodes -> Row] /\ \A m \in Nodes \ {n} : node'[m] = node[m]
             /\ Present' = Present
             /\ node'[n].parent = IF target # image.parent THEN target ELSE node[n].parent
             /\ node'[n].path = IF path # image.path THEN path ELSE node[n].path
             /\ Rooted(Present, node'[n])
             /\ request' = [request EXCEPT ![q].phase = "find"]
             /\ DOMAIN held' = Requests /\ \A p \in Requests \ {q} : held'[p] = held[p]
             /\ DOMAIN held'[q] = DOMAIN held[q]
             /\ \A m \in DOMAIN held[q] \ {n} : held'[q][m] = held[q][m]
             /\ held'[q][n] \in Row /\ Rooted(Present, held'[q][n])
             /\ held'[q][n].parent = target /\ held'[q][n].path = path
<1> DEFINE n == request[q].node
           target == request[q].target
           image == held[q][n]
           above == held[q][target]
           path == Append(above.path, Slug[n])
           depth == above.depth + 1
           after == [image EXCEPT !.parent = target, !.depth = depth, !.path = path]
           new == Written(node[n], image, after)
<1>1. /\ request[q].phase = "write"
      /\ node' = [node EXCEPT ![n] = new]
      /\ held' = [held EXCEPT ![q][n] = after]
      /\ request' = [request EXCEPT ![q].phase = "find"]
  BY DEF WriteNode
<1>2. n \in DOMAIN held[q] /\ target \in DOMAIN held[q] /\ target \in Nodes
  BY <1>1, RequestFields DEF HeldFacts, Moving, Aimed
<1>3. /\ n \in Present /\ n \in Nodes /\ target \in Present
      /\ image \in Row /\ above \in Row /\ Len(above.path) >= 2
      /\ held[q] \in [DOMAIN held[q] -> Row] /\ DOMAIN held = Requests
  BY <1>2, RequestFields DEF Kept, Rooted, IsImages
<1>4. node \in [Nodes -> Row] /\ \A m \in Present : Rooted(Present, node[m])
  BY DEF Base, RowsInv, TypeOK
<1> HIDE DEF n, target, image, above
<1>5. target \in Parent /\ depth \in Nat /\ above.path \in Seq(Names) /\ Len(above.path) \in Nat
  BY <1>2, <1>3, RowType DEF Parent
<1>6. path \in Seq(Names) /\ Len(path) = Len(above.path) + 1
  BY <1>3, <1>5, NamesType, ExtendPath
<1> HIDE DEF path, depth
<1>7. after \in Row /\ after.parent = target /\ after.path = path
  BY <1>3, <1>5, <1>6 DEF Row
<1>8. Rooted(Present, after)
  BY <1>3, <1>5, <1>6, <1>7 DEF Rooted
<1> HIDE DEF after
<1>9. /\ new \in Row /\ (new.present <=> node[n].present)
      /\ new.parent = IF target # image.parent THEN target ELSE node[n].parent
      /\ new.path = IF path # image.path THEN path ELSE node[n].path
  BY <1>3, <1>4, <1>7, WrittenFields
<1> HIDE DEF new
<1>10. Rooted(Present, new)
  BY <1>3, <1>4, <1>7, <1>8, <1>9 DEF Rooted
<1>11. node' \in [Nodes -> Row] /\ node'[n] = new /\ \A m \in Nodes \ {n} : node'[m] = node[m]
  BY <1>1, <1>3, <1>4, <1>9
<1>12. Present' = Present
  BY <1>3, <1>9, <1>11 DEF Present
<1>13. /\ DOMAIN held' = Requests /\ \A p \in Requests \ {q} : held'[p] = held[p]
       /\ held'[q] = [held[q] EXCEPT ![n] = after]
  BY <1>1, <1>3
<1>14. /\ DOMAIN held'[q] = DOMAIN held[q] /\ held'[q][n] = after
       /\ \A m \in DOMAIN held[q] \ {n} : held'[q][m] = held[q][m]
  BY <1>2, <1>13
<1>15. QED
  BY <1>1, <1>2, <1>3, <1>7, <1>8, <1>9, <1>10, <1>11, <1>12, <1>13, <1>14
  DEF n, target, image, above, path

LEMMA WriteBase ==
  ASSUME Base, NEW q \in Requests, WriteNode(q), Noting, UNCHANGED <<seeder, history>>
  PROVE  Base'
<1> DEFINE n == request[q].node
           h == held'[q]
           r == [request[q] EXCEPT !.phase = "find"]
<1>1. /\ n \in DOMAIN held[q] /\ n \in Present /\ n \in Nodes
      /\ request[q].target \in DOMAIN held[q] /\ request[q].target \in Nodes
      /\ node' \in [Nodes -> Row] /\ \A m \in Nodes \ {n} : node'[m] = node[m]
      /\ Present' = Present /\ Rooted(Present, node'[n])
      /\ request' = [request EXCEPT ![q].phase = "find"]
      /\ DOMAIN held' = Requests /\ \A p \in Requests \ {q} : held'[p] = held[p]
      /\ DOMAIN h = DOMAIN held[q]
      /\ \A m \in DOMAIN held[q] \ {n} : h[m] = held[q][m]
      /\ h[n] \in Row /\ Rooted(Present, h[n])
  BY WriteFacts
<1>2. \A m \in Present : m \in Nodes /\ Rooted(Present, node[m])
  BY PresentNodes DEF Base, RowsInv
<1>3. \A m \in Present' : Rooted(Present', node'[m])
  BY <1>1, <1>2
<1>4. IsImages(held[q]) /\ Kept(Present, held[q]) /\ request[q] \in Request
  BY SMTT(40), RequestFields
<1>5. held'[q] = [held[q] EXCEPT ![n] = held'[q][n]]
  BY <1>1, <1>4 DEF WriteNode, Base, TypeOK
<1> HIDE DEF n, h
<1>6. IsImages(h) /\ Kept(Present', h)
  <2>1. h = [held[q] EXCEPT ![n] = h[n]]
    BY <1>5 DEF h
  <2>2. h \in [DOMAIN held[q] -> Row]
    BY <1>1, <1>4, <2>1 DEF IsImages
  <2>3. QED
    BY <1>1, <1>4, <2>2 DEF IsImages, Kept
<1>7. request' = [request EXCEPT ![q] = r]
  BY <1>1 DEF Base, TypeOK
<1>8. /\ r \in Request /\ r.phase = "find"
      /\ r.node = n /\ r.target = request[q].target
  BY <1>4 DEF Request, Phase, n
<1> HIDE DEF r
<1>9. HeldFacts(r, h)
  BY <1>1, <1>8 DEF HeldFacts, Moving, Aimed
<1>10. request' \in [Requests -> Request] /\ HeldInv'
  BY <1>1, <1>6, <1>7, <1>8, <1>9, RequestStep DEF h
<1>11. QED
  BY SMTT(40), <1>1, <1>3, <1>10, BaseStep DEF history, Base, TypeOK

(* The image that updateChildPaths makes.                                  *)
LEMMA RewrittenFields ==
  ASSUME NEW image \in Row, NEW old \in Seq(Names), NEW new \in Seq(Names), Len(new) >= 2
  PROVE  LET after == Rewritten(image, old, new)
         IN  /\ after \in Row /\ after.parent = image.parent
             /\ after.path = new \o SubSeq(image.path, Len(old) + 1, Len(image.path))
             /\ Len(after.path) >= 2
<1> DEFINE rest == SubSeq(image.path, Len(old) + 1, Len(image.path))
           path == new \o rest
           depth == Len(path) - 1
           after == [image EXCEPT !.path = path, !.depth = depth]
<1>1. Rewritten(image, old, new) = after
  BY DEF Rewritten
<1>2. /\ image.path \in Seq(Names) /\ Len(image.path) \in Nat /\ Len(old) \in Nat /\ Len(new) \in Nat
      /\ \A i \in 1..Len(image.path) : image.path[i] \in Names
  BY RowType, LenProperties
<1>3. \A i \in (Len(old) + 1)..Len(image.path) : image.path[i] \in Names
  BY <1>2
<1>4. rest \in Seq(Names)
  BY <1>2, <1>3, SubSeqProperties
<1> HIDE DEF rest
<1>5. path \in Seq(Names) /\ Len(path) = Len(new) + Len(rest) /\ Len(rest) \in Nat
  BY <1>4, ConcatProperties, LenProperties
<1>6. Len(path) >= 2 /\ depth \in Nat
  BY <1>2, <1>5
<1> HIDE DEF path, depth
<1>7. after \in Row /\ after.parent = image.parent /\ after.path = path
  BY <1>5, <1>6 DEF Row
<1>8. QED
  BY <1>1, <1>6, <1>7 DEF path, rest

LEMMA RewriteFacts ==
  ASSUME Base, NEW q \in Requests, Rewrite(q)
  PROVE  LET new == held[q][request[q].node].path
             old == request[q].old
             path(m) == new \o SubSeq(held[q][m].path, Len(old) + 1, Len(held[q][m].path))
         IN  /\ request[q].phase = "rewrite" /\ End(q)
             /\ request[q].node \in DOMAIN held[q] /\ request[q].below \subseteq DOMAIN held[q]
             /\ new \in Seq(Names) /\ old \in Seq(Names)
             /\ node' \in [Nodes -> Row] /\ Present' = Present
             /\ \A m \in Nodes : Rooted(Present, node[m]) => Rooted(Present, node'[m])
             /\ \A m \in Nodes : node'[m].parent = node[m].parent
             /\ \A m \in Nodes \ request[q].below : node'[m] = node[m]
             /\ \A m \in request[q].below :
                  node'[m].path = IF path(m) # held[q][m].path THEN path(m) ELSE node[m].path
<1> DEFINE new == held[q][request[q].node].path
           old == request[q].old
           path(m) == new \o SubSeq(held[q][m].path, Len(old) + 1, Len(held[q][m].path))
           below == request[q].below
           after(m) == Rewritten(held[q][m], old, new)
           row(m) == Written(node[m], held[q][m], after(m))
<1>1. /\ request[q].phase = "rewrite" /\ End(q)
      /\ node' = [m \in Nodes |-> IF m \in below THEN row(m) ELSE node[m]]
  BY DEF Rewrite
<1>2. request[q].node \in DOMAIN held[q] /\ below \subseteq DOMAIN held[q]
  BY <1>1, RequestFields DEF HeldFacts, Moving
<1>3. /\ old \in Seq(Names) /\ new \in Seq(Names) /\ Len(new) >= 2
      /\ \A m \in below : m \in Present /\ m \in Nodes /\ held[q][m] \in Row
  BY <1>2, RequestFields DEF Kept, Rooted
<1>4. node \in [Nodes -> Row]
  BY DEF Base, TypeOK
<1> HIDE DEF new, old, below
<1>5. ASSUME NEW m \in below
      PROVE  /\ row(m) \in Row /\ (row(m).present <=> node[m].present)
             /\ row(m).parent = node[m].parent
             /\ row(m).path = IF path(m) # held[q][m].path THEN path(m) ELSE node[m].path
             /\ Rooted(Present, node[m]) => Rooted(Present, row(m))
  <2>1. /\ after(m) \in Row /\ after(m).parent = held[q][m].parent
        /\ after(m).path = path(m) /\ Len(after(m).path) >= 2
    BY <1>3, RewrittenFields
  <2> HIDE DEF after
  <2>2. node[m] \in Row
    BY <1>3, <1>4
  <2>3. /\ row(m) \in Row /\ (row(m).present <=> node[m].present)
        /\ row(m).parent = IF after(m).parent # held[q][m].parent THEN after(m).parent ELSE node[m].parent
        /\ row(m).path = IF after(m).path # held[q][m].path THEN after(m).path ELSE node[m].path
    <3> HIDE DEF path, row
    <3>1. after(m) \in Row
      BY <2>1
    <3>2. row(m) = Written(node[m], held[q][m], after(m))
      BY DEF row
    <3>3. QED
      BY <2>2, <3>1, <3>2, WrittenFields
  <2> HIDE DEF row, path
  <2>4. QED
    BY <2>1, <2>3 DEF Rooted
<1>6. /\ \A m \in below : node'[m] = row(m)
      /\ \A m \in Nodes \ below : node'[m] = node[m]
  BY <1>1, <1>3
<1> HIDE DEF row, path
<1>7. node' \in [Nodes -> Row]
  BY <1>1, <1>4, <1>5
<1>8. Present' = Present
  BY <1>5, <1>6 DEF Present
<1>9. \A m \in Nodes : /\ node'[m].parent = node[m].parent
                       /\ Rooted(Present, node[m]) => Rooted(Present, node'[m])
  BY <1>5, <1>6
<1>10. \A m \in below : node'[m].path = IF path(m) # held[q][m].path THEN path(m) ELSE node[m].path
  BY <1>5, <1>6
<1>11. QED
  BY <1>1, <1>2, <1>3, <1>6, <1>7, <1>8, <1>9, <1>10 DEF new, old, below, path

LEMMA RewriteBase ==
  ASSUME Base, NEW q \in Requests, Rewrite(q), Noting, UNCHANGED <<seeder, history>>
  PROVE  Base'
<1>1. /\ End(q) /\ node' \in [Nodes -> Row] /\ Present' = Present
      /\ \A m \in Nodes : Rooted(Present, node[m]) => Rooted(Present, node'[m])
  BY RewriteFacts
<1>2. \A m \in Present : m \in Nodes /\ Rooted(Present, node[m])
  BY PresentNodes DEF Base, RowsInv
<1>3. \A m \in Present' : Rooted(Present', node'[m])
  BY <1>1, <1>2
<1>4. request' \in [Requests -> Request] /\ HeldInv'
  BY <1>1, EndStep
<1>5. QED
  BY <1>1, <1>3, <1>4, BaseStep DEF history, Base, TypeOK

LEMMA UpdateBase ==
  ASSUME Base, NEW n \in Nodes, Activate(n) \/ Deactivate(n)
  PROVE  Base' /\ SameShape
<1>1. PICK active \in BOOLEAN : Update(n, active)
  BY DEF Activate, Deactivate
<1>2. /\ node' = [node EXCEPT ![n].active = active]
      /\ UNCHANGED <<request, held, seeder, history, mixed, behind>>
  BY <1>1 DEF Update
<1>3. node' \in [Nodes -> Row] /\ SameShape
  BY <1>2, FlagShape
<1>4. Present' = Present
  BY <1>3, ShapeKept
<1>5. HeldInv'
  BY <1>2, <1>4 DEF Base, HeldInv
<1>6. QED
  BY <1>2, <1>3, <1>5, ShapeBase DEF history, Base, TypeOK

-----------------------------------------------------------------------------
(* The seeder.                                                             *)

SeederNext == [at |-> IF seeder.at = Len(Batches) THEN 0 ELSE seeder.at + 1, found |-> Found({})]

(* The rows A that a batch adds: under one another, from roots down, as    *)
(* create would have made them, or under nodes of other types.             *)
SeedAdds(A) ==
  /\ A \cap Present = {} /\ Present' = Present \cup A
  /\ node' \in [Nodes -> Row] /\ \A m \in Nodes \ A : node'[m] = node[m]
  /\ \A n \in A : Rooted(Present', node'[n])
  /\ \A S \in SUBSET A : S # {} => \E n \in S : node'[n].parent \notin S
  /\ \A n \in A :
       \/ /\ node'[n].parent # None
          /\ TypeOf[node'[n].parent] # TypeOf[n]
       \/ /\ node'[n].parent \in A \cup {None}
          /\ node'[n].path = Append(IF node'[n].parent = None THEN <<TypeOf[n]>>
                                      ELSE node'[node'[n].parent].path, Slug[n])

LEMMA SeedTreesAdds ==
  ASSUME Base, SeedTrees
  PROVE  /\ SeedAdds(DOMAIN Batches[1]) /\ seeder' = SeederNext
         /\ seeder.at \in DOMAIN Batches /\ DOMAIN Batches[1] \subseteq DOMAIN Batches[seeder.at]
         /\ DOMAIN Batches[1] \subseteq Nodes
<1> DEFINE D == DOMAIN Batches[1]
           rows == Seeded(Batches[1], SeedSlug)
<1>1. /\ seeder.at = 1
      /\ node' = [n \in Nodes |-> IF n \in D THEN rows[n] ELSE node[n]]
      /\ seeder' = [at |-> IF Len(Batches) = 1 THEN 0 ELSE 2, found |-> Found({})]
  BY DEF SeedTrees, SeedTo
<1>2. /\ 1 \in DOMAIN Batches /\ Len(Batches) \in Nat
      /\ IsForest(Batches[1]) /\ \A n \in D : SeedSlug[n] = Slug[n]
  BY BatchesAssumption
<1>3. seeder' = SeederNext
  BY <1>1, <1>2 DEF SeederNext
<1>4. D \cap Present = {}
  BY <1>1, <1>2 DEF Base, SeederInv, Unseeded
<1>5. \A n \in D : SeedSlug[n] \in Names
  BY <1>2, NamesType, BatchFacts
<1>6. /\ D \subseteq Nodes /\ rows \in [Nodes -> Row]
      /\ \A n \in Nodes : rows[n].present <=> n \in D
      /\ \A n \in D :
           /\ rows[n].parent = Batches[1][n] /\ Batches[1][n] \in D \cup {None}
           /\ rows[n].path = Append(IF Batches[1][n] = None THEN <<TypeOf[n]>>
                                      ELSE rows[Batches[1][n]].path, SeedSlug[n])
           /\ Len(rows[n].path) >= 2
  BY <1>2, <1>5, SeededRows
<1>7. node \in [Nodes -> Row]
  BY DEF Base, TypeOK
<1>8. \A S \in SUBSET D : S # {} => \E n \in S : Batches[1][n] \notin S
  BY <1>2 DEF IsForest
<1> HIDE DEF D, rows
<1>9. /\ node' \in [Nodes -> Row] /\ \A m \in Nodes \ D : node'[m] = node[m]
      /\ \A n \in D : node'[n] = rows[n]
  BY <1>1, <1>6, <1>7
<1>10. Present' = Present \cup D
  BY <1>6, <1>9 DEF Present
<1>11. \A n \in D : Rooted(Present', node'[n])
  BY <1>6, <1>9, <1>10 DEF Rooted
<1>12. ASSUME NEW S \in SUBSET D, S # {} PROVE \E n \in S : node'[n].parent \notin S
  <2>1. PICK n \in S : Batches[1][n] \notin S
    BY <1>8, <1>12
  <2>2. node'[n].parent = Batches[1][n]
    BY <1>6, <1>9
  <2>3. QED
    BY <2>1, <2>2
<1>13. ASSUME NEW n \in D
       PROVE  /\ node'[n].parent \in D \cup {None}
              /\ node'[n].path = Append(IF node'[n].parent = None THEN <<TypeOf[n]>>
                                          ELSE node'[node'[n].parent].path, Slug[n])
  <2>1. node'[n].parent = Batches[1][n] /\ node'[n].path = rows[n].path /\ SeedSlug[n] = Slug[n]
    BY <1>2, <1>6, <1>9 DEF D
  <2>2. Batches[1][n] # None => node'[Batches[1][n]] = rows[Batches[1][n]]
    BY <1>6, <1>9
  <2>3. QED
    BY <1>6, <2>1, <2>2
<1>14. SeedAdds(D)
  BY <1>4, <1>9, <1>10, <1>11, <1>12, <1>13 DEF SeedAdds
<1>15. QED
  BY <1>1, <1>2, <1>3, <1>6, <1>14 DEF D

LEMMA SeedBelowAdds ==
  ASSUME Base, SeedBelow
  PROVE  \E A \in SUBSET Nodes :
           /\ SeedAdds(A) /\ seeder' = SeederNext
           /\ seeder.at \in DOMAIN Batches /\ A \subseteq DOMAIN Batches[seeder.at]
<1> DEFINE at == seeder.at
           parent == Batches[at]
           found == seeder.found
           A == {n \in DOMAIN parent : parent[n] \in DOMAIN found}
           path(n) == Append(found[parent[n]].path, SeedSlug[n])
           row(n) == [present |-> TRUE, parent |-> parent[n], path |-> path(n),
                      depth |-> at - 1, active |-> TRUE, deleted |-> FALSE]
<1>1. /\ at > 1
      /\ node' = [n \in Nodes |-> IF n \in DOMAIN parent /\ parent[n] \in DOMAIN found
                                    THEN row(n) ELSE node[n]]
      /\ seeder' = SeederNext
  BY DEF SeedBelow, SeedTo, SeederNext
<1>2. /\ at \in 0..Len(Batches) /\ IsImages(found) /\ Kept(Present, found)
      /\ Unseeded(Present) /\ node \in [Nodes -> Row]
  BY DEF Base, TypeOK, SeederInv
<1>3. Len(Batches) \in Nat \ {0} /\ DOMAIN Batches = 1..Len(Batches)
  BY SMTT(40), BatchesAssumption
<1>4. at \in DOMAIN Batches \ {1} /\ at \in Nat /\ at - 1 \in Nat /\ at \in 1..at
  BY <1>1, <1>2, <1>3
<1> HIDE DEF at
<1>5. \A n \in DOMAIN parent : n \in Nodes /\ parent[n] \in Nodes /\ TypeOf[parent[n]] # TypeOf[n]
  BY <1>4, BatchesAssumption
<1>6. DOMAIN parent \cap Present = {}
  BY <1>2, <1>4 DEF Unseeded, at
<1>7. \A n \in DOMAIN parent : SeedSlug[n] \in Names
  BY <1>4, NamesType, BatchFacts
<1> HIDE DEF parent, found
<1>8. ASSUME NEW n \in A
      PROVE  /\ row(n) \in Row /\ row(n).present /\ row(n).parent = parent[n]
             /\ n \in Nodes /\ n \notin Present /\ parent[n] \in Present /\ parent[n] # None
             /\ TypeOf[parent[n]] # TypeOf[n] /\ Rooted(Present, row(n))
  <2>1. /\ n \in Nodes /\ n \notin Present /\ parent[n] \in Present /\ parent[n] \in Nodes
        /\ parent[n] \in DOMAIN found
        /\ TypeOf[parent[n]] # TypeOf[n] /\ parent[n] # None
    BY <1>2, <1>5, <1>6, PresentNodes DEF Kept
  <2>2. found[parent[n]] \in Row /\ Len(found[parent[n]].path) >= 2
    BY <1>2, <2>1 DEF IsImages, Kept, Rooted
  <2>3. /\ path(n) \in Seq(Names)
        /\ Len(path(n)) = Len(found[parent[n]].path) + 1
        /\ Len(found[parent[n]].path) \in Nat
    BY <1>7, <2>2, RowType, ExtendPath
  <2> HIDE DEF path
  <2>4. Len(path(n)) >= 2
    BY <2>2, <2>3
  <2>5. row(n) \in Row
    BY <1>4, <2>1, <2>3 DEF Row, Parent
  <2>6. row(n).present /\ row(n).parent = parent[n] /\ row(n).path = path(n)
    OBVIOUS
  <2> HIDE DEF row
  <2>7. QED
    BY <2>1, <2>4, <2>5, <2>6 DEF Rooted
<1> HIDE DEF row
<1>9. \A n \in A : node'[n] = row(n)
  BY <1>1, <1>8
<1>10. \A m \in Nodes \ A : node'[m] = node[m]
  BY <1>1
<1> HIDE DEF A
<1>11. node' \in [Nodes -> Row]
  <2>1. \A n \in Nodes : node'[n] \in Row
    BY <1>2, <1>8, <1>9, <1>10
  <2>2. DOMAIN node' = Nodes /\ node' = [n \in Nodes |-> node'[n]]
    BY <1>1
  <2>3. QED
    BY <2>1, <2>2
<1>12. Present' = Present \cup A
  <2>1. ASSUME NEW n \in A PROVE n \in Nodes /\ node'[n].present
    <3>1. row(n).present /\ n \in Nodes
      BY <1>8
    <3>2. node'[n] = row(n)
      BY <1>9
    <3>3. QED
      BY <3>1, <3>2
  <2>2. QED
    BY <1>10, <2>1 DEF Present
<1>13. \A n \in A : Rooted(Present', node'[n])
  BY <1>8, <1>9, <1>12 DEF Rooted
<1>14. \A n \in A : node'[n].parent \in Present /\ n \notin Present
  BY <1>8, <1>9
<1>15. \A S \in SUBSET A : S # {} => \E n \in S : node'[n].parent \notin S
  BY <1>14
<1>16. \A n \in A : node'[n].parent # None /\ TypeOf[node'[n].parent] # TypeOf[n]
  BY <1>8, <1>9
<1>17. SeedAdds(A)
  BY <1>10, <1>11, <1>12, <1>13, <1>14, <1>15, <1>16 DEF SeedAdds
<1>18. A \subseteq Nodes /\ A \subseteq DOMAIN Batches[seeder.at]
  BY <1>8 DEF A, parent, at
<1>19. QED
  BY <1>1, <1>4, <1>17, <1>18 DEF at

LEMMA FoundNothing == Found({}) = [n \in {} |-> Idle] /\ DOMAIN Found({}) = {} /\ IsImages(Found({}))
<1>1. Found({}) = [n \in {} |-> Idle]
  BY DEF Found
<1>2. QED
  BY <1>1, NothingHeld

(* The requests, when the seeder takes a step.                             *)
LEMMA SeedHeld ==
  ASSUME Base, Present \subseteq Present', UNCHANGED <<request, held>>
  PROVE  request' \in [Requests -> Request] /\ HeldInv'
<1>1. request' \in [Requests -> Request]
  BY DEF Base, TypeOK
<1>2. /\ DOMAIN held = Requests
      /\ \A q \in Requests : IsImages(held[q]) /\ Kept(Present, held[q]) /\ HeldFacts(request[q], held[q])
  BY DEF Base, HeldInv
<1>3. \A q \in Requests : Kept(Present', held[q])
  BY <1>2, KeptGrows
<1>4. QED
  BY <1>1, <1>2, <1>3 DEF HeldInv

LEMMA SeedAddsBase ==
  ASSUME Base, NEW A \in SUBSET Nodes, SeedAdds(A), seeder' = SeederNext,
         seeder.at \in DOMAIN Batches, A \subseteq DOMAIN Batches[seeder.at],
         Noting, UNCHANGED <<request, held, history>>
  PROVE  Base'
<1>1. /\ Present' = Present \cup A /\ node' \in [Nodes -> Row]
      /\ \A m \in Nodes \ A : node'[m] = node[m]
      /\ \A n \in A : Rooted(Present', node'[n])
  BY DEF SeedAdds
<1>2. \A m \in Present : m \in Nodes /\ Rooted(Present, node[m])
  BY PresentNodes DEF Base, RowsInv
<1>3. ASSUME NEW m \in Present' PROVE Rooted(Present', node'[m])
  <2>1. CASE m \in A
    BY <1>1, <2>1
  <2>2. CASE m \notin A
    BY <1>1, <1>2, <2>2 DEF Rooted
  <2>3. QED
    BY <2>1, <2>2
<1>4. request' \in [Requests -> Request] /\ HeldInv'
  BY <1>1, SeedHeld
<1>5. /\ overlapped \in BOOLEAN /\ selfMoved \in BOOLEAN
      /\ Unseeded(Present) /\ seeder.at \in 1..Len(Batches)
      /\ Len(Batches) \in Nat /\ DOMAIN Batches = 1..Len(Batches)
  BY BatchesAssumption DEF Base, TypeOK, SeederInv
<1>6. /\ mixed' \subseteq Types /\ Strays' \subseteq mixed' /\ behind' \subseteq Nodes
      /\ overlapped' = overlapped /\ selfMoved' = selfMoved
  BY DEF Noting, history
<1>7. /\ seeder'.at = (IF seeder.at = Len(Batches) THEN 0 ELSE seeder.at + 1)
      /\ seeder'.found = Found({})
  BY DEF SeederNext
<1>8. seeder'.at \in 0..Len(Batches)
  BY <1>5, <1>7
<1>9. IsImages(seeder'.found) /\ Kept(Present', seeder'.found)
  BY <1>7, FoundNothing, NothingHeld
<1>10. TypeOK' /\ RowsInv'
  BY <1>1, <1>3, <1>4, <1>5, <1>6, <1>8, <1>9 DEF TypeOK, RowsInv, HeldInv
<1>11. ASSUME NEW k \in DOMAIN Batches, seeder'.at \in 1..k
       PROVE  DOMAIN Batches[k] \cap Present' = {}
  <2>1. k \in Nat /\ seeder.at \in Nat /\ seeder.at \in 1..k /\ k # seeder.at
    BY <1>5, <1>7, <1>11
  <2>2. DOMAIN Batches[k] \cap Present = {}
    BY <1>5, <2>1 DEF Unseeded
  <2>3. DOMAIN Batches[k] \cap DOMAIN Batches[seeder.at] = {}
    BY <2>1, BatchesAssumption
  <2>4. QED
    BY <1>1, <2>2, <2>3
<1>12. SeederInv'
  BY <1>9, <1>11 DEF SeederInv, Unseeded
<1>13. QED
  BY <1>4, <1>10, <1>12 DEF Base

LEMMA SeedReadBase ==
  ASSUME Base, SeedBegin \/ SeedFind \/ SeedBreaks, Noting, UNCHANGED <<request, held, history>>
  PROVE  Base' /\ node' = node
<1>1. node' = node
  BY DEF SeedBegin, SeedFind, SeedBreaks
<1>2. Present' = Present /\ Strays' = Strays
  BY <1>1, SameRows
<1>3. request' \in [Requests -> Request] /\ HeldInv'
  BY <1>2, SeedHeld
<1>4. /\ seeder.at \in 0..Len(Batches) /\ node \in [Nodes -> Row]
      /\ overlapped \in BOOLEAN /\ selfMoved \in BOOLEAN
      /\ Unseeded(Present) /\ RowsInv
  BY DEF Base, TypeOK, SeederInv
<1>5. mixed' \subseteq Types /\ Strays' \subseteq mixed' /\ behind' \subseteq Nodes
  BY DEF Noting
<1>6. Len(Batches) \in Nat \ {0} /\ DOMAIN Batches = 1..Len(Batches)
  BY BatchesAssumption
<1>7. /\ seeder'.at \in 0..Len(Batches)
      /\ IsImages(seeder'.found) /\ Kept(Present', seeder'.found) /\ Unseeded(Present)'
  <2>1. CASE SeedBegin
    <3>1. seeder'.at = 1 /\ seeder'.found = Found({}) /\ Present = {}
      BY <2>1 DEF SeedBegin, SeedTo
    <3>2. QED
      BY <1>2, <1>6, <3>1, FoundNothing, NothingHeld DEF Unseeded
  <2>2. CASE SeedFind
    <3> DEFINE S == Present \cap DOMAIN Batches[seeder.at - 1]
    <3>1. seeder'.at = seeder.at /\ seeder'.found = Found(S)
      BY <2>2 DEF SeedFind, SeedTo
    <3>2. S \subseteq Present
      OBVIOUS
    <3> HIDE DEF S
    <3>3. Found(S) = [n \in S |-> node[n]] /\ DOMAIN Found(S) = S
      BY DEF Found
    <3>4. IsImages(Found(S)) /\ Kept(Present', Found(S))
      BY <1>2, <1>4, <3>2, <3>3, PresentNodes DEF IsImages, Kept, RowsInv
    <3>5. QED
      BY <1>2, <1>4, <3>1, <3>4 DEF Unseeded
  <2>3. CASE SeedBreaks
    <3>1. seeder'.at = 0 /\ seeder'.found = Found({})
      BY <2>3 DEF SeedBreaks, SeedTo
    <3>2. QED
      BY <1>6, <3>1, FoundNothing, NothingHeld DEF Unseeded
  <2>4. QED
    BY <2>1, <2>2, <2>3
<1>8. TypeOK' /\ RowsInv'
  BY <1>1, <1>2, <1>3, <1>4, <1>5, <1>7 DEF TypeOK, RowsInv, HeldInv, history
<1>9. QED
  BY <1>1, <1>3, <1>7, <1>8 DEF Base, SeederInv

-----------------------------------------------------------------------------

LEMMA InitRows ==
  ASSUME NEW parent \in Seeds, node = Seeded(parent, Slug)
  PROVE  /\ IsForest(parent) /\ node \in [Nodes -> Row] /\ Present = DOMAIN parent
         /\ \A n \in Present :
              /\ node[n].parent = parent[n] /\ node[n].parent \in Present \cup {None}
              /\ node[n].path = Append(IF node[n].parent = None THEN <<TypeOf[n]>>
                                         ELSE node[node[n].parent].path, Slug[n])
              /\ Len(node[n].path) >= 2
<1>1. IsForest(parent)
  BY SeedsAssumption
<1>2. \A n \in DOMAIN parent : Slug[n] \in Names
  BY <1>1, NamesType DEF IsForest
<1>3. /\ DOMAIN parent \subseteq Nodes
      /\ node \in [Nodes -> Row]
      /\ \A n \in Nodes : node[n].present <=> n \in DOMAIN parent
      /\ \A n \in DOMAIN parent :
           /\ node[n].parent = parent[n] /\ parent[n] \in DOMAIN parent \cup {None}
           /\ node[n].path = Append(IF parent[n] = None THEN <<TypeOf[n]>>
                                      ELSE node[parent[n]].path, Slug[n])
           /\ Len(node[n].path) >= 2
  BY <1>1, <1>2, SeededRows
<1>4. Present = DOMAIN parent
  BY <1>3 DEF Present
<1>5. QED
  BY <1>1, <1>3, <1>4

LEMMA InitBase == Init => Base
<1> SUFFICES ASSUME Init PROVE Base
  OBVIOUS
<1>1. PICK parent \in Seeds : node = Seeded(parent, Slug)
  BY DEF Init
<1>2. /\ node \in [Nodes -> Row]
      /\ \A n \in Present : Rooted(Present, node[n])
  BY <1>1, InitRows DEF Rooted
<1> DEFINE h == [n \in {} |-> Idle]
<1>3. /\ request = [q \in Requests |-> Idle]
      /\ held = [q \in Requests |-> h]
      /\ seeder = [at |-> 0, found |-> h]
      /\ overlapped = FALSE /\ selfMoved = FALSE /\ mixed = Strays /\ behind = {}
  BY DEF Init
<1>4. IsImages(h) /\ Kept(Present, h) /\ DOMAIN h = {}
  BY NothingHeld
<1> HIDE DEF h
<1>5. Len(Batches) \in Nat
  BY BatchesAssumption
<1>6. \A q \in Requests : request[q] = Idle /\ held[q] = h
  BY <1>3
<1>7. seeder.at = 0 /\ seeder.found = h
  BY <1>3
<1>8. DOMAIN held = Requests /\ request \in [Requests -> Request]
  BY <1>3, RequestTypes
<1>9. HeldFacts(Idle, h)
  BY <1>4, RequestTypes DEF HeldFacts, Moving, Aimed
<1>10. HeldInv
  BY <1>4, <1>6, <1>8, <1>9 DEF HeldInv
<1>a. overlapped \in BOOLEAN /\ selfMoved \in BOOLEAN /\ mixed \subseteq Types /\ behind \subseteq Nodes
  BY <1>3, StrayTypes
<1>b. TypeOK
  BY <1>2, <1>4, <1>5, <1>6, <1>7, <1>8, <1>a DEF TypeOK
<1>11. SeederInv
  BY <1>4, <1>7 DEF SeederInv, Unseeded
<1>12. QED
  BY <1>2, <1>3, <1>10, <1>11, <1>b DEF Base, RowsInv

LEMMA AdvanceNoting ==
  ASSUME Base, NEW q \in Requests, Advance(q)
  PROVE  Noting /\ UNCHANGED <<seeder, history>> /\ Noted(q)
<1>1. Noted(q) /\ UNCHANGED <<seeder, history>>
  BY DEF Advance
<1>2. mixed \subseteq Types /\ behind \subseteq Nodes /\ Strays' \subseteq Types
  BY StrayTypes DEF Base, TypeOK
<1>3. request[q].phase = "write" => request[q].node \in Nodes
  <2>1. HeldFacts(request[q], held[q]) /\ IsImages(held[q])
    BY DEF Base, HeldInv
  <2>2. QED
    BY <2>1 DEF HeldFacts, IsImages, Moving
<1>4. Misled(q) => TypeOf[request[q].node] \in Types
  BY <1>3, NodesAssumption DEF Misled
<1>5. QED
  BY <1>1, <1>2, <1>4 DEF Noted, Noting

LEMMA AdvanceBase ==
  ASSUME Base, NEW q \in Requests, Advance(q)
  PROVE  Base'
<1>1. Noting /\ UNCHANGED <<seeder, history>>
  BY AdvanceNoting
<1>2. CASE InsertFails(q) \/ Delete(q) \/ FindTargetFails(q) \/ WalkRefuses(q)
  BY <1>1, <1>2, EndsBase
<1>3. CASE Insert(q)
  BY <1>1, <1>3, InsertBase
<1>4. CASE FindTarget(q)
  BY <1>1, <1>4, FindTargetBase
<1>5. CASE WalkUp(q)
  BY <1>1, <1>5, WalkUpBase
<1>6. CASE WalkPasses(q)
  BY <1>1, <1>6, WalkPassesBase
<1>7. CASE WriteNode(q)
  BY <1>1, <1>7, WriteBase
<1>8. CASE FindBelow(q)
  BY <1>1, <1>8, FindBelowBase
<1>9. CASE Rewrite(q)
  BY <1>1, <1>9, RewriteBase
<1>10. QED
  BY <1>2, <1>3, <1>4, <1>5, <1>6, <1>7, <1>8, <1>9 DEF Advance

LEMMA BreakFacts ==
  ASSUME Base, NEW q \in Requests, Break(q)
  PROVE  /\ SameShape /\ node' = node /\ Noting /\ End(q) /\ Running(q)
         /\ UNCHANGED <<seeder, history, mixed>>
<1>1. End(q) /\ Running(q) /\ UNCHANGED <<node, seeder, history, mixed>>
  BY DEF Break
<1>2. SameShape /\ Strays' = Strays
  BY <1>1, SameShapeNode, SameRows
<1>3. behind' \subseteq Nodes
  BY PresentNodes DEF Break, Children, Base, TypeOK
<1>4. QED
  BY <1>1, <1>2, <1>3, SameNoting

LEMMA BreakBase ==
  ASSUME Base, NEW q \in Requests, Break(q)
  PROVE  Base'
BY BreakFacts, SameShapeNode, EndBase

(* The first step of a request.                                            *)
Starts(q, n) ==
  /\ \/ Remove(q, n) \/ RemoveRefused(q, n)
     \/ \E parent \in Parent : n \notin Platform /\ Create(q, n, parent)
     \/ \E target \in Nodes : Move(q, n, target)
  /\ UNCHANGED <<seeder, mixed, behind>>

LEMMA NextSteps ==
  Next <=> \/ \E q \in Requests, n \in Nodes : Starts(q, n)
           \/ \E q \in Requests : Advance(q) \/ Break(q)
           \/ \E n \in Nodes : Activate(n) \/ Deactivate(n)
           \/ Seed
BY DEF Next, Starts

LEMMA StartsBase ==
  ASSUME Base, NEW q \in Requests, NEW n \in Nodes, Starts(q, n)
  PROVE  Base'
<1>1. UNCHANGED <<seeder, mixed, behind>>
  BY DEF Starts
<1>2. CASE Remove(q, n) \/ RemoveRefused(q, n)
  BY <1>1, <1>2, RemoveBase
<1>3. CASE \E parent \in Parent : n \notin Platform /\ Create(q, n, parent)
  BY <1>1, <1>3, CreateBase
<1>4. CASE \E target \in Nodes : Move(q, n, target)
  BY <1>1, <1>4, MoveBase
<1>5. QED
  BY <1>2, <1>3, <1>4 DEF Starts

LEMMA SeedBase ==
  ASSUME Base, Seed
  PROVE  Base'
<1>1. Noting /\ UNCHANGED <<request, held, history>>
  BY StrayTypes DEF Seed, Noting, Base, TypeOK
<1>2. CASE SeedBegin \/ SeedFind \/ SeedBreaks
  BY <1>1, <1>2, SeedReadBase
<1>3. CASE SeedTrees
  BY <1>1, <1>3, SeedTreesAdds, SeedAddsBase
<1>4. CASE SeedBelow
  BY <1>1, <1>4, SeedBelowAdds, SeedAddsBase
<1>5. QED
  BY <1>2, <1>3, <1>4 DEF Seed

LEMMA StutterBase ==
  ASSUME Base, UNCHANGED vars
  PROVE  Base'
BY DEF Base, TypeOK, RowsInv, HeldInv, SeederInv, Unseeded, Present, Strays, vars, history

LEMMA NextBase == Base /\ [Next]_vars => Base'
<1> SUFFICES ASSUME Base, [Next]_vars PROVE Base'
  OBVIOUS
<1>1. ASSUME NEW q \in Requests, NEW n \in Nodes, Starts(q, n) PROVE Base'
  BY <1>1, StartsBase
<1>2. ASSUME NEW q \in Requests, Advance(q) \/ Break(q) PROVE Base'
  BY <1>2, AdvanceBase, BreakBase
<1>3. ASSUME NEW n \in Nodes, Activate(n) \/ Deactivate(n) PROVE Base'
  BY <1>3, UpdateBase
<1>4. CASE Seed
  BY <1>4, SeedBase
<1>5. CASE UNCHANGED vars
  BY <1>5, StutterBase
<1>6. QED
  BY <1>1, <1>2, <1>3, <1>4, <1>5, NextSteps

LEMMA AlwaysBase == Spec => []Base
BY InitBase, NextBase, PTL DEF Spec

(* The rows, the requests, the images that they hold and the seeder's are  *)
(* of their types in every state: what ClassificationService and the       *)
(* seeder write has a parent, a path and a depth of their kind.            *)
THEOREM TypeCorrect == Spec => []TypeOK
<1>1. Base => TypeOK
  BY DEF Base
<1>2. QED
  BY <1>1, AlwaysBase, PTL

-----------------------------------------------------------------------------
(* The tree.  As long as requests neither overlapped nor moved a node      *)
(* under itself, at most one is in progress, no nodes are above one        *)
(* another in a circle, images have the parents and paths of their rows,   *)
(* and the walk of a move has seen a set of nodes that has the new parent, *)
(* and not the node, and, but for the one it is at, their parents.         *)

Calm == ~overlapped /\ ~selfMoved

Alone == \A p, q \in Requests : Running(p) /\ Running(q) => p = q

Current(rows, h) ==
  \A n \in DOMAIN h : h[n].parent = rows[n].parent /\ h[n].path = rows[n].path

Clear(r, W) == r.target \in W /\ r.node \notin W

WalkFacts(r, rows, P) ==
  /\ r.phase \in Moving => r.node # r.target
  /\ r.phase = "walk" =>
       \E W \in SUBSET P : /\ Clear(r, W) /\ r.at \in W
                           /\ \A n \in W \ {r.at} : rows[n].parent \in W \cup {None}
  /\ r.phase = "write" =>
       /\ TypeOf[r.node] = TypeOf[r.target]
       /\ \E W \in SUBSET P : Clear(r, W) /\ \A n \in W : rows[n].parent \in W \cup {None}

RequestsInv ==
  \A q \in Requests : Current(node, held[q]) /\ WalkFacts(request[q], node, Present)

TreeInv == Calm => Alone /\ NoCycle /\ RequestsInv

-----------------------------------------------------------------------------
(* Rows that keep their parents, and new ones that are not above them.     *)

LEMMA CycleKept ==
  ASSUME NoCycle, Present' = Present, \A n \in Present : node'[n].parent = node[n].parent
  PROVE  NoCycle'
<1> SUFFICES ASSUME NEW S \in SUBSET Present, S # {}
             PROVE  \E n \in S : node'[n].parent \notin S
  BY DEF NoCycle
<1>1. PICK n \in S : node[n].parent \notin S
  BY DEF NoCycle
<1>2. QED
  BY <1>1

LEMMA CycleGrows ==
  ASSUME Base, NoCycle, NEW A \in SUBSET Nodes, A \cap Present = {}, Present' = Present \cup A,
         \A m \in Nodes \ A : node'[m] = node[m],
         \A S \in SUBSET A : S # {} => \E n \in S : node'[n].parent \notin S
  PROVE  NoCycle'
<1> SUFFICES ASSUME NEW S \in SUBSET (Present \cup A), S # {}
             PROVE  \E n \in S : node'[n].parent \notin S
  BY DEF NoCycle
<1>1. ASSUME NEW n \in Present
      PROVE  node'[n].parent = node[n].parent /\ node[n].parent \in Present \cup {None}
  BY PresentNodes DEF Base, RowsInv, Rooted
<1>2. CASE S \cap Present = {}
  <2>1. S \in SUBSET A
    BY <1>2
  <2>2. QED
    BY <2>1
<1>3. CASE S \cap Present # {}
  <2>1. PICK n \in S \cap Present : node[n].parent \notin S \cap Present
    BY <1>3 DEF NoCycle
  <2>2. node'[n].parent = node[n].parent /\ node[n].parent \in Present \cup {None}
    BY <1>1, <2>1
  <2>3. None \notin S
    BY NodesAssumption, PresentNodes
  <2>4. node'[n].parent \notin S
    BY <2>1, <2>2, <2>3
  <2>5. QED
    BY <2>1, <2>4
<1>4. QED
  BY <1>2, <1>3

LEMMA WalkGrows ==
  ASSUME NEW P, NEW Q, P \subseteq Q, NEW rows, NEW later,
         \A n \in P : later[n].parent = rows[n].parent,
         NEW r, WalkFacts(r, rows, P)
  PROVE  WalkFacts(r, later, Q)
<1>1. ASSUME NEW W \in SUBSET P PROVE W \in SUBSET Q /\ \A n \in W : later[n].parent = rows[n].parent
  OBVIOUS
<1>2. ASSUME r.phase = "walk"
      PROVE  \E W \in SUBSET Q : /\ Clear(r, W) /\ r.at \in W
                                 /\ \A n \in W \ {r.at} : later[n].parent \in W \cup {None}
  <2>1. PICK W \in SUBSET P : /\ Clear(r, W) /\ r.at \in W
                              /\ \A n \in W \ {r.at} : rows[n].parent \in W \cup {None}
    BY <1>2 DEF WalkFacts
  <2>2. QED
    BY <1>1, <2>1
<1>3. ASSUME r.phase = "write"
      PROVE  \E W \in SUBSET Q : Clear(r, W) /\ \A n \in W : later[n].parent \in W \cup {None}
  <2>1. PICK W \in SUBSET P : Clear(r, W) /\ \A n \in W : rows[n].parent \in W \cup {None}
    BY <1>3 DEF WalkFacts
  <2>2. QED
    BY <1>1, <2>1
<1>4. QED
  BY <1>2, <1>3 DEF WalkFacts

(* Requests that are not in progress, and one that is.                     *)
LEMMA IdleFacts ==
  ASSUME NEW r, r.phase \in {"new", "done", "insert", "delete", "find", "rewrite"},
         NEW h, NEW rows, NEW P, r.phase \in Moving => r.node # r.target
  PROVE  /\ WalkFacts(r, rows, P)
         /\ r.phase \in {"new", "done"} /\ HeldFacts(r, h) => Current(rows, h)
BY DEF WalkFacts, HeldFacts, Current

LEMMA OneStep ==
  ASSUME Base, Base', NEW q \in Requests,
         \A p \in Requests \ {q} :
           ~Running(p) /\ request'[p] = request[p] /\ held'[p] = held[p],
         Running(q)' => Current(node', held'[q]) /\ WalkFacts(request'[q], node', Present')
  PROVE  Alone' /\ RequestsInv'
<1>1. \A p \in Requests : HeldFacts(request'[p], held'[p])
  BY DEF Base, HeldInv
<1>2. ASSUME NEW p \in Requests, request'[p].phase \in {"new", "done"}
      PROVE  Current(node', held'[p]) /\ WalkFacts(request'[p], node', Present')
  <2>1. request'[p].phase \notin Moving
    BY <1>2 DEF Moving
  <2>2. QED
    BY <1>1, <1>2, <2>1, IdleFacts
<1>3. \A p \in Requests \ {q} : request'[p].phase \in {"new", "done"}
  BY DEF Running
<1>4. Running(q)' \/ request'[q].phase \in {"new", "done"}
  BY DEF Running
<1>5. RequestsInv'
  BY <1>2, <1>3, <1>4 DEF RequestsInv
<1>6. Alone'
  BY <1>3 DEF Alone, Running
<1>7. QED
  BY <1>5, <1>6

(* The others, when a request begins or goes on without overlap.           *)
LEMMA OthersIdle ==
  ASSUME Base, TreeInv, Calm, NEW q \in Requests, Running(q)
  PROVE  \A p \in Requests \ {q} : ~Running(p)
BY DEF TreeInv, Alone

LEMMA BeginCalm ==
  ASSUME Base, NEW q \in Requests, NEW first, Begin(q, first), Calm'
  PROVE  /\ Calm /\ \A p \in Requests : ~Running(p)
         /\ request' = [request EXCEPT ![q] = first] /\ request'[q] = first
         /\ request[q].phase = "new" /\ DOMAIN held[q] = {}
         /\ ~(first.phase = "target" /\ first.node = first.target)
<1>1. /\ request' = [request EXCEPT ![q] = first] /\ request[q].phase = "new"
      /\ Calm /\ ~Busy /\ ~(first.phase = "target" /\ first.node = first.target)
  BY DEF Begin, Calm
<1>2. request'[q] = first
  BY <1>1 DEF Base, TypeOK
<1>3. DOMAIN held[q] = {}
  BY <1>1, RequestFields DEF HeldFacts
<1>4. QED
  BY <1>1, <1>2, <1>3 DEF Busy

LEMMA BeginTree ==
  ASSUME Base, Base', TreeInv, Calm', NEW q \in Requests, NEW first, Begin(q, first),
         node' = node, \A p \in Requests \ {q} : held'[p] = held[p],
         first.phase \in {"insert", "delete", "target", "done"},
         Current(node, held'[q])
  PROVE  TreeInv'
<1>1. /\ Calm /\ \A p \in Requests : ~Running(p)
      /\ request' = [request EXCEPT ![q] = first] /\ request'[q] = first
      /\ ~(first.phase = "target" /\ first.node = first.target)
  BY BeginCalm
<1>2. Present' = Present
  BY SameRows
<1>3. NoCycle'
  BY <1>1, <1>2, CycleKept DEF TreeInv
<1>4. WalkFacts(first, node', Present')
  BY <1>1 DEF WalkFacts, Moving
<1>5. \A p \in Requests \ {q} : request'[p] = request[p]
  BY <1>1 DEF Base, TypeOK
<1>6. Alone' /\ RequestsInv'
  BY <1>1, <1>4, <1>5, OneStep
<1>7. QED
  BY <1>3, <1>6 DEF TreeInv

LEMMA StartsTree ==
  ASSUME Base, Base', TreeInv, NEW q \in Requests, NEW n \in Nodes, Starts(q, n)
  PROVE  TreeInv'
<1> SUFFICES ASSUME Calm' PROVE TreeInv'
  BY DEF TreeInv
<1>1. DOMAIN held = Requests
  BY RequestFields
<1>2. CASE Remove(q, n) \/ RemoveRefused(q, n)
  <2>1. PICK first : /\ Begin(q, first) /\ UNCHANGED <<node, held>>
                     /\ first.phase \in {"delete", "done"}
    <3>1. CASE Remove(q, n)
      <4> DEFINE start == [Idle EXCEPT !.phase = "delete", !.node = n]
      <4>1. Begin(q, start) /\ UNCHANGED <<node, held>>
        BY <3>1 DEF Remove
      <4>2. start.phase = "delete"
        BY RequestTypes DEF Request
      <4> HIDE DEF start
      <4>3. QED
        BY <4>1, <4>2
    <3>2. CASE RemoveRefused(q, n)
      BY <3>2, RequestTypes DEF RemoveRefused
    <3>3. QED
      BY <1>2, <3>1, <3>2
  <2>2. DOMAIN held'[q] = {}
    BY <2>1, BeginCalm
  <2>3. Current(node, held'[q])
    BY <2>2 DEF Current
  <2>4. QED
    BY <2>1, <2>3, BeginTree
<1>3. ASSUME NEW parent \in Parent, n \notin Platform, Create(q, n, parent) PROVE TreeInv'
  <2>1. /\ node' = node
        /\ parent # None => parent \in Present
        /\ held' = IF parent = None THEN held ELSE [held EXCEPT ![q] = Loaded(q, parent)]
    BY <1>3 DEF Create
  <2>2. PICK first : Begin(q, first) /\ first.phase = "insert"
    <3> DEFINE start == [Idle EXCEPT !.phase = "insert", !.node = n, !.target = parent]
    <3>1. Begin(q, start)
      BY <1>3 DEF Create
    <3>2. start.phase = "insert"
      BY RequestTypes DEF Request
    <3> HIDE DEF start
    <3>3. QED
      BY <3>1, <3>2
  <2>3. DOMAIN held[q] = {}
    BY <2>2, BeginCalm
  <2>4. Current(node, held'[q])
    <3>1. CASE parent = None
      BY <2>1, <2>3, <3>1 DEF Current
    <3>2. CASE parent # None
      <4>1. held'[q] = Loaded(q, parent)
        BY <1>1, <2>1, <3>2
      <4>2. parent \in Present
        BY <2>1, <3>2
      <4>3. \A m \in DOMAIN Loaded(q, parent) : Loaded(q, parent)[m] = node[m]
        BY <2>3, <4>2, LoadedKept
      <4>4. QED
        BY <4>1, <4>3 DEF Current
    <3>3. QED
      BY <3>1, <3>2
  <2>5. \A p \in Requests \ {q} : held'[p] = held[p]
    BY <1>1, <2>1
  <2>6. node' = node
    BY <2>1
  <2>7. QED
    BY <2>2, <2>4, <2>5, <2>6, BeginTree
<1>4. ASSUME NEW target \in Nodes, Move(q, n, target) PROVE TreeInv'
  <2>1. node' = node /\ n \in Present /\ held' = [held EXCEPT ![q] = Loaded(q, n)]
    BY <1>4 DEF Move
  <2>2. PICK first : Begin(q, first) /\ first.phase = "target"
    <3> DEFINE start == [Idle EXCEPT !.phase = "target", !.node = n, !.target = target]
    <3>1. Begin(q, start)
      BY <1>4 DEF Move
    <3>2. start.phase = "target"
      BY RequestTypes DEF Request
    <3> HIDE DEF start
    <3>3. QED
      BY <3>1, <3>2
  <2>3. DOMAIN held[q] = {}
    BY <2>2, BeginCalm
  <2>4. held'[q] = Loaded(q, n) /\ \A p \in Requests \ {q} : held'[p] = held[p]
    BY <1>1, <2>1
  <2>5. \A m \in DOMAIN Loaded(q, n) : Loaded(q, n)[m] = node[m]
    BY <2>1, <2>3, LoadedKept
  <2>6. Current(node, held'[q])
    BY <2>4, <2>5 DEF Current
  <2>7. QED
    BY <2>1, <2>2, <2>4, <2>6, BeginTree
<1>5. QED
  BY <1>2, <1>3, <1>4 DEF Starts

(* A step of the one request in progress that leaves parents and paths.    *)
LEMMA AloneStep ==
  ASSUME Base, Base', TreeInv, Calm', UNCHANGED history, NEW q \in Requests, Running(q),
         \A p \in Requests \ {q} : request'[p] = request[p] /\ held'[p] = held[p],
         NoCycle',
         Running(q)' => Current(node', held'[q]) /\ WalkFacts(request'[q], node', Present')
  PROVE  TreeInv'
<1>1. Calm
  BY DEF Calm, history
<1>2. \A p \in Requests \ {q} : ~Running(p)
  BY <1>1, OthersIdle
<1>3. Alone' /\ RequestsInv'
  BY <1>2, OneStep
<1>4. QED
  BY <1>3 DEF TreeInv

LEMMA TreeNow ==
  ASSUME Base, TreeInv, Calm', UNCHANGED history, NEW q \in Requests
  PROVE  /\ Alone /\ NoCycle /\ Current(node, held[q]) /\ WalkFacts(request[q], node, Present)
         /\ \A n \in DOMAIN held[q] : /\ held[q][n].parent = node[n].parent
                                      /\ held[q][n].path = node[n].path
BY DEF Calm, history, TreeInv, RequestsInv, Current

LEMMA OthersStay ==
  ASSUME Base, NEW q \in Requests, NEW r, NEW h,
         request' = [request EXCEPT ![q] = r],
         held' = [held EXCEPT ![q] = h]
  PROVE  /\ request'[q] = r /\ held'[q] = h
         /\ \A p \in Requests \ {q} : request'[p] = request[p] /\ held'[p] = held[p]
BY DEF Base, TypeOK

LEMMA EndOthers ==
  ASSUME Base, NEW q \in Requests, End(q)
  PROVE  /\ ~Running(q)' /\ request'[q].phase = "done"
         /\ \A p \in Requests \ {q} : request'[p] = request[p] /\ held'[p] = held[p]
<1>1. request'[q] = Over /\ \A p \in Requests \ {q} : request'[p] = request[p] /\ held'[p] = held[p]
  BY OthersStay DEF End
<1>2. QED
  BY <1>1, RequestTypes DEF Running

LEMMA EndsTree ==
  ASSUME Base, Base', TreeInv, Calm', UNCHANGED history, NEW q \in Requests, Running(q), End(q), NoCycle'
  PROVE  TreeInv'
BY EndOthers, AloneStep

LEMMA LoadedCurrent ==
  ASSUME Base, NEW q \in Requests, NEW n \in Present, Current(node, held[q])
  PROVE  Current(node, Loaded(q, n)) /\ n \in DOMAIN Loaded(q, n)
<1> DEFINE h == Loaded(q, n)
<1>1. /\ n \in DOMAIN h
      /\ \A m \in DOMAIN h : h[m] = node[m] \/ (m \in DOMAIN held[q] /\ h[m] = held[q][m])
  BY LoadedKept
<1> HIDE DEF h
<1>2. Current(node, h)
  BY <1>1 DEF Current
<1>3. QED
  BY <1>1, <1>2 DEF h

LEMMA FindTargetTree ==
  ASSUME Base, Base', TreeInv, Calm', UNCHANGED history, NEW q \in Requests, FindTarget(q)
  PROVE  TreeInv'
<1> DEFINE target == request[q].target
           r == [request[q] EXCEPT !.phase = "walk", !.at = target]
           h == Loaded(q, target)
<1>1. /\ request[q].phase = "target" /\ target \in Present /\ node' = node
      /\ held' = [held EXCEPT ![q] = h]
      /\ request' = [request EXCEPT ![q].phase = "walk", ![q].at = target]
  BY DEF FindTarget
<1>2. request[q] \in Request /\ request \in [Requests -> Request]
  BY RequestFields DEF Base, TypeOK
<1>3. request' = [request EXCEPT ![q] = r]
  BY <1>1, <1>2
<1>4. r.phase = "walk" /\ r.at = target /\ r.node = request[q].node /\ r.target = target
  BY <1>2 DEF Request
<1>5. NoCycle /\ Current(node, held[q]) /\ r.node # target
  BY <1>1, <1>4, TreeNow DEF WalkFacts, Moving
<1>6. Current(node, h)
  BY <1>1, <1>5, LoadedCurrent
<1> HIDE DEF target, r, h
<1>7. /\ request'[q] = r /\ held'[q] = h
      /\ \A p \in Requests \ {q} : request'[p] = request[p] /\ held'[p] = held[p]
  BY <1>1, <1>3, OthersStay
<1>8. Present' = Present
  BY <1>1, SameRows
<1>9. {target} \in SUBSET Present /\ Clear(r, {target}) /\ r.at \in {target}
  BY <1>1, <1>4, <1>5 DEF Clear
<1>10. WalkFacts(r, node, Present)
  BY <1>4, <1>5, <1>9 DEF WalkFacts, Moving
<1>11. NoCycle'
  BY <1>1, <1>5, <1>8, CycleKept
<1>12. Running(q)
  BY <1>1 DEF Running
<1>13. QED
  BY <1>1, <1>6, <1>7, <1>8, <1>10, <1>11, <1>12, AloneStep

LEMMA WalkUpTree ==
  ASSUME Base, Base', TreeInv, Calm', UNCHANGED history, NEW q \in Requests, WalkUp(q)
  PROVE  TreeInv'
<1> DEFINE above == Above(q)
           r == [request[q] EXCEPT !.at = above]
           h == Loaded(q, above)
<1>1. /\ request[q].phase = "walk" /\ above # None /\ above # request[q].node /\ node' = node
      /\ held' = [held EXCEPT ![q] = h]
      /\ request' = [request EXCEPT ![q].at = above]
  BY DEF WalkUp
<1>2. request[q] \in Request /\ request \in [Requests -> Request]
  BY RequestFields DEF Base, TypeOK
<1>3. request' = [request EXCEPT ![q] = r]
  BY <1>1, <1>2
<1>4. /\ r.phase = "walk" /\ r.at = above
      /\ r.node = request[q].node /\ r.target = request[q].target
  BY <1>1, <1>2 DEF Request
<1>5. request[q].at \in DOMAIN held[q]
  BY <1>1, RequestFields DEF HeldFacts
<1>6. /\ NoCycle /\ Current(node, held[q]) /\ WalkFacts(request[q], node, Present)
      /\ above = node[request[q].at].parent
  BY <1>5, TreeNow DEF Above
<1>7. above \in Present
  BY <1>1, <1>5, RequestFields DEF Above, Kept, Rooted
<1> HIDE DEF above
<1>8. Current(node, h)
  BY <1>6, <1>7, LoadedCurrent
<1> HIDE DEF r, h
<1>9. /\ request'[q] = r /\ held'[q] = h
      /\ \A p \in Requests \ {q} : request'[p] = request[p] /\ held'[p] = held[p]
  BY <1>1, <1>3, OthersStay
<1>10. Present' = Present
  BY <1>1, SameRows
<1>11. WalkFacts(r, node, Present)
  <2>1. PICK W \in SUBSET Present :
          /\ Clear(request[q], W) /\ request[q].at \in W
          /\ \A n \in W \ {request[q].at} : node[n].parent \in W \cup {None}
    BY <1>1, <1>6 DEF WalkFacts
  <2> DEFINE V == W \cup {above}
  <2>2. V \in SUBSET Present /\ Clear(r, V) /\ r.at \in V
    BY <1>1, <1>4, <1>7, <2>1 DEF Clear
  <2>3. \A n \in V \ {r.at} : node[n].parent \in V \cup {None}
    BY <1>4, <1>6, <2>1
  <2> HIDE DEF V
  <2>4. r.node # r.target
    BY <1>1, <1>4, <1>6 DEF WalkFacts, Moving
  <2>5. QED
    BY <1>4, <2>2, <2>3, <2>4 DEF WalkFacts
<1>12. NoCycle'
  BY <1>1, <1>6, <1>10, CycleKept
<1>13. Running(q)
  BY <1>1 DEF Running
<1>14. QED
  BY <1>1, <1>8, <1>9, <1>10, <1>11, <1>12, <1>13, AloneStep

LEMMA WalkPassesTree ==
  ASSUME Base, Base', TreeInv, Calm', UNCHANGED history, NEW q \in Requests, WalkPasses(q)
  PROVE  TreeInv'
<1> DEFINE old == held[q][request[q].node].path
           r == [request[q] EXCEPT !.phase = "write", !.old = old]
<1>1. /\ request[q].phase = "walk" /\ node' = node /\ held' = held
      /\ Above(q) = None /\ SameType(q)
      /\ request' = [request EXCEPT ![q].phase = "write", ![q].old = old]
  BY DEF WalkPasses
<1>2. request[q] \in Request /\ request \in [Requests -> Request]
  BY RequestFields DEF Base, TypeOK
<1>3. request' = [request EXCEPT ![q] = r]
  BY <1>1, <1>2
<1>4. r.phase = "write" /\ r.node = request[q].node /\ r.target = request[q].target
  BY <1>2 DEF Request
<1> HIDE DEF r
<1>5. request[q].at \in DOMAIN held[q]
  BY <1>1, RequestFields DEF HeldFacts
<1>6. /\ NoCycle /\ Current(node, held[q]) /\ WalkFacts(request[q], node, Present)
      /\ node[request[q].at].parent = None
  BY <1>1, <1>5, TreeNow DEF Above
<1>7. WalkFacts(r, node, Present)
  <2>1. PICK W \in SUBSET Present :
          /\ Clear(request[q], W) /\ request[q].at \in W
          /\ \A n \in W \ {request[q].at} : node[n].parent \in W \cup {None}
    BY <1>1, <1>6 DEF WalkFacts
  <2>2. Clear(r, W) /\ \A n \in W : node[n].parent \in W \cup {None}
    BY <1>4, <1>6, <2>1 DEF Clear
  <2>3. r.node # r.target /\ TypeOf[r.node] = TypeOf[r.target]
    BY <1>1, <1>4, <1>6 DEF WalkFacts, Moving, SameType
  <2>4. QED
    BY <1>4, <2>2, <2>3 DEF WalkFacts
<1>8. request'[q] = r /\ \A p \in Requests \ {q} : request'[p] = request[p] /\ held'[p] = held[p]
  BY <1>1, <1>2, <1>3
<1>9. Present' = Present
  BY <1>1, SameRows
<1>10. NoCycle'
  BY <1>1, <1>6, <1>9, CycleKept
<1>11. Running(q)
  BY <1>1 DEF Running
<1>12. QED
  BY <1>1, <1>6, <1>7, <1>8, <1>9, <1>10, <1>11, AloneStep

(* The write of the node closes no circle: of the nodes on one, those in   *)
(* the set that the walk has seen would be on one already.                 *)
LEMMA WriteCycle ==
  ASSUME NoCycle, NEW n, NEW target, NEW W \in SUBSET Present, target \in W, n \notin W,
         \A m \in W : node[m].parent \in W \cup {None},
         Present' = Present, node'[n].parent = target,
         \A m \in Present \ {n} : node'[m].parent = node[m].parent
  PROVE  NoCycle'
<1> SUFFICES ASSUME NEW S \in SUBSET Present, S # {}, \A m \in S : node'[m].parent \in S
             PROVE  FALSE
  BY DEF NoCycle
<1>1. CASE n \notin S
  <2>1. PICK m \in S : node[m].parent \notin S
    BY DEF NoCycle
  <2>2. QED
    BY <1>1, <2>1
<1>2. CASE n \in S
  <2>1. target \in S \cap W
    BY <1>2
  <2>2. PICK m \in S \cap W : node[m].parent \notin S \cap W
    BY ZenonT(60), <2>1 DEF NoCycle
  <2>3. node'[m].parent = node[m].parent /\ node[m].parent \in W \cup {None}
    BY <2>2
  <2>4. node[m].parent \in S /\ None \notin S
    BY SMTT(40), <2>2, <2>3, PresentNodes
  <2>5. QED
    BY <2>2, <2>3, <2>4
<1>3. QED
  BY <1>1, <1>2

(* The row that a move writes, when the image is as the row is.            *)
LEMMA WriteNow ==
  ASSUME Base, TreeInv, Calm', UNCHANGED history, NEW q \in Requests, WriteNode(q)
  PROVE  LET n == request[q].node
             target == request[q].target
         IN  /\ n \in Nodes /\ n \in Present /\ target \in Present /\ target # n
             /\ node'[n].parent = target
             /\ node'[n].path = Append(node[target].path, Slug[n])
             /\ \A m \in Nodes \ {n} : node'[m] = node[m]
             /\ Present' = Present
             /\ Current(node', held'[q])
             /\ \E W \in SUBSET Present : /\ target \in W /\ n \notin W
                                          /\ \A m \in W : node[m].parent \in W \cup {None}
             /\ TypeOf[n] = TypeOf[target]
<1> DEFINE n == request[q].node
           target == request[q].target
           path == Append(held[q][target].path, Slug[n])
<1>1. /\ n \in DOMAIN held[q] /\ n \in Present /\ n \in Nodes
      /\ target \in DOMAIN held[q] /\ target \in Present
      /\ request[q].phase = "write"
      /\ \A m \in Nodes \ {n} : node'[m] = node[m]
      /\ Present' = Present
      /\ node'[n].parent = IF target # held[q][n].parent THEN target ELSE node[n].parent
      /\ node'[n].path = IF path # held[q][n].path THEN path ELSE node[n].path
      /\ DOMAIN held'[q] = DOMAIN held[q]
      /\ \A m \in DOMAIN held[q] \ {n} : held'[q][m] = held[q][m]
      /\ held'[q][n].parent = target /\ held'[q][n].path = path
  BY ZenonT(60), WriteFacts
<1>2. \A m \in DOMAIN held[q] : /\ held[q][m].parent = node[m].parent
                                /\ held[q][m].path = node[m].path
                                /\ m \in Nodes
  BY TreeNow, RequestFields
<1>3. path = Append(node[target].path, Slug[n])
  BY ZenonT(60), <1>1, <1>2
<1>4. node'[n].parent = target /\ node'[n].path = path
  BY <1>1, <1>2
<1>5. WalkFacts(request[q], node, Present)
  BY TreeNow
<1> HIDE DEF path
<1>6. /\ TypeOf[n] = TypeOf[target] /\ target # n
      /\ \E W \in SUBSET Present : /\ target \in W /\ n \notin W
                                   /\ \A m \in W : node[m].parent \in W \cup {None}
  BY <1>1, <1>5 DEF WalkFacts, Moving, Clear
<1>7. Current(node', held'[q])
  BY <1>1, <1>2, <1>4 DEF Current
<1>8. QED
  BY <1>1, <1>3, <1>4, <1>6, <1>7

LEMMA WriteTree ==
  ASSUME Base, Base', TreeInv, Calm', UNCHANGED history, NEW q \in Requests, WriteNode(q)
  PROVE  TreeInv'
<1> DEFINE n == request[q].node
           target == request[q].target
           r == [request[q] EXCEPT !.phase = "find"]
<1>1. /\ n \in Nodes /\ n \in Present /\ node'[n].parent = target /\ target # n
      /\ \A m \in Nodes \ {n} : node'[m] = node[m]
      /\ Present' = Present /\ Current(node', held'[q])
      /\ \E W \in SUBSET Present : /\ target \in W /\ n \notin W
                                   /\ \A m \in W : node[m].parent \in W \cup {None}
  BY SMTT(40), WriteNow
<1>2. /\ request[q].phase = "write" /\ request' = [request EXCEPT ![q].phase = "find"]
      /\ \A p \in Requests \ {q} : held'[p] = held[p]
  BY WriteFacts
<1>3. request[q] \in Request /\ request \in [Requests -> Request]
  BY RequestFields DEF Base, TypeOK
<1>4. /\ request'[q] = r /\ \A p \in Requests \ {q} : request'[p] = request[p]
      /\ r.phase = "find" /\ r.node = n /\ r.target = target
  BY <1>2, <1>3 DEF Request
<1> HIDE DEF n, target, r
<1>5. NoCycle'
  BY <1>1, TreeNow, PresentNodes, WriteCycle
<1>6. WalkFacts(r, node', Present')
  BY <1>1, <1>4, IdleFacts
<1>7. Running(q)
  BY <1>2 DEF Running
<1>8. QED
  BY <1>1, <1>2, <1>4, <1>5, <1>6, <1>7, AloneStep

LEMMA FindBelowTree ==
  ASSUME Base, Base', TreeInv, Calm', UNCHANGED history, NEW q \in Requests, FindBelow(q)
  PROVE  TreeInv'
<1> DEFINE below == {m \in Present : /\ TypeOf[m] = TypeOf[request[q].node]
                                     /\ StartsWith(node[m].path, request[q].old)}
           r == [request[q] EXCEPT !.phase = "rewrite", !.below = below]
           h == Queried(q, below)
<1>1. /\ request[q].phase = "find" /\ node' = node
      /\ held' = [held EXCEPT ![q] = h]
      /\ request' = [request EXCEPT ![q].phase = "rewrite", ![q].below = below]
  BY DEF FindBelow
<1>2. request[q] \in Request /\ request \in [Requests -> Request]
  BY RequestFields DEF Base, TypeOK
<1>3. request' = [request EXCEPT ![q] = r]
  BY <1>1, <1>2
<1>4. r.phase = "rewrite" /\ r.node = request[q].node /\ r.target = request[q].target
  BY <1>2 DEF Request
<1>5. below \in SUBSET Present
  OBVIOUS
<1> HIDE DEF below
<1>6. /\ DOMAIN h = DOMAIN held[q] \cup below
      /\ \A m \in below : h[m] = node[m]
      /\ \A m \in DOMAIN held[q] \ below : h[m] = held[q][m]
  BY <1>5, QueriedKept
<1> HIDE DEF r, h
<1>7. NoCycle /\ Current(node, held[q]) /\ WalkFacts(request[q], node, Present)
  BY TreeNow
<1>8. Current(node, h)
  BY <1>6, <1>7 DEF Current
<1>9. r.node # r.target
  BY <1>1, <1>4, <1>7 DEF WalkFacts, Moving
<1>10. Present' = Present
  BY <1>1, SameRows
<1>11. WalkFacts(r, node', Present')
  BY <1>4, <1>9, IdleFacts
<1>12. NoCycle'
  BY <1>1, <1>7, <1>10, CycleKept
<1>13. /\ request'[q] = r /\ held'[q] = h
       /\ \A p \in Requests \ {q} : request'[p] = request[p] /\ held'[p] = held[p]
  BY <1>1, <1>3, OthersStay
<1>14. Running(q)
  BY <1>1 DEF Running
<1>15. QED
  BY <1>1, <1>8, <1>11, <1>12, <1>13, <1>14, AloneStep

LEMMA InsertTree ==
  ASSUME Base, Base', TreeInv, Calm', UNCHANGED history, NEW q \in Requests, Insert(q)
  PROVE  TreeInv'
<1> DEFINE n == request[q].node
           parent == request[q].target
<1>1. /\ n \in Nodes /\ n \notin Present
      /\ \A m \in Nodes \ {n} : node'[m] = node[m]
      /\ Present' = Present \cup {n} /\ node'[n].parent = parent
      /\ parent # None => parent \in Present
      /\ End(q)
  BY InsertFacts
<1>2. Running(q)
  BY DEF Insert, Running
<1> HIDE DEF n, parent
<1>3. {n} \in SUBSET Nodes /\ {n} \cap Present = {}
  BY <1>1
<1>4. parent # n
  BY <1>1, NodesAssumption
<1>5. \A S \in SUBSET {n} : S # {} => \E m \in S : node'[m].parent \notin S
  BY <1>1, <1>4
<1>6. NoCycle'
  BY <1>1, <1>3, <1>5, TreeNow, CycleGrows
<1>7. QED
  BY <1>1, <1>2, <1>6, EndsTree

LEMMA AdvanceTree ==
  ASSUME Base, Base', TreeInv, NEW q \in Requests, Advance(q)
  PROVE  TreeInv'
<1> SUFFICES ASSUME Calm' PROVE TreeInv'
  BY DEF TreeInv
<1>1. UNCHANGED history
  BY DEF Advance
<1>2. NoCycle
  BY <1>1, TreeNow
<1>3. CASE InsertFails(q) \/ Delete(q) \/ FindTargetFails(q) \/ WalkRefuses(q)
  <2>1. End(q) /\ Running(q)
    BY <1>3 DEF InsertFails, Delete, FindTargetFails, WalkRefuses, Running
  <2>2. SameShape
    BY <1>3, SameShapeNode, DeleteShape DEF InsertFails, FindTargetFails, WalkRefuses
  <2>3. NoCycle'
    BY <1>2, <2>2, ShapeKept, CycleKept
  <2>4. QED
    BY <1>1, <2>1, <2>3, EndsTree
<1>4. CASE Insert(q)
  BY <1>1, <1>4, InsertTree
<1>5. CASE FindTarget(q)
  BY <1>1, <1>5, FindTargetTree
<1>6. CASE WalkUp(q)
  BY <1>1, <1>6, WalkUpTree
<1>7. CASE WalkPasses(q)
  BY <1>1, <1>7, WalkPassesTree
<1>8. CASE WriteNode(q)
  BY <1>1, <1>8, WriteTree
<1>9. CASE FindBelow(q)
  BY <1>1, <1>9, FindBelowTree
<1>10. CASE Rewrite(q)
  <2>1. /\ request[q].phase = "rewrite" /\ End(q) /\ Present' = Present
        /\ \A m \in Nodes : node'[m].parent = node[m].parent
    BY <1>10, RewriteFacts
  <2>2. NoCycle' /\ Running(q)
    BY <1>2, <2>1, PresentNodes, CycleKept DEF Running
  <2>3. QED
    BY SMTT(40), <1>1, <2>1, <2>2, EndsTree
<1>11. QED
  BY <1>3, <1>4, <1>5, <1>6, <1>7, <1>8, <1>9, <1>10 DEF Advance

LEMMA BreakTree ==
  ASSUME Base, Base', TreeInv, NEW q \in Requests, Break(q)
  PROVE  TreeInv'
<1> SUFFICES ASSUME Calm' PROVE TreeInv'
  BY DEF TreeInv
<1>1. End(q) /\ Running(q) /\ SameShape /\ UNCHANGED history
  BY BreakFacts
<1>2. NoCycle
  BY <1>1, TreeNow
<1>3. NoCycle'
  BY <1>1, <1>2, ShapeKept, CycleKept
<1>4. QED
  BY <1>1, <1>3, EndsTree

(* A step of another: rows stay, or are added.                             *)
LEMMA RowsTree ==
  ASSUME Base, Base', TreeInv, UNCHANGED <<request, held, history>>,
         Present \subseteq Present', NoCycle => NoCycle',
         \A n \in Present : node'[n].parent = node[n].parent /\ node'[n].path = node[n].path
  PROVE  TreeInv'
<1> SUFFICES ASSUME Calm' PROVE TreeInv'
  BY DEF TreeInv
<1>1. Alone /\ NoCycle /\ RequestsInv
  BY DEF Calm, history, TreeInv
<1>2. Alone'
  BY <1>1 DEF Alone, Running
<1>3. ASSUME NEW q \in Requests
      PROVE  Current(node', held[q]) /\ WalkFacts(request[q], node', Present')
  <2>1. Current(node, held[q]) /\ WalkFacts(request[q], node, Present)
    BY <1>1 DEF RequestsInv
  <2>2. DOMAIN held[q] \subseteq Present
    BY RequestFields
  <2>3. Current(node', held[q])
    BY <2>1, <2>2 DEF Current
  <2>4. WalkFacts(request[q], node', Present')
    BY <2>1, WalkGrows
  <2>5. QED
    BY <2>3, <2>4
<1>4. RequestsInv'
  BY <1>3 DEF RequestsInv
<1>5. QED
  BY <1>1, <1>2, <1>4 DEF TreeInv

LEMMA SeedTree ==
  ASSUME Base, Base', TreeInv, Seed
  PROVE  TreeInv'
<1>1. Noting /\ UNCHANGED <<request, held, history>>
  BY StrayTypes DEF Seed, Noting, Base, TypeOK
<1>2. CASE SeedBegin \/ SeedFind \/ SeedBreaks
  <2>1. node' = node
    BY <1>1, <1>2, SeedReadBase
  <2>2. Present' = Present
    BY <2>1, SameRows
  <2>3. NoCycle => NoCycle'
    BY <2>1, <2>2, CycleKept
  <2>4. QED
    BY <1>1, <2>1, <2>2, <2>3, RowsTree
<1>3. ASSUME NEW A \in SUBSET Nodes, SeedAdds(A) PROVE TreeInv'
  <2>1. /\ A \cap Present = {} /\ Present' = Present \cup A
        /\ \A m \in Nodes \ A : node'[m] = node[m]
        /\ \A S \in SUBSET A : S # {} => \E n \in S : node'[n].parent \notin S
    BY <1>3 DEF SeedAdds
  <2>2. NoCycle => NoCycle'
    BY <2>1, CycleGrows
  <2>3. \A n \in Present : node'[n].parent = node[n].parent /\ node'[n].path = node[n].path
    BY <2>1, PresentNodes
  <2>4. QED
    BY <1>1, <2>1, <2>2, <2>3, RowsTree
<1>4. CASE SeedTrees
  BY <1>3, <1>4, SeedTreesAdds
<1>5. CASE SeedBelow
  BY <1>3, <1>5, SeedBelowAdds
<1>6. QED
  BY <1>2, <1>4, <1>5 DEF Seed

LEMMA UpdateTree ==
  ASSUME Base, Base', TreeInv, NEW n \in Nodes, Activate(n) \/ Deactivate(n)
  PROVE  TreeInv'
<1>1. SameShape
  BY UpdateBase
<1>2. /\ Present' = Present
      /\ \A m \in Present : node'[m].parent = node[m].parent /\ node'[m].path = node[m].path
  BY <1>1, ShapeKept
<1>3. NoCycle => NoCycle'
  BY <1>2, CycleKept
<1>4. UNCHANGED <<request, held, history>>
  BY DEF Activate, Deactivate, Update
<1>5. QED
  BY <1>2, <1>3, <1>4, RowsTree

LEMMA StutterTree ==
  ASSUME Base, Base', TreeInv, UNCHANGED vars
  PROVE  TreeInv'
<1>1. node' = node /\ UNCHANGED <<request, held, history>>
  BY DEF vars
<1>2. Present' = Present
  BY <1>1, SameRows
<1>3. NoCycle => NoCycle'
  BY <1>1, <1>2, CycleKept
<1>4. QED
  BY <1>1, <1>2, <1>3, RowsTree

LEMMA InitTree == Init => TreeInv
<1> SUFFICES ASSUME Init PROVE TreeInv
  OBVIOUS
<1>1. PICK parent \in Seeds : node = Seeded(parent, Slug)
  BY DEF Init
<1>2. IsForest(parent) /\ Present = DOMAIN parent /\ \A n \in Present : node[n].parent = parent[n]
  BY <1>1, InitRows
<1>3. NoCycle
  <2> SUFFICES ASSUME NEW S \in SUBSET Present, S # {}
               PROVE  \E n \in S : node[n].parent \notin S
    BY DEF NoCycle
  <2>1. PICK n \in S : parent[n] \notin S
    BY <1>2 DEF IsForest
  <2>2. QED
    BY <1>2, <2>1
<1>4. \A q \in Requests : request[q].phase = "new"
  BY RequestTypes DEF Init
<1>5. Base
  BY InitBase
<1>6. ASSUME NEW q \in Requests
      PROVE  Current(node, held[q]) /\ WalkFacts(request[q], node, Present)
  <2>1. request[q].phase = "new" /\ HeldFacts(request[q], held[q])
    BY <1>4, <1>5, RequestFields
  <2>2. request[q].phase \notin Moving
    BY <2>1 DEF Moving
  <2>3. QED
    BY <2>1, <2>2, IdleFacts
<1>7. Alone
  BY <1>4 DEF Alone, Running
<1>8. QED
  BY <1>3, <1>6, <1>7 DEF TreeInv, RequestsInv

LEMMA NextTree == Base /\ Base' /\ TreeInv /\ [Next]_vars => TreeInv'
<1> SUFFICES ASSUME Base, Base', TreeInv, [Next]_vars PROVE TreeInv'
  OBVIOUS
<1>1. ASSUME NEW q \in Requests, NEW n \in Nodes, Starts(q, n) PROVE TreeInv'
  BY <1>1, StartsTree
<1>2. ASSUME NEW q \in Requests, Advance(q) \/ Break(q) PROVE TreeInv'
  BY <1>2, AdvanceTree, BreakTree
<1>3. ASSUME NEW n \in Nodes, Activate(n) \/ Deactivate(n) PROVE TreeInv'
  BY <1>3, UpdateTree
<1>4. CASE Seed
  BY <1>4, SeedTree
<1>5. CASE UNCHANGED vars
  BY <1>5, StutterTree
<1>6. QED
  BY <1>1, <1>2, <1>3, <1>4, <1>5, NextSteps

LEMMA AlwaysTree == Spec => []TreeInv
<1>1. Init => TreeInv
  BY InitTree
<1>2. Base /\ Base' /\ TreeInv /\ [Next]_vars => TreeInv'
  BY NextTree
<1>3. QED
  BY <1>1, <1>2, AlwaysBase, PTL DEF Spec

(* As long as requests neither overlapped nor moved a node under itself,   *)
(* the parents of the nodes lead to roots: the walk that isDescendant      *)
(* makes finds every circle that a move would close, and create, remove    *)
(* and the seeder, at whatever time it runs, close none.                   *)
THEOREM MovesCloseNoCircle == Spec => []Acyclic
<1>1. TreeInv => Acyclic
  BY DEF TreeInv, Acyclic, Calm
<1>2. QED
  BY <1>1, AlwaysTree, PTL

-----------------------------------------------------------------------------
(* The paths.  Nodes of types that are not in mixed are under nodes of     *)
(* their own type and have slugs of their own.  The path of such a node    *)
(* follows that of its parent, but while a move is between its two         *)
(* transactions, what is below its node follows the path that the node     *)
(* had; and the nodes that the rewrite is to touch are those whose paths   *)
(* start with that.  A node that was left behind has a path that ends in   *)
(* its own slug, and no more is known of it.                               *)

Straight(n) == n \in Present /\ TypeOf[n] \notin mixed
Moved(q) == request[q].phase \in {"find", "rewrite"}
IsMoved(n) == \E q \in Requests : Moved(q) /\ request[q].node = n

PathOf(n) ==
  LET p == node[n].parent IN
  /\ p = None => node[n].path = Append(<<TypeOf[n]>>, Slug[n])
  /\ p # None /\ ~IsMoved(p) => node[n].path = Append(node[p].path, Slug[n])
  /\ \A q \in Requests :
       Moved(q) /\ request[q].node = p => node[n].path = Append(request[q].old, Slug[n])

Ends(n) == \E path \in Seq(Names) : node[n].path = Append(path, Slug[n])

MovedFacts(q) ==
  LET n == request[q].node
      old == request[q].old
  IN
  /\ Len(old) >= 2 /\ old[Len(old)] = Slug[n]
  /\ ~StartsWith(node[n].path, old)
  /\ request[q].phase = "rewrite" =>
       \A m \in Nodes : Straight(m) /\ TypeOf[m] = TypeOf[n] =>
         (m \in request[q].below <=> StartsWith(node[m].path, old))

PathFacts ==
  /\ behind \subseteq Present
  /\ \A n \in Nodes : Straight(n) => IF n \in behind THEN Ends(n) ELSE PathOf(n)
  /\ \A q \in Requests :
       /\ Moved(q) /\ Straight(request[q].node) => MovedFacts(q)
       /\ request[q].phase = "write" => request[q].old = node[request[q].node].path
       /\ request[q].phase = "rewrite" =>
            \A m \in request[q].below : TypeOf[m] = TypeOf[request[q].node]

PathInv == Calm => PathFacts

-----------------------------------------------------------------------------

LEMMA StraightParent ==
  ASSUME Base, NEW n, Straight(n), node[n].parent # None
  PROVE  LET p == node[n].parent IN
         Straight(p) /\ TypeOf[p] = TypeOf[n] /\ p \in Nodes /\ n \in Nodes
<1>1. n \in Present /\ n \in Nodes /\ node[n].parent \in Present /\ node[n].parent \in Nodes
  BY PresentNodes DEF Straight, Base, RowsInv, Rooted
<1>2. TypeOf[node[n].parent] # TypeOf[n] => TypeOf[n] \in Strays
  BY <1>1 DEF Strays
<1>3. Strays \subseteq mixed
  BY DEF Base, RowsInv
<1>4. QED
  BY <1>1, <1>2, <1>3 DEF Straight

(* Straight nodes of a type have slugs of their own.                       *)
LEMMA DistinctStraight ==
  ASSUME Base, NEW m \in Nodes, NEW n \in Nodes, Straight(m), Straight(n),
         m # n, TypeOf[m] = TypeOf[n]
  PROVE  Slug[m] # Slug[n]
<1>1. Slug[m] = Slug[n] => m \in SameSlug[n] \cap Present
  BY DEF SameSlug, Straight
<1>2. Slug[m] = Slug[n] => TypeOf[n] \in Strays
  BY <1>1 DEF Strays, Straight
<1>3. QED
  BY <1>2 DEF Straight, Base, RowsInv

LEMMA PathTypes ==
  ASSUME Base
  PROVE  /\ \A n \in Nodes : node[n].path \in Seq(Names) /\ Slug[n] \in Names /\ TypeOf[n] \in Names
         /\ \A q \in Requests : request[q].old \in Seq(Names)
<1>1. \A n \in Nodes : node[n] \in Row
  BY DEF Base, TypeOK
<1>2. QED
  BY <1>1, RowType, RequestFields, NamesType

(* The last slug of a path is the node's own.                              *)
LEMMA LastOfAppend ==
  ASSUME NEW T, NEW path \in Seq(T), NEW slug \in T
  PROVE  Append(path, slug)[Len(Append(path, slug))] = slug
BY ExtendPath

LEMMA LastSlug ==
  ASSUME Base, PathFacts, NEW n \in Nodes, Straight(n)
  PROVE  node[n].path[Len(node[n].path)] = Slug[n]
<1>1. IF n \in behind THEN Ends(n) ELSE PathOf(n)
  BY DEF PathFacts
<1>2. Slug[n] \in Names /\ TypeOf[n] \in Names
  BY PathTypes
<1>3. PICK path \in Seq(Names) : node[n].path = Append(path, Slug[n])
  <2>0. CASE n \in behind
    BY <1>1, <2>0 DEF Ends
  <2>1. CASE n \notin behind /\ node[n].parent = None
    <3>1. <<TypeOf[n]>> \in Seq(Names)
      BY <1>2
    <3>2. QED
      BY <1>1, <2>1, <3>1 DEF PathOf
  <2>2. CASE n \notin behind /\ node[n].parent # None /\ ~IsMoved(node[n].parent)
    <3>1. node[node[n].parent].path \in Seq(Names)
      BY <2>2, StraightParent, PathTypes
    <3>2. QED
      BY <1>1, <2>2, <3>1 DEF PathOf
  <2>3. CASE n \notin behind /\ IsMoved(node[n].parent)
    <3>1. PICK q \in Requests : Moved(q) /\ request[q].node = node[n].parent
      BY <2>3 DEF IsMoved
    <3>2. request[q].old \in Seq(Names)
      BY PathTypes
    <3>3. PathOf(n)
      BY <1>1, <2>3
    <3>4. node[n].path = Append(request[q].old, Slug[n])
      BY <3>1, <3>3 DEF PathOf
    <3>5. QED
      BY <3>2, <3>4
  <2>4. QED
    BY <2>0, <2>1, <2>2, <2>3
<1>4. QED
  BY <1>2, <1>3, LastOfAppend

(* None of a set of rows, under one another from roots down, has a path    *)
(* that starts with old, if none has old.                                  *)
LEMMA NoneStarts ==
  ASSUME NEW rows, NEW S \in SUBSET Nodes, NEW old \in Seq(Names), Len(old) >= 2,
         \A X \in SUBSET S : X # {} => \E m \in X : rows[m].parent \notin X,
         \A m \in S : /\ rows[m].path \in Seq(Names) /\ rows[m].path # old
                      /\ \/ /\ rows[m].parent = None
                            /\ rows[m].path = Append(<<TypeOf[m]>>, Slug[m])
                         \/ /\ rows[m].parent \in S
                            /\ rows[m].path = Append(rows[rows[m].parent].path, Slug[m])
  PROVE  \A m \in S : ~StartsWith(rows[m].path, old)
<1> DEFINE X == {m \in S : StartsWith(rows[m].path, old)}
<1>1. SUFFICES ASSUME X # {} PROVE FALSE
  OBVIOUS
<1>2. PICK m \in X : rows[m].parent \notin X
  BY <1>1
<1>3. m \in S /\ m \in Nodes /\ StartsWith(rows[m].path, old)
  BY <1>2
<1>4. Slug[m] \in Names /\ TypeOf[m] \in Names
  BY <1>3, NamesType
<1>5. CASE rows[m].parent = None /\ rows[m].path = Append(<<TypeOf[m]>>, Slug[m])
  <2>1. <<TypeOf[m]>> \in Seq(Names) /\ Len(<<TypeOf[m]>>) = 1
    BY <1>4
  <2>2. Len(rows[m].path) = 2
    BY <1>4, <1>5, <2>1, ExtendPath
  <2>3. Len(old) \in Nat
    BY LenProperties
  <2>4. QED
    BY <1>3, <2>2, <2>3 DEF StartsWith
<1>6. CASE rows[m].parent \in S /\ rows[m].path = Append(rows[rows[m].parent].path, Slug[m])
  <2> DEFINE p == rows[m].parent
  <2>1. p \in S /\ rows[p].path \in Seq(Names) /\ rows[p].path # old /\ ~StartsWith(rows[p].path, old)
    BY <1>2, <1>6
  <2>2. StartsWith(Append(rows[p].path, Slug[m]), old)
    BY <1>3, <1>6
  <2> HIDE DEF p
  <2>3. QED
    BY <1>4, <2>1, <2>2, StartsBelow
<1>7. QED
  BY <1>3, <1>5, <1>6

(* Steps that leave the rows that are there, and the moves in progress.    *)
LEMMA PathsGrow ==
  ASSUME Base, Base', PathFacts, NEW A \in SUBSET Nodes, A \cap Present = {},
         Present' = Present \cup A, mixed \subseteq mixed', behind' = behind,
         \A m \in Present : node'[m].parent = node[m].parent /\ node'[m].path = node[m].path,
         \A q \in Requests :
           /\ Moved(q)' <=> Moved(q)
           /\ Moved(q) => request'[q].node = request[q].node /\ request'[q].old = request[q].old
           /\ request'[q].phase = "rewrite" =>
                \/ request[q].phase = "rewrite" /\ request'[q].below = request[q].below
                \/ /\ A = {}
                   /\ request'[q].below = {m \in Present :
                        /\ TypeOf[m] = TypeOf[request[q].node]
                        /\ StartsWith(node[m].path, request[q].old)}
           /\ request'[q].phase = "write" =>
                /\ request'[q].node \in Present
                /\ request'[q].old = node[request'[q].node].path,
         \A n \in A : Straight(n)' => PathOf(n)',
         \A n \in A : \A q \in Requests :
           Straight(n)' /\ Moved(q) /\ TypeOf[n] = TypeOf[request[q].node] =>
             ~StartsWith(node'[n].path, request[q].old)
  PROVE  PathFacts'
<1>1. \A n \in Present : Straight(n)' => Straight(n)
  BY DEF Straight
<1>2. \A n : IsMoved(n)' <=> IsMoved(n)
  BY DEF IsMoved
<1>3. ASSUME NEW n \in Present, Straight(n)', n \notin behind PROVE PathOf(n)'
  <2> PICK p : p = node[n].parent
    OBVIOUS
  <2>1. PathOf(n) /\ p \in Present \cup {None} /\ node'[n].parent = p /\ node'[n].path = node[n].path
    BY <1>1, <1>3, PresentNodes DEF PathFacts, Base, RowsInv, Rooted
  <2>2. p # None => node'[p].path = node[p].path
    BY <2>1
  <2>3. p = None => node'[n].path = Append(<<TypeOf[n]>>, Slug[n])
    BY <2>1 DEF PathOf
  <2>4. ASSUME p # None, ~IsMoved(p)' PROVE node'[n].path = Append(node'[p].path, Slug[n])
    <3>1. ~IsMoved(p)
      BY <1>2, <2>4
    <3>2. QED
      BY <2>1, <2>2, <2>4, <3>1 DEF PathOf
  <2>5. ASSUME NEW q \in Requests, Moved(q)', request'[q].node = p
        PROVE  node'[n].path = Append(request'[q].old, Slug[n])
    <3>1. Moved(q) /\ request[q].node = p /\ request'[q].old = request[q].old
      BY <2>5
    <3>2. node[n].path = Append(request[q].old, Slug[n])
      BY <2>1, <3>1 DEF PathOf
    <3>3. QED
      BY <2>1, <3>1, <3>2
  <2>6. QED
    BY <2>1, <2>3, <2>4, <2>5 DEF PathOf
<1>4. ASSUME NEW q \in Requests, Moved(q)', Straight(request[q].node)'
      PROVE  MovedFacts(q)'
  <2> DEFINE n == request[q].node
             old == request[q].old
  <2>1. Moved(q) /\ request'[q].node = n /\ request'[q].old = old
    BY <1>4
  <2>3. n \in Present
    BY <2>1, RequestFields DEF HeldFacts, Moving, Moved
  <2>4. MovedFacts(q) /\ node'[n].path = node[n].path
    BY <1>1, <1>4, <2>1, <2>3 DEF PathFacts
  <2>5. ASSUME request'[q].phase = "rewrite", NEW m \in Nodes, Straight(m)', TypeOf[m] = TypeOf[n]
        PROVE  m \in request'[q].below <=> StartsWith(node'[m].path, old)
    <3>1. CASE m \in A
      <4>1. m \notin Present /\ A # {} /\ ~StartsWith(node'[m].path, old)
        BY <2>1, <2>5, <3>1
      <4>2. request[q].phase = "rewrite" /\ request'[q].below = request[q].below
        BY <2>5, <4>1
      <4>3. request[q].below \subseteq Present
        BY <4>2, RequestFields DEF HeldFacts, Kept
      <4>4. QED
        BY <4>1, <4>2, <4>3
    <3>2. CASE m \notin A
      <4>1. m \in Present /\ Straight(m) /\ node'[m].path = node[m].path
        BY <1>1, <2>5, <3>2 DEF Straight
      <4>2. CASE request[q].phase = "rewrite" /\ request'[q].below = request[q].below
        BY <2>4, <2>5, <4>1, <4>2 DEF MovedFacts
      <4>3. CASE request'[q].below = {k \in Present : TypeOf[k] = TypeOf[n] /\ StartsWith(node[k].path, old)}
        BY <2>5, <4>1, <4>3
      <4>4. QED
        BY <2>5, <4>2, <4>3
    <3>3. QED
      BY <3>1, <3>2
  <2>6. Len(old) >= 2 /\ old[Len(old)] = Slug[n] /\ ~StartsWith(node'[n].path, old)
    BY <2>4 DEF MovedFacts
  <2> HIDE DEF n, old
  <2>7. QED
    BY <2>1, <2>5, <2>6 DEF MovedFacts
<1>5. ASSUME NEW q \in Requests, request'[q].phase = "write"
      PROVE  request'[q].old = node'[request'[q].node].path
  <2> PICK n : n = request'[q].node
    OBVIOUS
  <2>1. n \in Present /\ request'[q].old = node[n].path
    BY <1>5
  <2>2. node'[n].path = node[n].path
    BY <2>1
  <2>3. QED
    BY <2>1, <2>2
<1>6. ASSUME NEW q \in Requests, request'[q].phase = "rewrite", NEW m \in request'[q].below
      PROVE  TypeOf[m] = TypeOf[request'[q].node]
  <2>1. Moved(q) /\ request'[q].node = request[q].node
    BY <1>6 DEF Moved
  <2>2. CASE request[q].phase = "rewrite" /\ request'[q].below = request[q].below
    BY <1>6, <2>1, <2>2 DEF PathFacts
  <2>3. CASE request'[q].below = {k \in Present : /\ TypeOf[k] = TypeOf[request[q].node]
                                                  /\ StartsWith(node[k].path, request[q].old)}
    BY <1>6, <2>1, <2>3
  <2>4. QED
    BY <1>6, <2>2, <2>3
<1>7. ASSUME NEW n \in Nodes, Straight(n)'
      PROVE  IF n \in behind' THEN Ends(n)' ELSE PathOf(n)'
  <2>1. behind' = behind /\ behind \subseteq Present
    BY DEF PathFacts
  <2>2. CASE n \in behind
    <3>1. n \in Present /\ Straight(n) /\ Ends(n) /\ node'[n].path = node[n].path
      BY <1>1, <1>7, <2>1, <2>2 DEF PathFacts
    <3>2. QED
      BY <2>1, <2>2, <3>1 DEF Ends
  <2>3. CASE n \notin behind
    BY <1>3, <1>7, <2>1, <2>3 DEF Straight
  <2>4. QED
    BY <2>2, <2>3
<1>10. behind' \subseteq Present'
  BY DEF PathFacts
<1>11. (\A n \in Nodes : Straight(n) => IF n \in behind THEN Ends(n) ELSE PathOf(n))'
  BY <1>7
<1>8. (\A q \in Requests : Moved(q) /\ Straight(request[q].node) => MovedFacts(q))'
  BY <1>4
<1>9. QED
  BY <1>5, <1>6, <1>8, <1>10, <1>11 DEF PathFacts

(* The request of no step, and of every step but the one.                  *)
LEMMA StillPaths ==
  ASSUME Base, PathFacts, NEW q \in Requests, request'[q] = request[q]
  PROVE  /\ Moved(q)' <=> Moved(q)
         /\ Moved(q) => request'[q].node = request[q].node /\ request'[q].old = request[q].old
         /\ request'[q].phase = "rewrite" =>
              request[q].phase = "rewrite" /\ request'[q].below = request[q].below
         /\ request'[q].phase = "write" =>
              /\ request'[q].node \in Present
              /\ request'[q].old = node[request'[q].node].path
<1>1. request[q].phase = "write" => request[q].node \in Present
  BY RequestFields DEF HeldFacts, Moving
<1>2. request[q].phase = "write" => request[q].old = node[request[q].node].path
  BY DEF PathFacts
<1>3. QED
  BY <1>1, <1>2 DEF Moved

(* A step of one request that leaves parents and paths.                    *)
LEMMA QuietPaths ==
  ASSUME Base, Base', PathFacts, SameShape, mixed \subseteq mixed', behind' = behind,
         NEW q \in Requests,
         \A p \in Requests \ {q} : request'[p] = request[p],
         Moved(q)' <=> Moved(q),
         Moved(q) => request'[q].node = request[q].node /\ request'[q].old = request[q].old,
         request'[q].phase = "rewrite" =>
           request'[q].below = {m \in Present : /\ TypeOf[m] = TypeOf[request[q].node]
                                                /\ StartsWith(node[m].path, request[q].old)},
         request'[q].phase = "write" =>
           request'[q].node \in Present /\ request'[q].old = node[request'[q].node].path
  PROVE  PathFacts'
<1>1. /\ Present' = Present \cup {}
      /\ \A m \in Present : node'[m].parent = node[m].parent /\ node'[m].path = node[m].path
  BY ShapeKept
<1>2. \A p \in Requests \ {q} :
        /\ Moved(p)' <=> Moved(p)
        /\ Moved(p) => request'[p].node = request[p].node /\ request'[p].old = request[p].old
        /\ request'[p].phase = "rewrite" =>
             request[p].phase = "rewrite" /\ request'[p].below = request[p].below
        /\ request'[p].phase = "write" =>
             /\ request'[p].node \in Present
             /\ request'[p].old = node[request'[p].node].path
  BY StillPaths
<1>3. PICK A \in SUBSET Nodes : A = {}
  OBVIOUS
<1>4. ASSUME NEW p \in Requests
      PROVE  /\ Moved(p)' <=> Moved(p)
             /\ Moved(p) => request'[p].node = request[p].node /\ request'[p].old = request[p].old
             /\ request'[p].phase = "rewrite" =>
                  \/ request[p].phase = "rewrite" /\ request'[p].below = request[p].below
                  \/ /\ A = {}
                     /\ request'[p].below = {m \in Present :
                          /\ TypeOf[m] = TypeOf[request[p].node]
                          /\ StartsWith(node[m].path, request[p].old)}
             /\ request'[p].phase = "write" =>
                  /\ request'[p].node \in Present
                  /\ request'[p].old = node[request'[p].node].path
  <2>1. CASE p = q
    BY <1>3, <2>1
  <2>2. CASE p # q
    BY <1>2, <2>2
  <2>3. QED
    BY <2>1, <2>2
<1>5. A \cap Present = {} /\ Present' = Present \cup A
  BY <1>1, <1>3
<1>6. \A n \in A : FALSE
  BY <1>3
<1>7. QED
  BY <1>1, <1>4, <1>5, <1>6, PathsGrow

(* One that is not of a move, or before the paths matter to it.            *)
LEMMA PassingPaths ==
  ASSUME Base, Base', PathFacts, SameShape, mixed \subseteq mixed', behind' = behind,
         NEW q \in Requests,
         \A p \in Requests \ {q} : request'[p] = request[p],
         request[q].phase \notin {"find", "rewrite"},
         request'[q].phase \notin {"write", "find", "rewrite"}
  PROVE  PathFacts'
<1>1. ~Moved(q) /\ ~Moved(q)'
  BY DEF Moved
<1>2. QED
  BY <1>1, QuietPaths

(* One of no request.                                                      *)
LEMMA ShapeOnlyPaths ==
  ASSUME Base, Base', PathFacts, SameShape, mixed \subseteq mixed', behind' = behind,
         request' = request
  PROVE  PathFacts'
<1>1. /\ Present' = Present \cup {}
      /\ \A m \in Present : node'[m].parent = node[m].parent /\ node'[m].path = node[m].path
  BY ShapeKept
<1>2. PICK A \in SUBSET Nodes : A = {}
  OBVIOUS
<1>3. \A p \in Requests :
        /\ Moved(p)' <=> Moved(p)
        /\ Moved(p) => request'[p].node = request[p].node /\ request'[p].old = request[p].old
        /\ request'[p].phase = "rewrite" =>
             request[p].phase = "rewrite" /\ request'[p].below = request[p].below
        /\ request'[p].phase = "write" =>
             /\ request'[p].node \in Present
             /\ request'[p].old = node[request'[p].node].path
  BY StillPaths
<1>4. A \cap Present = {} /\ Present' = Present \cup A /\ \A n \in A : FALSE
  BY <1>1, <1>2
<1>5. QED
  BY <1>1, <1>3, <1>4, PathsGrow

(* The history, in steps that are not the write of a move.                 *)
LEMMA NotedKept ==
  ASSUME NEW q \in Requests, Noted(q),
         \/ Insert(q) \/ InsertFails(q) \/ Delete(q)
         \/ FindTarget(q) \/ FindTargetFails(q)
         \/ WalkUp(q) \/ WalkRefuses(q) \/ WalkPasses(q)
         \/ FindBelow(q) \/ Rewrite(q)
  PROVE  behind' = behind
<1>1. request[q].phase # "write"
  BY DEF Insert, InsertFails, Delete, FindTarget, FindTargetFails, WalkUp, WalkRefuses,
         WalkPasses, FindBelow, Rewrite
<1>2. QED
  BY <1>1 DEF Noted

LEMMA StartsBegins ==
  ASSUME NEW q \in Requests, NEW n \in Nodes, Starts(q, n)
  PROVE  /\ node' = node /\ mixed' = mixed /\ behind' = behind
         /\ \E first : Begin(q, first) /\ first.phase \in {"insert", "delete", "target", "done"}
<1>1. node' = node /\ mixed' = mixed /\ behind' = behind
  BY DEF Starts, Remove, RemoveRefused, Create, Move
<1>2. CASE Remove(q, n)
  <2> DEFINE start == [Idle EXCEPT !.phase = "delete", !.node = n]
  <2>1. Begin(q, start)
    BY <1>2 DEF Remove
  <2>2. start.phase = "delete"
    BY RequestTypes DEF Request
  <2> HIDE DEF start
  <2>3. QED
    BY <1>1, <2>1, <2>2
<1>3. CASE RemoveRefused(q, n)
  BY <1>1, <1>3, RequestTypes DEF RemoveRefused
<1>4. ASSUME NEW parent \in Parent, Create(q, n, parent)
      PROVE  \E first : Begin(q, first) /\ first.phase = "insert"
  <2> DEFINE start == [Idle EXCEPT !.phase = "insert", !.node = n, !.target = parent]
  <2>1. Begin(q, start)
    BY <1>4 DEF Create
  <2>2. start.phase = "insert"
    BY RequestTypes DEF Request
  <2> HIDE DEF start
  <2>3. QED
    BY <2>1, <2>2
<1>5. ASSUME NEW target \in Nodes, Move(q, n, target)
      PROVE  \E first : Begin(q, first) /\ first.phase = "target"
  <2> DEFINE start == [Idle EXCEPT !.phase = "target", !.node = n, !.target = target]
  <2>1. Begin(q, start)
    BY <1>5 DEF Move
  <2>2. start.phase = "target"
    BY RequestTypes DEF Request
  <2> HIDE DEF start
  <2>3. QED
    BY <2>1, <2>2
<1>6. QED
  BY <1>1, <1>2, <1>3, <1>4, <1>5 DEF Starts

LEMMA StartsPaths ==
  ASSUME Base, Base', PathInv, NEW q \in Requests, NEW n \in Nodes, Starts(q, n)
  PROVE  PathInv'
<1> SUFFICES ASSUME Calm' PROVE PathFacts'
  BY DEF PathInv
<1>1. PICK first : Begin(q, first) /\ first.phase \in {"insert", "delete", "target", "done"}
  BY StartsBegins
<1>2. node' = node /\ mixed \subseteq mixed' /\ behind' = behind
  BY StartsBegins
<1>3. /\ Calm /\ request' = [request EXCEPT ![q] = first] /\ request'[q] = first
      /\ request[q].phase = "new"
  BY <1>1, BeginCalm
<1>4. \A p \in Requests \ {q} : request'[p] = request[p]
  BY <1>3 DEF Base, TypeOK
<1>5. SameShape
  BY <1>2, SameShapeNode
<1>6. PathFacts
  BY <1>3 DEF PathInv
<1>7. QED
  BY <1>1, <1>2, <1>3, <1>4, <1>5, <1>6, PassingPaths

(* Steps of one request: it is the only one.                               *)
LEMMA OnlyOne ==
  ASSUME Base, TreeInv, Calm', UNCHANGED history, NEW q \in Requests, Running(q)
  PROVE  \A p \in Requests \ {q} :
           /\ ~Moved(p)
           /\ request[p].phase \notin {"write", "rewrite"}
<1>1. Calm
  BY DEF Calm, history
<1>2. \A p \in Requests \ {q} : ~Running(p)
  BY <1>1, OthersIdle
<1>3. QED
  BY <1>2 DEF Running, Moved

LEMMA InsertPaths ==
  ASSUME Base, Base', TreeInv, PathFacts, Calm', UNCHANGED history, NEW q \in Requests,
         Insert(q), mixed \subseteq mixed', behind' = behind
  PROVE  PathFacts'
<1> DEFINE n == request[q].node
           parent == request[q].target
<1>1. /\ n \in Nodes /\ n \notin Present
      /\ \A m \in Nodes \ {n} : node'[m] = node[m]
      /\ Present' = Present \cup {n} /\ node'[n].parent = parent
      /\ parent # None => parent \in DOMAIN held[q] /\ parent \in Present
      /\ node'[n].path = Append(IF parent = None THEN <<TypeOf[n]>>
                                  ELSE held[q][parent].path, Slug[n])
      /\ End(q)
  BY InsertFacts
<1>2. request[q].phase = "insert" /\ Running(q)
  BY DEF Insert, Running
<1> HIDE DEF n, parent
<1>3. /\ ~Running(q)' /\ request'[q].phase = "done"
      /\ \A p \in Requests \ {q} : request'[p] = request[p]
  BY <1>1, EndOthers
<1>4. \A p \in Requests : ~Moved(p) /\ ~Moved(p)'
  BY <1>2, <1>3, OnlyOne DEF Moved
<1>5. \A p \in Requests : request'[p].phase \notin {"write", "rewrite"}
  BY <1>2, <1>3, OnlyOne
<1>6. parent # None => /\ parent \in Nodes \ {n}
                       /\ held[q][parent].path = node[parent].path
  BY <1>1, TreeNow, PresentNodes
<1>7. node'[n].path = Append(IF parent = None THEN <<TypeOf[n]>>
                               ELSE node'[parent].path, Slug[n])
  BY <1>1, <1>6
<1>8. PICK k : k = n
  OBVIOUS
<1>9. PathOf(k)'
  BY <1>1, <1>4, <1>7, <1>8 DEF PathOf, IsMoved
<1>10. {k} \in SUBSET Nodes /\ {k} \cap Present = {} /\ Present' = Present \cup {k}
  BY <1>1, <1>8
<1>11. \A m \in Present : node'[m].parent = node[m].parent /\ node'[m].path = node[m].path
  BY <1>1, PresentNodes
<1>12. QED
  BY <1>4, <1>5, <1>9, <1>10, <1>11, PathsGrow

(* The write: nothing was moved before, and no node on the way up from the *)
(* target has the path that the node had, for the node is not among them.  *)
LEMMA WritePaths ==
  ASSUME Base, Base', TreeInv, PathFacts, Calm', UNCHANGED history,
         NEW q \in Requests, WriteNode(q), mixed \subseteq mixed', Noted(q)
  PROVE  PathFacts'
<1> PICK n, target, old : n = request[q].node /\ target = request[q].target /\ old = request[q].old
  OBVIOUS
<1>1. /\ n \in Nodes /\ n \in Present /\ target \in Present /\ target # n /\ target \in Nodes
      /\ node'[n].parent = target
      /\ node'[n].path = Append(node[target].path, Slug[n])
      /\ \A m \in Nodes \ {n} : node'[m] = node[m]
      /\ Present' = Present
      /\ TypeOf[n] = TypeOf[target]
  BY WriteNow, PresentNodes
<1>2. PICK W \in SUBSET Present : /\ target \in W /\ n \notin W
                                  /\ \A m \in W : node[m].parent \in W \cup {None}
  BY SMTT(40), WriteNow
<1>3. request[q].phase = "write" /\ request' = [request EXCEPT ![q].phase = "find"]
  BY WriteFacts
<1>4. request[q] \in Request /\ request \in [Requests -> Request]
  BY RequestFields DEF Base, TypeOK
<1>5. /\ request'[q].phase = "find" /\ request'[q].node = n /\ request'[q].old = old
      /\ \A p \in Requests \ {q} : request'[p] = request[p]
  BY <1>3, <1>4 DEF Request
<1>6. Running(q) /\ ~Moved(q)
  BY <1>3 DEF Running, Moved
<1>7. /\ \A p \in Requests : ~Moved(p)
      /\ \A p \in Requests \ {q} : ~Moved(p)' /\ request'[p].phase \notin {"write", "rewrite"}
  BY <1>5, <1>6, OnlyOne DEF Moved
<1>8. Moved(q)'
  BY <1>5 DEF Moved
<1>9. \A p \in Requests : Moved(p)' => p = q
  BY <1>7
<1>10. \A m : IsMoved(m)' <=> m = n
  BY <1>5, <1>8, <1>9 DEF IsMoved
<1>11. old = node[n].path
  BY SMTT(40), <1>3 DEF PathFacts
<1>12. \A m \in Nodes : Straight(m)' => Straight(m)
  BY <1>1 DEF Straight
<1>20. behind' = behind \ {n} /\ behind \subseteq Present
  BY <1>3 DEF Noted, PathFacts
<1>13. ASSUME NEW m \in Nodes, Straight(m)', m \notin behind' PROVE PathOf(m)'
  <2>1. Straight(m) /\ (m # n => PathOf(m))
    BY SMTT(40), <1>12, <1>13, <1>20 DEF PathFacts
  <2>2. CASE m = n
    <3>1. node'[m].parent = target /\ target # None /\ node'[target] = node[target]
      BY SMTT(40), <1>1, <2>2, PresentNodes
    <3>2. \A p \in Requests : Moved(p)' => request'[p].node # target
      BY <1>1, <1>5, <1>9
    <3>3. QED
      BY <1>1, <2>2, <3>1, <3>2 DEF PathOf
  <2>3. CASE m # n
    <3> PICK p : p = node[m].parent
      BY SMTT(40)
    <3>1. node'[m].parent = p /\ node'[m].path = node[m].path
      BY <1>1, <2>3
    <3>2. p = None => node'[m].path = Append(<<TypeOf[m]>>, Slug[m])
      BY <2>1, <2>3, <3>1 DEF PathOf
    <3>3. p # None => p \in Nodes /\ node'[m].path = Append(node[p].path, Slug[m])
      BY SMTT(40), <1>7, <2>1, <2>3, <3>1, StraightParent DEF PathOf, IsMoved
    <3>4. p # None /\ p # n => node'[m].path = Append(node'[p].path, Slug[m])
      BY <1>1, <3>3
    <3>5. n # None
      BY <1>1, PresentNodes
    <3>6. p = n => node'[m].path = Append(old, Slug[m])
      BY <1>11, <3>3, <3>5
    <3>7. ASSUME NEW r \in Requests, Moved(r)', request'[r].node = p
          PROVE  node'[m].path = Append(request'[r].old, Slug[m])
      BY <1>5, <1>9, <3>6, <3>7
    <3>8. ASSUME p # None, ~IsMoved(p)' PROVE node'[m].path = Append(node'[p].path, Slug[m])
      BY <1>10, <3>4, <3>8
    <3>9. QED
      BY <3>1, <3>2, <3>7, <3>8 DEF PathOf
  <2>4. QED
    BY <2>2, <2>3
<1>14. ASSUME Straight(n)' PROVE MovedFacts(q)'
  <2>1. Straight(n) /\ TypeOf[n] \notin mixed
    BY <1>1, <1>12, <1>14 DEF Straight
  <2>2. /\ old \in Seq(Names) /\ Len(old) >= 2 /\ old[Len(old)] = Slug[n]
        /\ Slug[n] \in Names /\ node[target].path \in Seq(Names)
    <3>1. node[n].path \in Seq(Names) /\ Slug[n] \in Names /\ node[target].path \in Seq(Names)
      BY SMTT(40), <1>1, PathTypes
    <3>2. Len(node[n].path) >= 2
      BY SMTT(40), <1>1 DEF Base, RowsInv, Rooted
    <3>3. node[n].path[Len(node[n].path)] = Slug[n]
      BY SMTT(40), <1>1, <2>1, LastSlug
    <3>4. QED
      BY SMTT(40), <1>11, <3>1, <3>2, <3>3
  <2>a. Straight(target) /\ target # n /\ node[target].path # old
    <3>1. Straight(target)
      BY SMTT(40), <1>1, <2>1 DEF Straight
    <3>2. Slug[target] # Slug[n]
      BY SMTT(40), <1>1, <2>1, <3>1, DistinctStraight
    <3>3. node[target].path[Len(node[target].path)] = Slug[target]
      BY SMTT(40), <1>1, <3>1, LastSlug
    <3>4. QED
      BY SMTT(40), <1>1, <2>2, <3>1, <3>2, <3>3
  <2>b. CASE \E m \in behind : TypeOf[m] = TypeOf[n]
    <3>1. held[q][target].path = node[target].path
      BY SMTT(40), <1>3, TreeNow, RequestFields DEF HeldFacts, Aimed
    <3>2. Misled(q) => TypeOf[n] \in mixed'
      BY DEF Noted
    <3>3. ~StartsWith(node[target].path, old)
      BY SMTT(40), <1>3, <1>14, <2>b, <3>1, <3>2 DEF Misled, Straight
    <3>4. ~StartsWith(node'[n].path, old)
      BY SMTT(40), <1>1, <2>2, <2>a, <3>3, StartsBelow
    <3>5. QED
      BY SMTT(40), <1>5, <2>2, <3>4 DEF MovedFacts
  <2>c. CASE \A m \in behind : TypeOf[m] # TypeOf[n]
   <3> DEFINE S == {m \in W : TypeOf[m] = TypeOf[n]}
   <3>3. S \in SUBSET Nodes /\ S \in SUBSET Present /\ target \in S
     BY <1>1, <1>2, PresentNodes
   <3>4. \A X \in SUBSET S : X # {} => \E m \in X : node[m].parent \notin X
     <4>1. NoCycle
       BY TreeNow
     <4>2. QED
       BY <3>3, <4>1 DEF NoCycle
   <3>5. ASSUME NEW m \in S
         PROVE  /\ node[m].path \in Seq(Names) /\ node[m].path # old
                /\ \/ /\ node[m].parent = None
                      /\ node[m].path = Append(<<TypeOf[m]>>, Slug[m])
                   \/ /\ node[m].parent \in S
                      /\ node[m].path = Append(node[node[m].parent].path, Slug[m])
     <4>1. m \in W /\ m \in Nodes /\ m # n /\ TypeOf[m] = TypeOf[n]
       BY <1>2, <3>3
     <4>2. Straight(m)
       BY <2>1, <3>3, <4>1 DEF Straight
     <4>3. node[m].path \in Seq(Names) /\ node[m].path[Len(node[m].path)] = Slug[m]
       BY SMTT(40), <4>1, <4>2, PathTypes, LastSlug
     <4>4. Slug[m] # Slug[n]
       BY <1>1, <2>1, <4>1, <4>2, DistinctStraight
     <4>5. PathOf(m)
       BY <2>c, <4>1, <4>2 DEF PathFacts
     <4>6. node[m].parent # None => TypeOf[node[m].parent] = TypeOf[m] /\ node[m].parent \in W
       BY <1>2, <4>1, <4>2, StraightParent
     <4>7. \A k : ~IsMoved(k)
       BY <1>7 DEF IsMoved
     <4>8. QED
       BY <2>2, <4>1, <4>3, <4>4, <4>5, <4>6, <4>7 DEF PathOf
   <3>6. target \in S /\ node[target].path # old
     BY <3>3, <3>5
   <3> HIDE DEF S
   <3>7. ~StartsWith(node[target].path, old)
     BY <2>2, <3>3, <3>4, <3>5, NoneStarts
   <3>8. ~StartsWith(node'[n].path, old)
     BY <1>1, <2>2, <3>6, <3>7, StartsBelow
   <3>9. QED
     BY SMTT(40), <1>5, <2>2, <3>8 DEF MovedFacts
  <2>d. QED
    BY SMTT(40), <2>b, <2>c
<1>21. ASSUME NEW m \in Nodes, Straight(m)', m \in behind' PROVE Ends(m)'
  <2>1. Straight(m) /\ m \in behind /\ m # n
    BY SMTT(40), <1>12, <1>20, <1>21
  <2>2. Ends(m) /\ node'[m] = node[m]
    BY <1>1, <2>1 DEF PathFacts
  <2>3. QED
    BY <2>2 DEF Ends
<1>15. (\A m \in Nodes : Straight(m) => IF m \in behind THEN Ends(m) ELSE PathOf(m))'
  BY SMTT(40), <1>13, <1>21
<1>22. behind' \subseteq Present'
  BY <1>1, <1>20
<1>16. ASSUME NEW p \in Requests, Moved(p)', Straight(request[p].node)' PROVE MovedFacts(p)'
  <2>1. p = q /\ request'[p].node = n
    BY <1>5, <1>9, <1>16
  <2>2. Straight(n)'
    BY <1>16, <2>1 DEF Straight
  <2>3. QED
    BY <1>14, <2>1, <2>2
<1>17. (\A p \in Requests : Moved(p) /\ Straight(request[p].node) => MovedFacts(p))'
  BY <1>16
<1>18. \A p \in Requests : request'[p].phase \notin {"write", "rewrite"}
  BY <1>5, <1>7
<1>19. QED
  BY <1>15, <1>17, <1>18, <1>22 DEF PathFacts

(* AfterChild, of the paths of nodes.                                      *)
LEMMA ChildAfter ==
  \A old, new \in Seq(Names), slug \in Names :
    After(Append(old, slug), old, new) = Append(new, slug)
BY AfterChild

(* The rewrite: what is below the node by its path is what is below it by  *)
(* its parents, and each keeps its path below that of its parent.          *)
LEMMA RewritePaths ==
  ASSUME Base, Base', TreeInv, PathFacts, Calm', UNCHANGED history,
         NEW q \in Requests, Rewrite(q), mixed \subseteq mixed', behind' = behind
  PROVE  PathFacts'
<1> PICK n, new, old, below :
      /\ n = request[q].node /\ new = held[q][n].path
      /\ old = request[q].old /\ below = request[q].below
  BY SMTT(40)
<1>1. /\ request[q].phase = "rewrite" /\ End(q)
      /\ n \in DOMAIN held[q] /\ below \subseteq DOMAIN held[q]
      /\ new \in Seq(Names) /\ old \in Seq(Names)
      /\ Present' = Present
      /\ \A m \in Nodes : node'[m].parent = node[m].parent
      /\ \A m \in Nodes \ below : node'[m] = node[m]
  BY RewriteFacts
<1>2. \A m \in DOMAIN held[q] : held[q][m].path = node[m].path /\ m \in Present /\ m \in Nodes
  BY TreeNow, RequestFields
<1>3. \A m \in below : node'[m].path = After(node[m].path, old, new)
  <2>1. \A m \in below : LET p == new \o SubSeq(held[q][m].path, Len(old) + 1, Len(held[q][m].path))
                         IN  node'[m].path = IF p # held[q][m].path THEN p ELSE node[m].path
    BY RewriteFacts
  <2>2. \A m \in below : held[q][m].path = node[m].path
    BY <1>1, <1>2
  <2>3. QED
    BY ZenonT(60), <2>1, <2>2 DEF After
<1>4. Running(q) /\ Moved(q)
  BY <1>1 DEF Running, Moved
<1>5. /\ request'[q].phase = "done"
      /\ \A p \in Requests \ {q} : request'[p] = request[p]
  BY <1>1, EndOthers
<1>6. /\ \A p \in Requests \ {q} : ~Moved(p)
      /\ \A p \in Requests : ~Moved(p)' /\ request'[p].phase \notin {"write", "rewrite"}
  BY <1>4, <1>5, OnlyOne DEF Moved
<1>7. \A m : IsMoved(m) <=> m = n
  BY <1>4, <1>6 DEF IsMoved
<1>8. /\ \A m \in below : TypeOf[m] = TypeOf[n]
      /\ Straight(n) => MovedFacts(q)
  BY <1>1, <1>4 DEF PathFacts
<1>9. n \in Present /\ n \in Nodes /\ new = node[n].path
  BY <1>1, <1>2
<1>10. \A m \in Nodes : Straight(m)' => Straight(m)
  BY <1>1 DEF Straight
<1>11. ASSUME NEW m \in Nodes, Straight(m)', m \notin behind, NEW p, p = node[m].parent
       PROVE  node'[m].path = IF p = None THEN Append(<<TypeOf[m]>>, Slug[m])
                                ELSE Append(node'[p].path, Slug[m])
  <2>1. Straight(m) /\ PathOf(m)
    BY <1>10, <1>11 DEF PathFacts
  <2>2. p # None => Straight(p) /\ TypeOf[p] = TypeOf[m] /\ p \in Nodes
    BY <1>11, <2>1, StraightParent
  <2>3. /\ node[m].path \in Seq(Names) /\ Slug[m] \in Names /\ TypeOf[m] \in Names
        /\ p # None => node[p].path \in Seq(Names)
    BY <2>2, PathTypes
  <2>4. /\ p = None => node[m].path = Append(<<TypeOf[m]>>, Slug[m])
        /\ p = n => node[m].path = Append(old, Slug[m])
        /\ p # None /\ p # n => node[m].path = Append(node[p].path, Slug[m])
    BY <1>4, <1>7, <1>11, <2>1 DEF PathOf
  <2>5. CASE TypeOf[m] # TypeOf[n]
    <3>1. m \notin below /\ (p # None => p \notin below /\ p # n)
      BY <1>8, <2>2, <2>5
    <3>2. node'[m] = node[m] /\ (p # None => node'[p] = node[p])
      BY <1>1, <2>2, <3>1
    <3>3. QED
      BY <2>4, <3>1, <3>2
  <2>6. CASE TypeOf[m] = TypeOf[n]
    <3>1. Straight(n)
      BY <1>9, <2>1, <2>6 DEF Straight
    <3>2. /\ Len(old) >= 2 /\ old[Len(old)] = Slug[n]
          /\ ~StartsWith(node[n].path, old)
          /\ \A k \in Nodes : Straight(k) /\ TypeOf[k] = TypeOf[n] =>
               (k \in below <=> StartsWith(node[k].path, old))
      BY <1>1, <1>8, <3>1 DEF MovedFacts
    <3>3. m \in below <=> StartsWith(node[m].path, old)
      BY <2>1, <2>6, <3>2
    <3>4. CASE p = None
      <4>1. <<TypeOf[m]>> \in Seq(Names) /\ Len(<<TypeOf[m]>>) = 1
        BY <2>3
      <4>2. Len(node[m].path) = 2
        <5>1. Slug[m] \in Names /\ node[m].path = Append(<<TypeOf[m]>>, Slug[m])
          BY <2>3, <2>4, <3>4
        <5>2. Len(Append(<<TypeOf[m]>>, Slug[m])) = Len(<<TypeOf[m]>>) + 1
          BY <4>1, <5>1, ExtendPath
        <5>3. QED
          BY <4>1, <5>1, <5>2
      <4>3. Len(old) \in Nat
        BY <1>1, LenProperties
      <4>4. ~StartsWith(node[m].path, old)
        BY SMTT(40), <3>2, <4>2, <4>3 DEF StartsWith
      <4>5. QED
        BY <1>1, <2>4, <3>3, <3>4, <4>4
    <3>5. CASE p = n /\ p # None
      <4>1. node[m].path = Append(old, Slug[m])
        BY <2>4, <3>5
      <4>2. m \in below
        BY <1>1, <2>3, <3>3, <4>1, StartsBelow
      <4>3. n \notin below /\ node'[n].path = new
        BY <1>1, <1>9, <3>1, <3>2
      <4>4. new \in Seq(Names) /\ old \in Seq(Names) /\ Slug[m] \in Names
        BY SMTT(40), <1>1, <2>3
      <4>5. After(node[m].path, old, new) = Append(new, Slug[m])
        <5>1. After(Append(old, Slug[m]), old, new) = Append(new, Slug[m])
          BY <4>4, ChildAfter
        <5>2. QED
          BY <4>1, <5>1
      <4>6. QED
        BY <1>3, <3>5, <4>2, <4>3, <4>5
    <3>6. CASE p # n /\ p # None
      <4>1. p \in Nodes /\ Straight(p) /\ TypeOf[p] = TypeOf[n] /\ node[p].path \in Seq(Names)
        BY <2>2, <2>3, <2>6, <3>6
      <4>2. node[m].path = Append(node[p].path, Slug[m])
        BY <2>4, <3>6
      <4>3. Slug[p] # Slug[n]
        BY <1>9, <3>1, <3>6, <4>1, DistinctStraight
      <4>4. node[p].path # old
        BY <3>2, <4>1, <4>3, LastSlug
      <4>5. StartsWith(node[m].path, old) <=> StartsWith(node[p].path, old)
        BY <1>1, <2>3, <4>1, <4>2, <4>4, StartsBelow
      <4>6. p \in below <=> m \in below
        BY <3>2, <3>3, <4>1, <4>5
      <4>7. CASE m \notin below
        BY <1>1, <3>6, <4>1, <4>2, <4>6, <4>7
      <4>8. CASE m \in below
        <5>1. /\ new \in Seq(Names) /\ old \in Seq(Names) /\ Slug[m] \in Names
              /\ node[p].path \in Seq(Names) /\ StartsWith(node[p].path, old)
          BY <1>1, <2>3, <3>3, <4>1, <4>5, <4>8
        <5>2. After(node[m].path, old, new) = Append(After(node[p].path, old, new), Slug[m])
          BY SMTT(40), <4>2, <5>1, AfterBelow
        <5>3. QED
          BY <1>3, <3>6, <4>6, <4>8, <5>2
      <4>9. QED
        BY <4>7, <4>8
    <3>7. QED
      BY <3>4, <3>5, <3>6
  <2>7. QED
    BY <2>5, <2>6
<1>12. ASSUME NEW m \in Nodes, Straight(m)', m \notin behind PROVE PathOf(m)'
  <2> PICK p : p = node[m].parent
    OBVIOUS
  <2>1. node'[m].parent = p
    BY <1>1
  <2>2. node'[m].path = IF p = None THEN Append(<<TypeOf[m]>>, Slug[m])
                          ELSE Append(node'[p].path, Slug[m])
    BY <1>11, <1>12
  <2>3. \A r \in Requests : ~Moved(r)'
    BY <1>6
  <2>4. QED
    BY <2>1, <2>2, <2>3 DEF PathOf, IsMoved
<1>16. ASSUME NEW m \in Nodes, Straight(m)', m \in behind PROVE Ends(m)'
  <2>1. Straight(m)
    BY <1>10, <1>16
  <2>2. PICK path \in Seq(Names) : node[m].path = Append(path, Slug[m])
    BY <1>16, <2>1 DEF PathFacts, Ends
  <2>3. CASE m \notin below
    <3>1. node'[m] = node[m]
      BY <1>1, <2>3
    <3>2. QED
      BY <2>2, <3>1 DEF Ends
  <2>4. CASE m \in below
    <3>1. TypeOf[m] = TypeOf[n] /\ Straight(n)
      BY <1>8, <1>9, <2>1, <2>4 DEF Straight
    <3>2. StartsWith(node[m].path, old)
      BY <1>1, <1>8, <2>1, <2>4, <3>1 DEF MovedFacts
    <3>3. Slug[m] \in Names /\ new \in Seq(Names) /\ old \in Seq(Names)
      BY <1>1, PathTypes
    <3>4. path = old \/ StartsWith(path, old)
      BY <2>2, <3>2, <3>3, StartsBelow
    <3>5. node'[m].path = After(Append(path, Slug[m]), old, new)
      BY <1>3, <2>2, <2>4
    <3>6. CASE path = old
      <4>1. node'[m].path = Append(new, Slug[m])
        BY <3>3, <3>5, <3>6, ChildAfter
      <4>2. QED
        BY <3>3, <4>1 DEF Ends
    <3>7. CASE StartsWith(path, old)
      <4>1. After(Append(path, Slug[m]), old, new) = Append(After(path, old, new), Slug[m])
        BY <3>3, <3>7, AfterBelow
      <4>2. After(path, old, new) \in Seq(Names)
        BY <3>3, <3>7, AfterType
      <4>3. QED
        BY <3>5, <4>1, <4>2 DEF Ends
    <3>8. QED
      BY <3>4, <3>6, <3>7
  <2>5. QED
    BY <2>3, <2>4
<1>13. (\A m \in Nodes : Straight(m) => IF m \in behind THEN Ends(m) ELSE PathOf(m))'
  BY <1>12, <1>16
<1>14. (\A p \in Requests : ~Moved(p))'
  BY <1>6
<1>17. behind' \subseteq Present'
  BY <1>1 DEF PathFacts
<1>15. QED
  BY <1>6, <1>13, <1>14, <1>17 DEF PathFacts

LEMMA FindTargetPaths ==
  ASSUME Base, Base', PathFacts, NEW q \in Requests, FindTarget(q) \/ WalkUp(q),
         mixed \subseteq mixed', behind' = behind
  PROVE  PathFacts'
<1>1. /\ request[q].phase \in {"target", "walk"} /\ node' = node
      /\ \E at : \/ request' = [request EXCEPT ![q].phase = "walk", ![q].at = at]
                 \/ request[q].phase = "walk" /\ request' = [request EXCEPT ![q].at = at]
  BY DEF FindTarget, WalkUp
<1>2. request[q] \in Request /\ request \in [Requests -> Request]
  BY RequestFields DEF Base, TypeOK
<1>3. request'[q].phase = "walk" /\ \A p \in Requests \ {q} : request'[p] = request[p]
  BY <1>1, <1>2 DEF Request
<1>4. SameShape
  BY <1>1, SameShapeNode
<1>5. QED
  BY <1>1, <1>3, <1>4, PassingPaths

LEMMA WalkPassesPaths ==
  ASSUME Base, Base', TreeInv, PathFacts, Calm', UNCHANGED history, NEW q \in Requests,
         WalkPasses(q), mixed \subseteq mixed', behind' = behind
  PROVE  PathFacts'
<1> PICK n, old : n = request[q].node /\ old = held[q][n].path
  OBVIOUS
<1>1. /\ request[q].phase = "walk" /\ node' = node
      /\ request' = [request EXCEPT ![q].phase = "write", ![q].old = old]
  BY DEF WalkPasses
<1>2. request[q] \in Request /\ request \in [Requests -> Request]
  BY RequestFields DEF Base, TypeOK
<1>3. /\ request'[q].phase = "write" /\ request'[q].node = n /\ request'[q].old = old
      /\ \A p \in Requests \ {q} : request'[p] = request[p]
  BY <1>1, <1>2 DEF Request
<1>4. n \in DOMAIN held[q]
  BY <1>1, RequestFields DEF HeldFacts, Moving
<1>5. n \in Present /\ old = node[n].path
  BY <1>4, TreeNow, RequestFields
<1>6. SameShape
  BY <1>1, SameShapeNode
<1>7. ~Moved(q) /\ ~Moved(q)'
  BY <1>1, <1>3 DEF Moved
<1>8. QED
  BY <1>3, <1>5, <1>6, <1>7, QuietPaths

LEMMA FindBelowPaths ==
  ASSUME Base, Base', PathFacts, NEW q \in Requests, FindBelow(q),
         mixed \subseteq mixed', behind' = behind
  PROVE  PathFacts'
<1> PICK below : below = {m \in Present : /\ TypeOf[m] = TypeOf[request[q].node]
                                          /\ StartsWith(node[m].path, request[q].old)}
  OBVIOUS
<1>1. /\ request[q].phase = "find" /\ node' = node
      /\ request' = [request EXCEPT ![q].phase = "rewrite", ![q].below = below]
  BY DEF FindBelow
<1>2. request[q] \in Request /\ request \in [Requests -> Request]
  BY RequestFields DEF Base, TypeOK
<1>3. /\ request'[q].phase = "rewrite" /\ request'[q].node = request[q].node
      /\ request'[q].old = request[q].old /\ request'[q].below = below
      /\ \A p \in Requests \ {q} : request'[p] = request[p]
  BY <1>1, <1>2 DEF Request
<1>4. SameShape
  BY <1>1, SameShapeNode
<1>5. Moved(q) /\ Moved(q)'
  BY <1>1, <1>3 DEF Moved
<1>6. QED
  BY <1>3, <1>4, <1>5, QuietPaths

(* A break: what was half moved is left behind.                            *)
LEMMA BreakPaths ==
  ASSUME Base, Base', TreeInv, PathInv, NEW q \in Requests, Break(q)
  PROVE  PathInv'
<1> SUFFICES ASSUME Calm' PROVE PathFacts'
  BY DEF PathInv
<1>1. /\ SameShape /\ node' = node /\ End(q) /\ Running(q)
      /\ UNCHANGED <<history, mixed>>
  BY BreakFacts
<1>2. PathFacts
  BY <1>1 DEF PathInv, Calm, history
<1>3. request'[q].phase = "done" /\ \A p \in Requests \ {q} : request'[p] = request[p]
  BY <1>1, EndOthers
<1>4. CASE ~Moved(q)
  <2>1. request[q].phase \notin {"find", "rewrite"} /\ behind' = behind
    BY <1>4 DEF Moved, Break
  <2>2. QED
    BY <1>1, <1>2, <1>3, <2>1, PassingPaths
<1>5. CASE Moved(q)
  <2> PICK n, old : n = request[q].node /\ old = request[q].old
    OBVIOUS
  <2>1. behind' = behind \cup Children(n) /\ behind \subseteq Present
    BY <1>2, <1>5 DEF Break, Moved, PathFacts
  <2>2. /\ \A p \in Requests \ {q} : ~Moved(p)
        /\ \A p \in Requests : ~Moved(p)' /\ request'[p].phase \notin {"write", "rewrite"}
    BY <1>1, <1>3, OnlyOne DEF Moved
  <2>3. \A m : IsMoved(m) <=> m = n
    BY <1>5, <2>2 DEF IsMoved
  <2>4. Present' = Present /\ \A m : Straight(m)' <=> Straight(m)
    BY <1>1, SameRows DEF Straight
  <2>5. ASSUME NEW m \in Nodes, Straight(m), m \notin behind' PROVE PathOf(m)'
    <3>1. PathOf(m) /\ node[m].parent # n
      BY <1>2, <2>1, <2>5 DEF PathFacts, Children, Straight
    <3>2. ~IsMoved(node[m].parent)
      BY <2>3, <3>1
    <3>3. QED
      BY <1>1, <2>2, <3>1, <3>2 DEF PathOf
  <2>6. ASSUME NEW m \in Nodes, Straight(m), m \in behind' PROVE Ends(m)'
    <3>1. CASE m \in behind
      BY <1>1, <1>2, <2>6, <3>1 DEF PathFacts, Ends
    <3>2. CASE m \in Children(n) /\ m \notin behind
      <4>1. PathOf(m) /\ node[m].parent = n
        BY <1>2, <2>6, <3>2 DEF PathFacts, Children
      <4>2. node[m].path = Append(old, Slug[m]) /\ old \in Seq(Names)
        BY <1>5, <4>1, PathTypes DEF PathOf
      <4>3. QED
        BY <1>1, <4>2 DEF Ends
    <3>3. QED
      BY <2>1, <2>6, <3>1, <3>2
  <2>7. (\A m \in Nodes : Straight(m) => IF m \in behind THEN Ends(m) ELSE PathOf(m))'
    BY <2>4, <2>5, <2>6
  <2>8. behind' \subseteq Present'
    BY <2>1, <2>4 DEF Children
  <2>9. (\A p \in Requests : ~Moved(p))'
    BY <2>2
  <2>10. QED
    BY <2>2, <2>7, <2>8, <2>9 DEF PathFacts
<1>6. QED
  BY <1>4, <1>5

LEMMA AdvancePaths ==
  ASSUME Base, Base', TreeInv, PathInv, NEW q \in Requests, Advance(q)
  PROVE  PathInv'
<1> SUFFICES ASSUME Calm' PROVE PathFacts'
  BY DEF PathInv
<1>1. UNCHANGED history /\ mixed \subseteq mixed' /\ Noted(q)
  BY AdvanceNoting DEF Noting
<1>2. PathFacts
  BY <1>1 DEF PathInv, Calm, history
<1>3. CASE InsertFails(q) \/ Delete(q) \/ FindTargetFails(q) \/ WalkRefuses(q)
  <2>1. End(q) /\ request[q].phase \notin {"find", "rewrite"}
    BY <1>3 DEF InsertFails, Delete, FindTargetFails, WalkRefuses
  <2>2. SameShape
    BY <1>3, SameShapeNode, DeleteShape DEF InsertFails, FindTargetFails, WalkRefuses
  <2>3. request'[q].phase = "done" /\ \A p \in Requests \ {q} : request'[p] = request[p]
    BY <2>1, EndOthers
  <2>4. QED
    BY <1>1, <1>2, <1>3, <2>1, <2>2, <2>3, NotedKept, PassingPaths
<1>4. CASE Insert(q)
  BY <1>1, <1>2, <1>4, NotedKept, InsertPaths
<1>5. CASE FindTarget(q) \/ WalkUp(q)
  BY <1>1, <1>2, <1>5, NotedKept, FindTargetPaths
<1>6. CASE WalkPasses(q)
  BY <1>1, <1>2, <1>6, NotedKept, WalkPassesPaths
<1>7. CASE WriteNode(q)
  BY <1>1, <1>2, <1>7, WritePaths
<1>8. CASE FindBelow(q)
  BY <1>1, <1>2, <1>8, NotedKept, FindBelowPaths
<1>9. CASE Rewrite(q)
  BY <1>1, <1>2, <1>9, NotedKept, RewritePaths
<1>10. QED
  BY <1>3, <1>4, <1>5, <1>6, <1>7, <1>8, <1>9 DEF Advance

(* A step of another: rows stay, or are added as the seeder adds them,     *)
(* perhaps in the middle of a move; no path of theirs starts with that of  *)
(* the node that is moved, for they are under one another.                 *)
LEMMA RowsPaths ==
  ASSUME Base, Base', PathFacts, UNCHANGED <<request, held, behind>>,
         mixed \subseteq mixed', NEW A \in SUBSET Nodes, SeedAdds(A)
  PROVE  PathFacts'
<1>1. /\ A \cap Present = {} /\ Present' = Present \cup A
      /\ \A m \in Nodes \ A : node'[m] = node[m]
      /\ \A S \in SUBSET A : S # {} => \E n \in S : node'[n].parent \notin S
  BY DEF SeedAdds
<1>2. \A m \in Present : node'[m].parent = node[m].parent /\ node'[m].path = node[m].path
  BY <1>1, PresentNodes
<1>3. \A p \in Requests :
        /\ Moved(p)' <=> Moved(p)
        /\ Moved(p) => request'[p].node = request[p].node /\ request'[p].old = request[p].old
        /\ request'[p].phase = "rewrite" =>
             request[p].phase = "rewrite" /\ request'[p].below = request[p].below
        /\ request'[p].phase = "write" =>
             /\ request'[p].node \in Present
             /\ request'[p].old = node[request'[p].node].path
  BY StillPaths
<1>4. \A q \in Requests : Moved(q) => request[q].node \in Present
  BY RequestFields DEF HeldFacts, Moved, Moving
<1>5. \A n \in A : ~IsMoved(n)'
  BY <1>1, <1>3, <1>4 DEF IsMoved
<1>6. ASSUME NEW n \in A, Straight(n)'
      PROVE  /\ node'[n].parent \in A \cup {None}
             /\ node'[n].parent # None => TypeOf[node'[n].parent] = TypeOf[n]
             /\ node'[n].path = Append(IF node'[n].parent = None THEN <<TypeOf[n]>>
                                         ELSE node'[node'[n].parent].path, Slug[n])
  <2>1. n \in Present' /\ TypeOf[n] \notin mixed' /\ Strays' \subseteq mixed'
    BY <1>6 DEF Straight, Base, RowsInv
  <2>2. node'[n].parent # None => TypeOf[node'[n].parent] = TypeOf[n]
    BY <2>1 DEF Strays
  <2>3. QED
    BY SMTT(40), <2>2 DEF SeedAdds
<1>7. ASSUME NEW n \in A, Straight(n)' PROVE PathOf(n)'
  <2> PICK p : p = node'[n].parent
    OBVIOUS
  <2>1. /\ p \in A \cup {None}
        /\ node'[n].path = Append(IF p = None THEN <<TypeOf[n]>> ELSE node'[p].path, Slug[n])
    BY <1>6, <1>7
  <2>2. \A r \in Requests : Moved(r)' => request'[r].node # p
    <3>1. None \notin Present
      BY PresentNodes
    <3>2. QED
      BY <1>1, <1>3, <1>4, <2>1, <3>1
  <2>3. QED
    BY <2>1, <2>2 DEF PathOf
<1>8. ASSUME NEW n \in A, NEW q \in Requests, Straight(n)', Moved(q),
             TypeOf[n] = TypeOf[request[q].node]
      PROVE  ~StartsWith(node'[n].path, request[q].old)
  <2> PICK moved, old : moved = request[q].node /\ old = request[q].old
    OBVIOUS
  <2> DEFINE S == {m \in A : TypeOf[m] = TypeOf[n]}
  <2>1. TypeOf[n] \notin mixed' /\ moved \in Present /\ moved \in Nodes
    BY <1>4, <1>8, PresentNodes DEF Straight
  <2>2. Straight(moved) /\ TypeOf[moved] = TypeOf[n]
    BY <1>8, <2>1 DEF Straight
  <2>3. MovedFacts(q) /\ old \in Seq(Names)
    BY <1>8, <2>2, PathTypes DEF PathFacts
  <2>4. Len(old) >= 2 /\ old[Len(old)] = Slug[moved]
    BY <2>3 DEF MovedFacts
  <2>5. S \in SUBSET Nodes /\ n \in S
    OBVIOUS
  <2>6. \A X \in SUBSET S : X # {} => \E m \in X : node'[m].parent \notin X
    BY <1>1
  <2>7. ASSUME NEW m \in S
        PROVE  /\ node'[m].path \in Seq(Names)
               /\ \/ /\ node'[m].parent = None
                     /\ node'[m].path = Append(<<TypeOf[m]>>, Slug[m])
                  \/ /\ node'[m].parent \in S
                     /\ node'[m].path = Append(node'[node'[m].parent].path, Slug[m])
    <3>1. m \in A /\ m \in Nodes /\ TypeOf[m] = TypeOf[n]
      OBVIOUS
    <3>2. Straight(m)'
      BY <1>1, <2>1, <3>1 DEF Straight
    <3>3. node'[m].path \in Seq(Names)
      <4>1. node' \in [Nodes -> Row]
        BY DEF SeedAdds
      <4>2. QED
        BY <3>1, <4>1, RowType
    <3>4. QED
      BY <1>6, <3>1, <3>2, <3>3
  <2>8. ASSUME NEW m \in S PROVE node'[m].path # old
    <3>1. m \in A /\ m \in Nodes /\ m # moved /\ TypeOf[m] = TypeOf[moved]
      BY <1>1, <2>1, <2>2
    <3>0. m \in Present' /\ moved \in Present' /\ TypeOf[m] \notin mixed' /\ Strays' \subseteq mixed'
      BY <1>1, <2>1, <3>1 DEF Base, RowsInv
    <3>a. m \notin SameSlug[moved]
      BY <2>1, <2>2, <3>0, <3>1 DEF Strays
    <3>2. Slug[m] # Slug[moved] /\ Slug[m] \in Names /\ TypeOf[m] \in Names
      BY <2>1, <3>1, <3>a, NamesType DEF SameSlug
    <3>3. PICK path \in Seq(Names) : node'[m].path = Append(path, Slug[m])
      <4>1. CASE node'[m].parent = None
        <5>1. <<TypeOf[m]>> \in Seq(Names)
          BY <3>2
        <5>2. node'[m].path = Append(<<TypeOf[m]>>, Slug[m])
          BY <2>5, <2>7, <4>1, NodesAssumption
        <5>3. QED
          BY <5>1, <5>2
      <4>2. CASE node'[m].parent # None
        BY <2>7, <4>2
      <4>3. QED
        BY <4>1, <4>2
    <3>4. node'[m].path[Len(node'[m].path)] = Slug[m]
      BY <3>2, <3>3, LastOfAppend
    <3>5. QED
      BY <2>4, <3>2, <3>4
  <2> HIDE DEF S
  <2> PICK rows : rows = node'
    OBVIOUS
  <2>9. \A m \in S : ~StartsWith(rows[m].path, old)
    BY <2>3, <2>4, <2>5, <2>6, <2>7, <2>8, NoneStarts
  <2>10. QED
    BY <2>5, <2>9
<1>9. \A n \in A : Straight(n)' => PathOf(n)'
  BY <1>7
<1>10. QED
  BY <1>1, <1>2, <1>3, <1>8, <1>9, PathsGrow

LEMMA SeedPaths ==
  ASSUME Base, Base', PathInv, Seed
  PROVE  PathInv'
<1> SUFFICES ASSUME Calm' PROVE PathFacts'
  BY DEF PathInv
<1>1. UNCHANGED <<request, held, history, behind>> /\ Noting /\ mixed \subseteq mixed'
  BY StrayTypes DEF Seed, Noting, Base, TypeOK
<1>2. PathFacts
  BY <1>1 DEF PathInv, Calm, history
<1>3. CASE SeedBegin \/ SeedFind \/ SeedBreaks
  <2>1. node' = node
    BY <1>1, <1>3, SeedReadBase
  <2>2. Present' = Present
    BY <2>1, SameRows
  <2>3. QED
    BY <1>1, <1>2, <2>1, <2>2, ShapeOnlyPaths, SameShapeNode
<1>4. ASSUME NEW A \in SUBSET Nodes, SeedAdds(A) PROVE PathFacts'
  BY <1>1, <1>2, <1>4, RowsPaths
<1>5. CASE SeedTrees
  BY <1>4, <1>5, SeedTreesAdds
<1>6. CASE SeedBelow
  BY <1>4, <1>6, SeedBelowAdds
<1>7. QED
  BY <1>3, <1>5, <1>6 DEF Seed

LEMMA UpdatePaths ==
  ASSUME Base, Base', PathInv, NEW n \in Nodes, Activate(n) \/ Deactivate(n)
  PROVE  PathInv'
<1> SUFFICES ASSUME Calm' PROVE PathFacts'
  BY DEF PathInv
<1>1. SameShape
  BY UpdateBase
<1>2. UNCHANGED <<request, held, history, mixed, behind>>
  BY DEF Activate, Deactivate, Update
<1>3. PathFacts
  BY <1>2 DEF PathInv, Calm, history
<1>4. QED
  BY <1>1, <1>2, <1>3, ShapeOnlyPaths

LEMMA StutterPaths ==
  ASSUME Base, Base', PathInv, UNCHANGED vars
  PROVE  PathInv'
<1> SUFFICES ASSUME Calm' PROVE PathFacts'
  BY DEF PathInv
<1>1. node' = node /\ UNCHANGED <<request, held, history, mixed, behind>>
  BY DEF vars
<1>2. PathFacts
  BY <1>1 DEF PathInv, Calm, history
<1>3. QED
  BY <1>1, <1>2, ShapeOnlyPaths, SameShapeNode

LEMMA InitPaths == Init => PathInv
<1> SUFFICES ASSUME Init PROVE PathFacts
  BY DEF PathInv
<1>1. PICK parent \in Seeds : node = Seeded(parent, Slug)
  BY DEF Init
<1>2. \A n \in Present :
        node[n].path = Append(IF node[n].parent = None THEN <<TypeOf[n]>>
                                ELSE node[node[n].parent].path, Slug[n])
  BY <1>1, InitRows
<1>3. \A q \in Requests : request[q].phase = "new"
  BY RequestTypes DEF Init
<1>4. \A q \in Requests : ~Moved(q)
  BY <1>3 DEF Moved
<1>5. \A n \in Nodes : Straight(n) => PathOf(n)
  BY <1>2, <1>4 DEF Straight, PathOf, IsMoved
<1>6. behind = {}
  BY DEF Init
<1>7. QED
  BY <1>3, <1>4, <1>5, <1>6 DEF PathFacts

LEMMA NextPaths == Base /\ Base' /\ TreeInv /\ PathInv /\ [Next]_vars => PathInv'
<1> SUFFICES ASSUME Base, Base', TreeInv, PathInv, [Next]_vars PROVE PathInv'
  OBVIOUS
<1>1. ASSUME NEW q \in Requests, NEW n \in Nodes, Starts(q, n) PROVE PathInv'
  BY <1>1, StartsPaths
<1>2. ASSUME NEW q \in Requests, Advance(q) \/ Break(q) PROVE PathInv'
  BY <1>2, AdvancePaths, BreakPaths
<1>3. ASSUME NEW n \in Nodes, Activate(n) \/ Deactivate(n) PROVE PathInv'
  BY <1>3, UpdatePaths
<1>4. CASE Seed
  BY <1>4, SeedPaths
<1>5. CASE UNCHANGED vars
  BY <1>5, StutterPaths
<1>6. QED
  BY <1>1, <1>2, <1>3, <1>4, <1>5, NextSteps

(* Between requests nothing is half moved.                                 *)
LEMMA PathsAtRest ==
  ASSUME Base, PathInv
  PROVE  PathFollowsParent
<1> SUFFICES ASSUME Calm, ~Busy, NEW n \in Present \ behind, TypeOf[n] \notin mixed
             PROVE  node[n].path = Append(IF node[n].parent = None THEN <<TypeOf[n]>>
                                            ELSE node[node[n].parent].path, Slug[n])
  BY DEF PathFollowsParent, Calm
<1>1. n \in Nodes /\ Straight(n)
  BY PresentNodes DEF Straight
<1>2. PathOf(n)
  BY <1>1 DEF PathInv, PathFacts
<1>3. ~IsMoved(node[n].parent)
  BY DEF Busy, Running, Moved, IsMoved
<1>4. QED
  BY <1>2, <1>3 DEF PathOf

(* As long as requests neither overlapped nor moved a node under itself,   *)
(* between two requests the path that updateChildPaths and create wrote in *)
(* a node is that of its parent and its own slug: all that was below a     *)
(* node that move has moved was found by its path and rewritten, and       *)
(* nothing else was; nor do the rows that the seeder adds in the middle of *)
(* a move change that.  A move that breaks off between its transactions    *)
(* leaves the nodes right under its node behind and no others, and what is *)
(* below those still follows them.  Types with a node under one of another *)
(* type, with two equal slugs, or in which what was left behind has misled *)
(* a later move, are left out.                                             *)
THEOREM PathsFollowParents == Spec => []PathFollowsParent
<1>1. Init => PathInv
  BY InitPaths
<1>2. Base /\ Base' /\ TreeInv /\ PathInv /\ [Next]_vars => PathInv'
  BY NextPaths
<1>3. Base /\ PathInv => PathFollowsParent
  BY PathsAtRest
<1>4. QED
  BY <1>1, <1>2, <1>3, AlwaysBase, AlwaysTree, PTL DEF Spec
====
