----------------------------- MODULE NSFSProofs -----------------------------
(*****************************************************************************)
(* The calls of source/fs.c, made of those steps, keep the invariant when    *)
(* programs keep the discipline of NSFSInv, and with it every promise of     *)
(* source/fs.h.                                                              *)
(*****************************************************************************)
EXTENDS NSFSTables, SequenceTheorems

-----------------------------------------------------------------------------
(* Paths.  What path_parse_parent, Lookup and fs_get_entry find. *)

\* The entries that the names of a path but the last lead to.
PathRuns(img, names, v) ==
  /\ path_parse_parent(img, names) = v[(Len(names) - 1)]
  /\ v[0] = 0
  /\ \A i \in 0 .. (Len(names) - 1) - 1 : v[i + 1] = (IF Failed(v[i]) THEN v[i] ELSE Lookup(img, v[i], names[(i + 1)]))

\* The rounds of this loop are a function that exists and is the one the operator evaluates.
LEMMA PathRunsExist ==
  ASSUME NEW img, NEW names, names \in Seq(Names), names # <<>>
  PROVE  \E v : PathRuns(img, names, v)
<1> DEFINE a == 0
           Round(z, i) == (IF Failed(z) THEN z ELSE Lookup(img, z, names[i]))
           Is(m, f) == f = [i \in 0 .. m |-> IF i = 0 THEN a ELSE Round(f[i - 1], i)]
           S == {m \in 0 .. (Len(names) - 1) : \E f : Is(m, f)}
           v == CHOOSE f : Is((Len(names) - 1), f)
<1>1. (Len(names) - 1) \in Nat
  OBVIOUS
<1>2. path_parse_parent(img, names) = v[(Len(names) - 1)]
  BY DEF path_parse_parent
<1> HIDE DEF a, Round
<1>3. 0 \in S
  <2>1. Is(0, [i \in 0 .. 0 |-> a])
    OBVIOUS
  <2> HIDE DEF Is
  <2> QED BY <1>1, <2>1
<1>4. ASSUME NEW m \in 0 .. (Len(names) - 1) - 1, m \in S PROVE m + 1 \in S
  <2>1. PICK f : Is(m, f)
    BY <1>4
  <2> DEFINE h == [i \in 0 .. m + 1 |-> IF i = m + 1 THEN Round(f[m], m + 1) ELSE f[i]]
  <2>2. \A i \in 0 .. m : h[i] = f[i] /\ f[i] = IF i = 0 THEN a ELSE Round(f[i - 1], i)
    BY <2>1
  <2>3. h[m + 1] = Round(f[m], m + 1)
    OBVIOUS
  <2>4. \A i \in 0 .. m + 1 : h[i] = IF i = 0 THEN a ELSE Round(h[i - 1], i)
    <3> SUFFICES ASSUME NEW i \in 0 .. m + 1 PROVE h[i] = IF i = 0 THEN a ELSE Round(h[i - 1], i)
      OBVIOUS
    <3> HIDE DEF h
    <3>1. CASE i = 0
      BY <2>2, <3>1
    <3>2. CASE i \in 1 .. m
      <4>1. i - 1 \in 0 .. m /\ i \in 0 .. m /\ i # 0
        BY <3>2
      <4>2. h[i - 1] = f[i - 1] /\ h[i] = Round(f[i - 1], i)
        BY <2>2, <4>1
      <4> QED BY <4>1, <4>2
    <3>3. CASE i = m + 1
      <4>1. i - 1 = m /\ m \in 0 .. m /\ i # 0
        BY <3>3
      <4>2. h[i - 1] = f[m] /\ h[i] = Round(f[m], i)
        BY <2>2, <2>3, <3>3, <4>1
      <4> QED BY <4>1, <4>2
    <3> QED BY <3>1, <3>2, <3>3
  <2>5. Is(m + 1, h)
    BY <2>4
  <2> HIDE DEF Is
  <2> QED BY <1>1, <2>5
<1> HIDE DEF Is
<1>5. \A m \in 0 .. (Len(names) - 1) : m \in S
  <2> HIDE DEF S
  <2> QED BY <1>1, <1>3, <1>4, UpTo
<1>6. Is((Len(names) - 1), v)
  <2>1. \E f : Is((Len(names) - 1), f)
    BY <1>1, <1>5
  <2> QED BY <2>1
<1>7. v = [i \in 0 .. (Len(names) - 1) |-> IF i = 0 THEN a ELSE Round(v[i - 1], i)]
  BY <1>6 DEF Is
<1> HIDE DEF v
<1>8. v[0] = a
  BY <1>1, <1>7
<1>9. ASSUME NEW i \in 0 .. (Len(names) - 1) - 1 PROVE v[i + 1] = Round(v[i], i + 1)
  <2> DEFINE m == i + 1
  <2>1. m \in 0 .. (Len(names) - 1) /\ m # 0 /\ m - 1 = i
    BY <1>1
  <2>2. m = i + 1
    OBVIOUS
  <2> HIDE DEF m
  <2>3. v[m] = Round(v[m - 1], m)
    BY <1>7, <2>1
  <2> QED BY <2>1, <2>2, <2>3
<1> QED BY <1>2, <1>8, <1>9 DEF a, Round, PathRuns

\* The images whose entries are E.
OfTable(img, E) == img.entry = E /\ E \in Table

\* Looking a name up under an entry.
LEMMA LookupIs ==
  ASSUME NEW img, NEW E, OfTable(img, E), NEW p, NEW name
  PROVE  \/ /\ Lookup(img, p, name) = ERROR_NOT_FOUND
            /\ \A m \in UsedIn(E) : ~(E[m].parent = p /\ E[m].name = name)
         \/ /\ Lookup(img, p, name) \in UsedIn(E) /\ ~Failed(Lookup(img, p, name))
            /\ E[Lookup(img, p, name)].parent = p /\ E[Lookup(img, p, name)].name = name
<1> DEFINE S == {n \in EntryIndex : E[n].flags # FREE /\ E[n].parent = p /\ E[n].name = name}
           n == Lookup(img, p, name)
<1>1. n = FirstOr(S, ERROR_NOT_FOUND)
  BY DEF Lookup, OfTable
<1>2. NEntries \in Nat /\ EntryIndex \subseteq 0 .. NEntries
  BY NSFSDiskAssumption DEF EntryIndex
<1> HIDE DEF n
<1>3. \/ S = {} /\ n = ERROR_NOT_FOUND
      \/ S # {} /\ n \in S
  <2>1. S \in SUBSET (0 .. NEntries)
    BY <1>2
  <2> HIDE DEF S
  <2> QED BY <1>1, <1>2, <2>1, FirstOrIn
<1>4. CASE S = {} /\ n = ERROR_NOT_FOUND
  BY <1>4 DEF n, UsedIn
<1>5. CASE n \in S
  <2>1. n \in UsedIn(E) /\ E[n].parent = p /\ E[n].name = name
    BY <1>5 DEF UsedIn
  <2>2. ~Failed(n)
    BY <2>1, Numbers DEF UsedIn, Failed
  <2> QED BY <2>1, <2>2 DEF n
<1> QED BY <1>3, <1>4, <1>5

\* An entry in a directory is the only one with its name.
LEMMA LookupFinds ==
  ASSUME NEW img, NEW E, OfTable(img, E), NEW O, Good(E, O), NEW n \in UsedIn(E) \ {0}, IsDir(E[E[n].parent])
  PROVE  Lookup(img, E[n].parent, E[n].name) = n
<1> DEFINE x == Lookup(img, E[n].parent, E[n].name)
<1>1. x \in UsedIn(E) /\ E[x].parent = E[n].parent /\ E[x].name = E[n].name
  <2>1. ~(\A m \in UsedIn(E) : ~(E[m].parent = E[n].parent /\ E[m].name = E[n].name))
    OBVIOUS
  <2> QED BY <2>1, LookupIs
<1>2. x # 0
  <2>1. E[n].name \in Names /\ E[0].name = ROOT_DIR_NAME
    BY DEF Good, StoredNames, RootIsRoot
  <2>2. ROOT_DIR_NAME \notin Names
    BY NSFSDiskAssumption
  <2> HIDE DEF x
  <2> QED BY <1>1, <2>1, <2>2
<1> HIDE DEF x
<1>3. x = n
  BY <1>1, <1>2 DEF Good, DirNames
<1> QED BY <1>3 DEF x

\* The entries w[0] .. w[m] that the first m names lead to.
Walk(E, names, w, m) ==
  /\ w \in [0 .. m -> UsedIn(E)] /\ w[0] = 0
  /\ \A i \in 1 .. m : E[w[i]].parent = w[i - 1] /\ E[w[i]].name = names[i] /\ w[i] # 0

\* One more name that is found is one more step of the walk.
LEMMA WalkOn ==
  ASSUME NEW img, NEW E, OfTable(img, E), RootIsRoot(E), NEW names \in Seq(Names), NEW m \in Nat, m < Len(names),
         NEW w, Walk(E, names, w, m), NEW more, more = m + 1,
         NEW n, n = Lookup(img, w[m], names[more]), ~Failed(n)
  PROVE  Walk(E, names, [i \in 0 .. more |-> IF i = more THEN n ELSE w[i]], more)
<1> DEFINE u == [i \in 0 .. more |-> IF i = more THEN n ELSE w[i]]
<1>1. n \in UsedIn(E) /\ E[n].parent = w[m] /\ E[n].name = names[more]
  <2>1. n # ERROR_NOT_FOUND
    BY DEF Failed, ERROR_NOT_FOUND
  <2> QED BY <2>1, LookupIs
<1>2. n # 0
  <2>1. names[more] \in Names
    <3>1. more \in 1 .. Len(names)
      OBVIOUS
    <3> QED BY <3>1
  <2>2. E[0].name = ROOT_DIR_NAME /\ ROOT_DIR_NAME \notin Names
    BY NSFSDiskAssumption DEF RootIsRoot
  <2> QED BY <1>1, <2>1, <2>2
<1>3. /\ w \in [0 .. m -> UsedIn(E)] /\ w[0] = 0
      /\ \A i \in 1 .. m : E[w[i]].parent = w[i - 1] /\ E[w[i]].name = names[i] /\ w[i] # 0
  BY DEF Walk
<1>4. /\ \A i \in 0 .. m : i \in 0 .. more /\ i # more /\ u[i] = w[i]
      /\ u[more] = n
  OBVIOUS
<1>5. u \in [0 .. more -> UsedIn(E)] /\ u[0] = 0
  <2>1. \A i \in 0 .. more : i = more \/ i \in 0 .. m
    OBVIOUS
  <2>2. 0 \in 0 .. m
    OBVIOUS
  <2> QED BY <1>1, <1>3, <1>4, <2>1, <2>2
<1> HIDE DEF u
<1>6. ASSUME NEW i \in 1 .. more PROVE E[u[i]].parent = u[i - 1] /\ E[u[i]].name = names[i] /\ u[i] # 0
  <2>1. CASE i = more
    <3>1. i - 1 = m /\ m \in 0 .. m
      BY <2>1
    <3> QED BY <1>1, <1>2, <1>4, <2>1, <3>1
  <2>2. CASE i # more
    <3>1. i \in 1 .. m /\ i \in 0 .. m /\ i - 1 \in 0 .. m
      BY <2>2
    <3> QED BY <1>3, <1>4, <3>1
  <2> QED BY <2>1, <2>2
<1>7. Walk(E, names, u, more)
  BY <1>5, <1>6 DEF Walk
<1> QED BY <1>7 DEF u

\* Where path_parse_parent goes.
LEMMA ParentWalk ==
  ASSUME NEW img, NEW E, OfTable(img, E), RootIsRoot(E), NEW names \in Seq(Names), names # <<>>
  PROVE  \/ path_parse_parent(img, names) = ERROR_NOT_FOUND
         \/ \E w : Walk(E, names, w, Len(names) - 1) /\ path_parse_parent(img, names) = w[Len(names) - 1]
<1>1. PICK v : PathRuns(img, names, v)
  BY PathRunsExist
<1> DEFINE l == Len(names) - 1
           Reached(i) == \E w : Walk(E, names, w, i) /\ v[i] = w[i]
           S == {i \in 0 .. l : v[i] = ERROR_NOT_FOUND \/ Reached(i)}
<1>2. l \in Nat /\ l < Len(names) /\ l + 1 = Len(names)
  OBVIOUS
<1>3. /\ path_parse_parent(img, names) = v[l] /\ v[0] = 0
      /\ \A i \in 0 .. l - 1 : v[i + 1] = (IF Failed(v[i]) THEN v[i] ELSE Lookup(img, v[i], names[(i + 1)]))
  BY <1>1 DEF PathRuns
<1> HIDE DEF l
<1>4. 0 \in S
  <2> DEFINE w == [i \in 0 .. 0 |-> 0]
  <2>1. 0 \in UsedIn(E)
    BY Numbers DEF RootIsRoot, UsedIn, T_DIR, FREE
  <2>2. Walk(E, names, w, 0)
    BY <2>1 DEF Walk
  <2>3. w[0] = 0
    OBVIOUS
  <2> HIDE DEF w
  <2> QED BY <1>2, <1>3, <2>2, <2>3
<1>5. ASSUME NEW i \in 0 .. l - 1, i \in S PROVE i + 1 \in S
  <2> DEFINE more == i + 1
  <2>0. more = i + 1 /\ more \in 0 .. l /\ i \in Nat /\ i < Len(names)
    BY <1>2
  <2> HIDE DEF more
  <2>1. v[more] = (IF Failed(v[i]) THEN v[i] ELSE Lookup(img, v[i], names[more]))
    BY <1>3, <2>0
  <2>2. CASE v[i] = ERROR_NOT_FOUND
    <3>1. v[more] = ERROR_NOT_FOUND
      BY <2>1, <2>2 DEF Failed, ERROR_NOT_FOUND
    <3> HIDE DEF Reached
    <3> QED BY <2>0, <3>1
  <2>3. CASE Reached(i)
    <3>1. PICK w : Walk(E, names, w, i) /\ v[i] = w[i]
      BY <2>3
    <3>2. w[i] \in UsedIn(E)
      BY <2>0, <3>1 DEF Walk
    <3>3. ~Failed(v[i])
      <4>1. w[i] \in Nat
        BY <3>2, Numbers DEF UsedIn
      <4>2. ~Failed(w[i])
        BY <4>1 DEF Failed
      <4> HIDE DEF Reached, S
      <4> QED BY <3>1, <4>2
    <3> DEFINE n == Lookup(img, w[i], names[more])
    <3>4. v[more] = n
      BY <2>1, <3>1, <3>3
    <3>5. CASE Failed(n)
      <4>1. n = ERROR_NOT_FOUND
        BY <3>5, LookupIs
      <4> HIDE DEF Reached, n
      <4> QED BY <2>0, <3>4, <4>1
    <3>6. CASE ~Failed(n)
      <4> DEFINE u == [j \in 0 .. more |-> IF j = more THEN n ELSE w[j]]
      <4>0. n = Lookup(img, w[i], names[more])
        OBVIOUS
      <4> HIDE DEF n
      <4>1. Walk(E, names, u, more)
        BY <2>0, <3>1, <3>6, <4>0, WalkOn
      <4>2. u[more] = n
        BY <2>0
      <4> HIDE DEF u
      <4>3. Reached(more)
        BY <3>4, <4>1, <4>2
      <4> HIDE DEF Reached
      <4> QED BY <2>0, <4>3
    <3> QED BY <3>5, <3>6
  <2> QED BY <1>5, <2>2, <2>3
<1>6. \A i \in 0 .. l : i \in S
  <2> HIDE DEF S
  <2> QED BY <1>2, <1>4, <1>5, UpTo
<1>7. v[l] = ERROR_NOT_FOUND \/ Reached(l)
  BY <1>2, <1>6
<1> QED BY <1>3, <1>7 DEF l

\* The names of a path.
LEMMA PathNames ==
  ASSUME NEW path \in CallPaths
  PROVE  /\ DiskOf(path) \in Disks /\ Len(path) \in Nat /\ Len(path) > 1
         /\ NamesOf(path) \in Seq(Names) /\ NamesOf(path) # <<>>
         /\ Len(NamesOf(path)) = Len(path) - 1
         /\ \A i \in 1 .. Len(path) - 1 : NamesOf(path)[i] = path[i + 1]
         /\ Last(path) = path[Len(path)] /\ Last(path) \in Names
         /\ Last(NamesOf(path)) = Last(path) /\ NamesOf(path)[Len(NamesOf(path))] = Last(path)
<1> DEFINE names == NamesOf(path)
<1>1. path \in Seq(Disks \cup Names) /\ Len(path) > 1 /\ path[1] \in Disks /\ \A i \in 2 .. Len(path) : path[i] \in Names
  BY DEF CallPaths, AllPaths
<1>2. path # <<>> /\ Len(path) \in Nat
  BY <1>1, LenProperties
<1>3. Len(names) = Len(path) - 1 /\ \A i \in 1 .. Len(path) - 1 : names[i] = path[i + 1]
  BY <1>1, <1>2, HeadTailProperties DEF NamesOf
<1>4. names = SubSeq(path, 2, Len(path))
  BY <1>1, <1>2, TailIsSubSeq DEF NamesOf
<1>5. names \in Seq(Names)
  BY <1>1, <1>2, <1>4, SubSeqProperties
<1> HIDE DEF names
<1>6. names[Len(names)] = path[Len(path)]
  <2>1. Len(path) - 1 \in 1 .. Len(path) - 1 /\ Len(path) - 1 + 1 = Len(path)
    BY <1>1, <1>2
  <2> QED BY <1>3, <2>1
<1>7. names # <<>>
  BY <1>1, <1>2, <1>3, <1>5
<1>8. path[1] = Head(path)
  BY <1>1, <1>2
<1>9. Len(path) \in 2 .. Len(path)
  BY <1>1, <1>2
<1> QED BY <1>1, <1>2, <1>3, <1>5, <1>6, <1>7, <1>8, <1>9 DEF Last, DiskOf, names

\* Where the whole of a path goes.
LEMMA EntryWalk ==
  ASSUME NEW D, NEW path \in CallPaths, NEW E, OfTable(D[DiskOf(path)], E), RootIsRoot(E),
         NEW n, n = fs_get_entry(D, path)
  PROVE  \/ n = ERROR_NOT_FOUND
         \/ /\ n \in UsedIn(E) \ {0} /\ ~Failed(n)
            /\ ~Failed(path_parse_parent(D[DiskOf(path)], NamesOf(path)))
            /\ E[n].parent = path_parse_parent(D[DiskOf(path)], NamesOf(path)) /\ E[n].name = Last(path)
            /\ \E w : Walk(E, NamesOf(path), w, Len(NamesOf(path))) /\ w[Len(NamesOf(path))] = n
<1> DEFINE img == D[DiskOf(path)]
           names == NamesOf(path)
           p == path_parse_parent(img, names)
           m == Len(names) - 1
           more == Len(names)
<1>1. /\ names \in Seq(Names) /\ names # <<>> /\ Last(names) = Last(path) /\ names[more] = Last(path)
      /\ more \in Nat /\ more = m + 1 /\ m \in Nat /\ m < Len(names)
  <2>1. Len(names) \in Nat /\ Len(names) >= 1
    BY PathNames
  <2> QED BY <2>1, PathNames
<1>2. n = IF Failed(p) THEN p ELSE Lookup(img, p, Last(names))
  BY <1>1 DEF fs_get_entry
<1>3. OfTable(img, E)
  OBVIOUS
<1> HIDE DEF img, names, p
<1>4. \/ p = ERROR_NOT_FOUND
      \/ \E w : Walk(E, names, w, m) /\ p = w[m]
  BY <1>1, <1>3, ParentWalk DEF p
<1>5. CASE p = ERROR_NOT_FOUND
  <2>1. n = ERROR_NOT_FOUND
    BY <1>2, <1>5 DEF Failed, ERROR_NOT_FOUND
  <2> QED BY <2>1
<1>6. CASE \E w : Walk(E, names, w, m) /\ p = w[m]
  <2>1. PICK w : Walk(E, names, w, m) /\ p = w[m]
    BY <1>6
  <2>2. p \in UsedIn(E)
    BY <1>1, <2>1 DEF Walk
  <2>3. ~Failed(p)
    BY <2>2, Numbers DEF UsedIn, Failed
  <2>4. n = Lookup(img, p, names[more])
    BY <1>1, <1>2, <2>3
  <2>5. CASE Failed(n)
    <3>1. n = ERROR_NOT_FOUND
      BY <1>3, <2>4, <2>5, LookupIs
    <3> QED BY <3>1
  <2>6. CASE ~Failed(n)
    <3> HIDE DEF m, more
    <3> DEFINE u == [i \in 0 .. more |-> IF i = more THEN n ELSE w[i]]
    <3>1. n = Lookup(img, w[m], names[more])
      BY <2>1, <2>4
    <3>2. Walk(E, names, w, m) /\ more = m + 1 /\ m < Len(names) /\ m \in Nat /\ names \in Seq(Names)
      BY <1>1, <2>1
    <3>3. Walk(E, names, u, more)
      BY <1>3, <2>6, <3>1, <3>2, WalkOn
    <3>4. u[more] = n /\ more \in 1 .. more
      BY <1>1
    <3>5. n \in UsedIn(E) /\ E[n].parent = p /\ E[n].name = Last(path)
      <4>1. n # ERROR_NOT_FOUND
        BY <2>6 DEF Failed, ERROR_NOT_FOUND
      <4> QED BY <1>1, <1>3, <2>4, <4>1, LookupIs
    <3>6. n # 0
      BY <3>3, <3>4 DEF Walk
    <3> HIDE DEF u
    <3> QED BY <2>3, <2>6, <3>3, <3>4, <3>5, <3>6 DEF p, img, names, more
  <2> QED BY <2>5, <2>6
<1> QED BY <1>4, <1>5, <1>6

-----------------------------------------------------------------------------
(* Walks.  A path that finds something is a walk down from the root. *)

\* A walk through directories.
DirWalk(E, names, w, m) == Walk(E, names, w, m) /\ \A i \in 0 .. m : IsDir(E[w[i]])

\* What leads to a directory are directories.
LEMMA WalkDirs ==
  ASSUME NEW E \in Table, NEW O, Good(E, O), NEW names, NEW m \in Nat, NEW w, Walk(E, names, w, m), IsDir(E[w[m]])
  PROVE  DirWalk(E, names, w, m)
<1> DEFINE S == {i \in 0 .. m : IsDir(E[w[m - i]])}
<1>1. 0 \in S
  OBVIOUS
<1>2. ASSUME NEW i \in 0 .. m - 1, i \in S PROVE i + 1 \in S
  <2> DEFINE j == m - i
             more == i + 1
  <2>1. j \in 1 .. m /\ j \in 0 .. m /\ more \in 0 .. m /\ m - more = j - 1 /\ more = i + 1
    OBVIOUS
  <2>2. IsDir(E[w[j]])
    BY <1>2
  <2> HIDE DEF j, more
  <2>3. w[j] \in EntryIndex /\ E[w[j]].parent = w[j - 1]
    BY <2>1 DEF Walk, UsedIn
  <2>4. IsDir(E[w[j - 1]])
    BY <2>2, <2>3, DirInDir
  <2> QED BY <2>1, <2>4
<1>3. \A i \in 0 .. m : i \in S
  <2> HIDE DEF S
  <2> QED BY <1>1, <1>2, UpTo
<1>4. ASSUME NEW i \in 0 .. m PROVE IsDir(E[w[i]])
  <2> DEFINE j == m - i
  <2>1. j \in 0 .. m /\ m - j = i
    OBVIOUS
  <2> HIDE DEF j
  <2>2. IsDir(E[w[m - j]])
    BY <1>3, <2>1
  <2> QED BY <2>1, <2>2
<1> QED BY <1>4 DEF DirWalk

\* The entries of such a walk are what its names lead to.
LEMMA WalkFound ==
  ASSUME NEW img, NEW E, OfTable(img, E), NEW O, Good(E, O), NEW names \in Seq(Names), names # <<>>,
         NEW m, m = Len(names) - 1, NEW w, DirWalk(E, names, w, m)
  PROVE  path_parse_parent(img, names) = w[m]
<1>1. PICK v : PathRuns(img, names, v)
  BY PathRunsExist
<1>2. m \in Nat
  OBVIOUS
<1>3. /\ path_parse_parent(img, names) = v[m] /\ v[0] = 0
      /\ \A i \in 0 .. m - 1 : v[i + 1] = (IF Failed(v[i]) THEN v[i] ELSE Lookup(img, v[i], names[(i + 1)]))
  BY <1>1 DEF PathRuns
<1>4. /\ \A i \in 0 .. m : w[i] \in UsedIn(E) /\ IsDir(E[w[i]])
      /\ w[0] = 0
      /\ \A i \in 1 .. m : E[w[i]].parent = w[i - 1] /\ E[w[i]].name = names[i] /\ w[i] # 0
  BY DEF DirWalk, Walk
<1> DEFINE S == {i \in 0 .. m : v[i] = w[i]}
<1>5. 0 \in S
  BY <1>2, <1>3, <1>4
<1>6. ASSUME NEW i \in 0 .. m - 1, i \in S PROVE i + 1 \in S
  <2> DEFINE more == i + 1
  <2>1. more = i + 1 /\ more \in 0 .. m /\ more \in 1 .. m /\ more - 1 = i /\ i \in 0 .. m
    BY <1>2
  <2> HIDE DEF more
  <2>2. v[i] = w[i]
    BY <1>6
  <2>3. ~Failed(v[i])
    <3>1. w[i] \in Nat
      BY <1>4, <2>1, Numbers DEF UsedIn
    <3> QED BY <2>2, <3>1 DEF Failed
  <2>4. v[more] = Lookup(img, w[i], names[more])
    BY <1>3, <2>1, <2>2, <2>3
  <2>5. /\ w[more] \in UsedIn(E) \ {0} /\ IsDir(E[E[w[more]].parent])
        /\ E[w[more]].parent = w[i] /\ E[w[more]].name = names[more]
    BY <1>4, <2>1
  <2>6. Lookup(img, E[w[more]].parent, E[w[more]].name) = w[more]
    BY <2>5, LookupFinds
  <2>7. v[more] = w[more]
    BY <2>4, <2>5, <2>6
  <2> QED BY <2>1, <2>7
<1>7. \A i \in 0 .. m : i \in S
  <2> HIDE DEF S
  <2> QED BY <1>2, <1>5, <1>6, UpTo
<1> QED BY <1>2, <1>3, <1>7

\* The entry with the last name in the directory that the other names lead to is the one
\* fs_get_entry finds.
LEMMA EntryFound ==
  ASSUME NEW D, NEW path \in CallPaths, NEW E, OfTable(D[DiskOf(path)], E), NEW O, Good(E, O),
         NEW m, m = Len(NamesOf(path)) - 1, NEW w, DirWalk(E, NamesOf(path), w, m),
         NEW n \in UsedIn(E) \ {0}, E[n].parent = w[m], E[n].name = Last(path)
  PROVE  fs_get_entry(D, path) = n
<1> DEFINE img == D[DiskOf(path)]
           names == NamesOf(path)
<1>1. names \in Seq(Names) /\ names # <<>> /\ m \in Nat /\ Last(names) = Last(path)
  BY PathNames
<1>2. path_parse_parent(img, names) = w[m]
  BY <1>1, WalkFound
<1>3. w[m] \in UsedIn(E) /\ IsDir(E[w[m]]) /\ w[m] \in Nat
  <2>1. m \in 0 .. m /\ w \in [0 .. m -> UsedIn(E)] /\ IsDir(E[w[m]])
    BY <1>1 DEF DirWalk, Walk
  <2>2. w[m] \in UsedIn(E)
    BY <2>1
  <2> QED BY <2>1, <2>2, Numbers DEF UsedIn
<1>4. ~Failed(w[m])
  BY <1>3 DEF Failed
<1>5. fs_get_entry(D, path) = IF Failed(path_parse_parent(img, names)) THEN path_parse_parent(img, names)
                              ELSE Lookup(img, path_parse_parent(img, names), Last(names))
  BY <1>1 DEF fs_get_entry
<1>6. Lookup(img, E[n].parent, E[n].name) = n
  BY <1>3, LookupFinds
<1> QED BY <1>1, <1>2, <1>4, <1>5, <1>6

\* A walk stays when what is kept of a table does.
LEMMA WalkKept ==
  ASSUME NEW E \in Table, NEW O, Good(E, O), NEW F, NEW X, Kept(E, F, X), NEW names, NEW m \in Nat, NEW w,
         DirWalk(E, names, w, m)
  PROVE  DirWalk(F, names, w, m)
<1>1. /\ w \in [0 .. m -> UsedIn(E)] /\ w[0] = 0
      /\ \A i \in 0 .. m : IsDir(E[w[i]])
      /\ \A i \in 1 .. m : E[w[i]].parent = w[i - 1] /\ E[w[i]].name = names[i] /\ w[i] # 0
  BY DEF DirWalk, Walk
<1>2. ASSUME NEW i \in 0 .. m PROVE F[w[i]].flags = E[w[i]].flags /\ F[w[i]].name = E[w[i]].name /\ F[w[i]].parent = E[w[i]].parent
  <2>1. w[i] \in UsedIn(E) /\ w[i] \in EntryIndex /\ IsDir(E[w[i]])
    BY <1>1 DEF UsedIn
  <2>2. IsDir(E[E[w[i]].parent])
    BY <2>1, DirInDir
  <2> QED BY <2>1, <2>2 DEF Kept
<1>3. \A i \in 0 .. m : w[i] \in UsedIn(F) /\ IsDir(F[w[i]])
  BY <1>1, <1>2 DEF UsedIn, IsDir, T_DIR, FREE
<1>4. w \in [0 .. m -> UsedIn(F)]
  BY <1>1, <1>3
<1>5. \A i \in 1 .. m : F[w[i]].parent = w[i - 1] /\ F[w[i]].name = names[i] /\ w[i] # 0
  BY <1>1, <1>2
<1> QED BY <1>1, <1>3, <1>4, <1>5 DEF DirWalk, Walk

\* Going up from an entry of a walk stays in it.
EntriesOf(w, m) == {w[i] : i \in 0 .. m}

\* The entries of a walk are used and closed under parents.
LEMMA WalkClosed ==
  ASSUME NEW E, RootIsRoot(E), NEW names, NEW m \in Nat, NEW w, Walk(E, names, w, m)
  PROVE  EntriesOf(w, m) \subseteq UsedIn(E) /\ \A x \in EntriesOf(w, m) : E[x].parent \in EntriesOf(w, m)
<1> DEFINE W == {w[i] : i \in 0 .. m}
<1>1. ASSUME NEW i \in 0 .. m PROVE w[i] \in UsedIn(E) /\ E[w[i]].parent \in W
  <2>1. CASE i = 0
    <3>1. w[0] = 0 /\ E[0].parent = 0 /\ 0 \in 0 .. m
      BY DEF Walk, RootIsRoot
    <3> QED BY <2>1, <3>1 DEF Walk
  <2>2. CASE i # 0
    <3>1. i \in 1 .. m /\ i - 1 \in 0 .. m
      BY <2>2
    <3> QED BY <3>1 DEF Walk
  <2> QED BY <2>1, <2>2
<1> QED BY <1>1 DEF EntriesOf

\* Two walks to an entry are the same.
LEMMA SameWalk ==
  ASSUME NEW E, NEW names, NEW m \in Nat, NEW w, Walk(E, names, w, m),
         NEW names2, NEW m2 \in Nat, NEW w2, Walk(E, names2, w2, m2), w[m] = w2[m2], m <= m2
  PROVE  m = m2 /\ \A i \in 1 .. m : names[i] = names2[i]
<1> DEFINE S == {i \in 0 .. m : w[m - i] = w2[m2 - i]}
<1>1. /\ w[0] = 0 /\ w2[0] = 0
      /\ \A i \in 1 .. m : E[w[i]].parent = w[i - 1] /\ E[w[i]].name = names[i] /\ w[i] # 0
      /\ \A i \in 1 .. m2 : E[w2[i]].parent = w2[i - 1] /\ E[w2[i]].name = names2[i] /\ w2[i] # 0
  BY DEF Walk
<1>2. 0 \in S
  OBVIOUS
<1>3. ASSUME NEW i \in 0 .. m - 1, i \in S PROVE i + 1 \in S
  <2> DEFINE j == m - i
             j2 == m2 - i
             more == i + 1
  <2>1. j \in 1 .. m /\ j2 \in 1 .. m2 /\ more \in 0 .. m /\ m - more = j - 1 /\ m2 - more = j2 - 1 /\ more = i + 1
    OBVIOUS
  <2>2. w[j] = w2[j2]
    BY <1>3
  <2> HIDE DEF j, j2, more
  <2>3. w[j - 1] = w2[j2 - 1]
    BY <1>1, <2>1, <2>2
  <2> QED BY <2>1, <2>3
<1>4. \A i \in 0 .. m : i \in S
  <2> HIDE DEF S
  <2> QED BY <1>2, <1>3, UpTo
<1>5. m = m2
  <2>1. w[m - m] = w2[m2 - m]
    BY <1>4
  <2>2. w2[m2 - m] = 0 /\ m2 - m \in 0 .. m2
    BY <1>1, <2>1
  <2> QED BY <1>1, <2>2
<1>6. ASSUME NEW i \in 1 .. m PROVE names[i] = names2[i]
  <2> DEFINE j == m - i
  <2>1. j \in 0 .. m /\ m - j = i
    OBVIOUS
  <2> HIDE DEF j
  <2>2. w[m - j] = w2[m2 - j]
    BY <1>4, <2>1
  <2>3. w[i] = w2[i]
    BY <1>5, <2>1, <2>2
  <2> QED BY <1>1, <1>5, <2>3
<1> QED BY <1>5, <1>6

\* The names that lead to an entry.
LeadTo(E, names, n) == \E w : Walk(E, names, w, Len(names)) /\ w[Len(names)] = n

\* What fs_get_entry finds is led to by the names of the path.
LEMMA EntryLeads ==
  ASSUME NEW D, NEW path \in CallPaths, NEW E, OfTable(D[DiskOf(path)], E), RootIsRoot(E),
         NEW n, n = fs_get_entry(D, path), ~Failed(n)
  PROVE  n \in UsedIn(E) \ {0} /\ LeadTo(E, NamesOf(path), n)
<1>1. n # ERROR_NOT_FOUND
  BY DEF Failed, ERROR_NOT_FOUND
<1> QED BY <1>1, EntryWalk DEF LeadTo

-----------------------------------------------------------------------------
(* New entries.  A new entry, put in and listed. *)

\* The table with a new entry n in directory p, before p lists it and after.
Unreferenced(E, n, flags, p, name) == [E EXCEPT ![n] = Named(flags, p, name)]
Entered(E, n, flags, p, name) == [Unreferenced(E, n, flags, p, name) EXCEPT ![p] = Plus(E[p], n)]
\* When a new entry n can be made in directory p, and what making it does.
CanEnter(E, n, flags, p, name) ==
  /\ E \in Table /\ Good(E, {}) /\ n \in EntryIndex /\ E[n].flags = FREE
  /\ p \in EntryIndex /\ IsDir(E[p]) /\ E[p].size < SFS_ENTRYREFS /\ name \in Names /\ StoredName[name] = name
  /\ flags \in {T_DIR, T_FILE} /\ \A m \in UsedIn(E) : ~(E[m].parent = p /\ E[m].name = name)
Enters(E, n, flags, p, name) ==
  /\ Unreferenced(E, n, flags, p, name) \in Table /\ Unreferenced(E, n, flags, p, name)[p] = E[p]
  /\ Good(Unreferenced(E, n, flags, p, name), {n})
  /\ Good(Entered(E, n, flags, p, name), {}) /\ Kept(E, Entered(E, n, flags, p, name), {p})
  /\ n # p /\ Entered(E, n, flags, p, name)[n] = Named(flags, p, name)
  /\ Entered(E, n, flags, p, name)[p].size = E[p].size + 1 /\ IsDir(Entered(E, n, flags, p, name)[p])

\* A new entry that is listed in its directory leaves a good table.
LEMMA NewListed ==
  ASSUME NEW E, NEW n, NEW flags, NEW p, NEW name, CanEnter(E, n, flags, p, name)
  PROVE  Enters(E, n, flags, p, name)
<1>0. /\ E \in Table /\ Good(E, {}) /\ n \in EntryIndex /\ E[n].flags = FREE
      /\ p \in EntryIndex /\ IsDir(E[p]) /\ E[p].size < SFS_ENTRYREFS /\ name \in Names /\ StoredName[name] = name
      /\ flags \in {T_DIR, T_FILE} /\ \A m \in UsedIn(E) : ~(E[m].parent = p /\ E[m].name = name)
  BY DEF CanEnter
<1> DEFINE e == Named(flags, p, name)
           F == Unreferenced(E, n, flags, p, name)
           G == Entered(E, n, flags, p, name)
<1>1. /\ e \in Entry /\ e.flags = flags /\ e.parent = p /\ e.name = name /\ e.size = 0
  BY <1>0, Fresh
<1>2. F \in Table /\ Good(F, {} \cup {n})
  BY <1>0, NewUnlisted DEF Unreferenced
<1>3. n # p
  BY <1>0 DEF IsDir, T_DIR, FREE
<1>4. F[n] = e /\ \A m \in EntryIndex : m # n => F[m] = E[m]
  BY <1>0 DEF Table, Unreferenced
<1>5. n # 0 /\ n \in UsedIn(F)
  <2>1. n # 0
    BY <1>0 DEF Good, RootIsRoot, T_DIR, FREE
  <2>2. F[n].flags # FREE
    BY <1>0, <1>1, <1>4 DEF T_DIR, T_FILE, FREE
  <2> QED BY <1>0, <2>1, <2>2 DEF UsedIn
<1>6. G = [F EXCEPT ![p] = Plus(F[p], n)]
  BY <1>0, <1>3, <1>4 DEF Entered
<1> HIDE DEF F, G, e
<1>7. F[n].parent = p /\ F[p] = E[p]
  BY <1>0, <1>1, <1>3, <1>4
<1>8. G \in Table /\ Good(G, {})
  <2> DEFINE q == F[n].parent
             O == {}
  <2>1. q = p /\ IsDir(F[F[n].parent]) /\ F[F[n].parent].size < SFS_ENTRYREFS
    BY <1>0, <1>7
  <2>2. n \in UsedIn(F) \ {0} /\ n \notin O /\ O \in SUBSET EntryIndex /\ Good(F, O \cup {n}) /\ F \in Table
    BY <1>0, <1>2, <1>5
  <2> HIDE DEF O
  <2>3. [F EXCEPT ![F[n].parent] = Plus(F[F[n].parent], n)] \in Table /\ Good([F EXCEPT ![F[n].parent] = Plus(F[F[n].parent], n)], O)
    BY <2>1, <2>2, Link
  <2> QED BY <1>6, <1>7, <2>3 DEF O
<1>9. G[n] = e /\ G[p] = Plus(E[p], n) /\ \A m \in EntryIndex : m # n /\ m # p => G[m] = E[m]
  BY <1>0, <1>2, <1>3, <1>4, <1>6, <1>7 DEF Table
<1>10. Plus(E[p], n).flags = T_DIR /\ Plus(E[p], n).name = E[p].name /\ Plus(E[p], n).parent = E[p].parent /\ Plus(E[p], n).size = E[p].size + 1
  BY <1>0, PlusFields DEF Table
<1>11. Kept(E, G, {p})
  <2> SUFFICES ASSUME NEW m \in UsedIn(E)
               PROVE  /\ G[m].flags = E[m].flags /\ G[m].name = E[m].name /\ G[m].parent = E[m].parent
                      /\ m \notin {p} => G[m].size = E[m].size
    BY DEF Kept
  <2>1. m # n /\ m \in EntryIndex
    BY <1>0 DEF UsedIn
  <2> QED BY <1>0, <1>9, <1>10, <2>1 DEF IsDir
<1>12. IsDir(G[p]) /\ G[p].size = E[p].size + 1
  BY <1>9, <1>10 DEF IsDir
<1>13. Good(F, {n})
  BY <1>2
<1> QED BY <1>2, <1>3, <1>4, <1>7, <1>8, <1>9, <1>11, <1>12, <1>13 DEF F, G, e, Enters

\* A new entry gets the stored name.
LEMMA NewEntryIs ==
  ASSUME NEW flags, NEW p, NEW name
  PROVE  NewEntry(flags, p, name) = Named(flags, p, StoredName[name])
BY DEF NewEntry, Named

\* No entry has itself as the next one.
LEMMA NotNext ==
  ASSUME NEW E \in Table, NEW O, Good(E, O), NEW x \in EntryIndex
  PROVE  E[x].next = 0 \/ E[x].next # x
<1> SUFFICES ASSUME E[x].next # 0, E[x].next = x PROVE FALSE
  OBVIOUS
<1>1. IsFile(E[x])
  <2>1. ~IsDir(E[x])
    BY DEF Good, DirsFit
  <2>2. E[x].flags # FREE
    BY ZeroIsEntry DEF Good, FreeIsZero
  <2>3. E[x].flags \in {T_DIR, T_FILE, FREE}
    BY DEF Table, Entry
  <2> QED BY <2>1, <2>2, <2>3 DEF IsDir, IsFile
<1>2. E[x].size = E[x].size - Capacity
  BY <1>1 DEF Good, Chains
<1>3. E[x].size \in Nat
  BY DEF Table, Entry
<1> QED BY <1>2, <1>3, Numbers

-----------------------------------------------------------------------------
(* fs_create_directory. *)

\* Where something can be created.
LEMMA DestinationIs ==
  ASSUME NEW D, NEW path \in CallPaths, NEW E, OfTable(D[DiskOf(path)], E), RootIsRoot(E),
         NEW p, p = Destination(D, path), ~Failed(p)
  PROVE  /\ p = path_parse_parent(D[DiskOf(path)], NamesOf(path)) /\ p \in UsedIn(E)
         /\ \E w : Walk(E, NamesOf(path), w, Len(NamesOf(path)) - 1) /\ p = w[Len(NamesOf(path)) - 1]
         /\ \A m \in UsedIn(E) : ~(E[m].parent = p /\ E[m].name = StoredName[Last(path)])
         /\ StoredName[Last(path)] \in Names /\ StoredName[StoredName[Last(path)]] = StoredName[Last(path)]
<1> DEFINE img == D[DiskOf(path)]
           names == NamesOf(path)
           parent == path_parse_parent(img, names)
           there == Lookup(img, parent, StoredName[Last(path)])
<1>1. p = IF Failed(parent) THEN parent ELSE IF ~Failed(there) THEN ERROR_EXISTS ELSE parent
  BY DEF Destination
<1>2. names \in Seq(Names) /\ names # <<>> /\ Last(path) \in Names /\ Len(names) - 1 \in Nat
  BY PathNames
<1>3. Failed(ERROR_EXISTS) /\ Failed(ERROR_NOT_FOUND)
  BY DEF Failed, ERROR_EXISTS, ERROR_NOT_FOUND
<1>4. p = parent /\ Failed(there)
  <2> HIDE DEF parent, there
  <2> QED BY <1>1, <1>3
<1>5. \E w : Walk(E, names, w, Len(names) - 1) /\ parent = w[Len(names) - 1]
  BY <1>2, <1>3, <1>4, ParentWalk
<1>6. p \in UsedIn(E)
  <2>1. PICK w : Walk(E, names, w, Len(names) - 1) /\ parent = w[Len(names) - 1]
    BY <1>5
  <2>2. Len(names) - 1 \in 0 .. Len(names) - 1 /\ w \in [0 .. Len(names) - 1 -> UsedIn(E)]
    BY <1>2, <2>1 DEF Walk
  <2> HIDE DEF parent
  <2> QED BY <1>4, <2>1, <2>2
<1>7. OfTable(img, E)
  OBVIOUS
<1>8. \A m \in UsedIn(E) : ~(E[m].parent = parent /\ E[m].name = StoredName[Last(path)])
  <2> HIDE DEF img, parent
  <2> QED BY <1>4, <1>7, LookupIs
<1>9. StoredName[Last(path)] \in Names /\ StoredName[StoredName[Last(path)]] = StoredName[Last(path)]
  BY <1>2, NSFSDiskAssumption
<1> HIDE DEF parent
<1> QED BY <1>4, <1>5, <1>6, <1>8, <1>9 DEF parent

\* A call that has failed before it wrote anything.
Refused(t, D, d, E) == On(t, D, d, E) /\ Failed(t.res)
\* A call that has put a new entry n in directory p.
Added(t, D, d, E, n, flags, p, name) ==
  /\ On(t, D, d, Entered(E, n, flags, p, name)) /\ Good(Entered(E, n, flags, p, name), {})
  /\ Kept(E, Entered(E, n, flags, p, name), {p})
  /\ n \in EntryIndex /\ E[n].flags = FREE /\ n # p
  /\ Entered(E, n, flags, p, name)[n] = Named(flags, p, name)
  /\ Entered(E, n, flags, p, name)[p].size = E[p].size + 1 /\ IsDir(Entered(E, n, flags, p, name)[p])

\* fs_create_directory when no step of it fails.
LEMMA MkdirSteps ==
  ASSUME NEW s, NEW path, NEW d, d = DiskOf(path), NEW p, p = Destination(s.disk, path), ~Failed(p),
         NEW n, n = find_free_entry(s.disk[d]), ~Failed(n), n # p,
         NEW e, e = NewEntry(T_DIR, p, Last(path)),
         NEW c, c = write_entry(s, d, n, e), ~Failed(c.res),
         NEW t, t = TouchChain(c, d, n), ~Failed(t.res),
         NEW u, u = add_ref_in_entry(t, d, p, n), ~Failed(u.res)
  PROVE  fs_create_directory(s, path) = Return(u, n)
BY DEF fs_create_directory, Then

\* fs_create_directory adds an empty directory or changes nothing.
LEMMA CreatesDirectory ==
  ASSUME NEW d \in Disks, NEW D, NEW E, NEW s, On(s, D, d, E), Good(E, {}),
         NEW path \in CallPaths, d = DiskOf(path), NEW p, p = Destination(s.disk, path),
         Failed(p) \/ (IsDir(E[p]) /\ E[p].size < SFS_ENTRYREFS)
  PROVE  \/ Refused(fs_create_directory(s, path), D, d, E)
         \/ /\ ~Failed(p) /\ ~Failed(fs_create_directory(s, path).res)
            /\ \E n : Added(fs_create_directory(s, path), D, d, E, n, T_DIR, p, StoredName[Last(path)])
<1> DEFINE n == find_free_entry(s.disk[d])
           name == StoredName[Last(path)]
           t == fs_create_directory(s, path)
<1>1. E \in Table /\ OfTable(s.disk[d], E)
  BY OnTypes DEF On, OfTable
<1>2. CASE Failed(p)
  <2>1. t = Return(s, p)
    BY <1>2 DEF fs_create_directory
  <2>2. p \in Int
    <3>1. p = path_parse_parent(s.disk[d], NamesOf(path)) \/ p = ERROR_EXISTS
      BY DEF Destination
    <3>2. path_parse_parent(s.disk[d], NamesOf(path)) \in Int
      <4> DEFINE names == NamesOf(path)
      <4>1. names \in Seq(Names) /\ names # <<>> /\ Len(names) - 1 \in Nat
        BY PathNames
      <4>2. RootIsRoot(E)
        BY DEF Good
      <4> HIDE DEF names
      <4>3. path_parse_parent(s.disk[d], names) = ERROR_NOT_FOUND \/ \E w : Walk(E, names, w, Len(names) - 1) /\ path_parse_parent(s.disk[d], names) = w[Len(names) - 1]
        BY <1>1, <4>1, <4>2, ParentWalk
      <4>4. ASSUME NEW w, Walk(E, names, w, Len(names) - 1) PROVE w[Len(names) - 1] \in Int
        <5>1. Len(names) - 1 \in 0 .. Len(names) - 1 /\ w \in [0 .. Len(names) - 1 -> UsedIn(E)]
          BY <4>1, <4>4 DEF Walk
        <5>2. w[Len(names) - 1] \in UsedIn(E)
          BY <5>1
        <5> DEFINE x == w[Len(names) - 1]
        <5>3. x \in UsedIn(E)
          BY <5>2
        <5> HIDE DEF x
        <5>4. x \in Nat
          BY <5>3, Numbers DEF UsedIn
        <5>5. x \in Int
          BY <5>4
        <5> QED BY <5>5 DEF x
      <4> QED BY <4>3, <4>4 DEF names, ERROR_NOT_FOUND
    <3> QED BY <3>1, <3>2 DEF ERROR_EXISTS
  <2>3. On(Return(s, p), D, d, E) /\ Return(s, p).res = p
    BY <2>2, Returned
  <2> QED BY <1>2, <2>1, <2>3 DEF Refused
<1>3. CASE ~Failed(p) /\ Failed(n)
  <2>1. t = Return(s, n)
    BY <1>3 DEF fs_create_directory
  <2>2. n = ERROR_NO_SPACE
    <3>1. n = ERROR_NO_SPACE \/ n \in EntryIndex
      BY FreeEntry
    <3> HIDE DEF n
    <3>2. n \in EntryIndex => n \in Nat
      BY Numbers
    <3>3. n \in Nat => ~Failed(n)
      BY DEF Failed
    <3> QED BY <1>3, <3>1, <3>2, <3>3
  <2> HIDE DEF n, t
  <2>3. ERROR_NO_SPACE \in Int
    BY DEF ERROR_NO_SPACE
  <2>4. On(Return(s, n), D, d, E) /\ Return(s, n).res = n
    BY <2>2, <2>3, Returned
  <2> QED BY <1>3, <2>1, <2>4 DEF Refused, t
<1>4. CASE ~Failed(p) /\ ~Failed(n)
  <2>1. n \in EntryIndex /\ E[n].flags = FREE
    <3>1. n = ERROR_NO_SPACE \/ (n \in EntryIndex /\ E[n].flags = FREE)
      BY FreeEntry
    <3> HIDE DEF n
    <3> QED BY <1>4, <3>1 DEF Failed, ERROR_NO_SPACE
  <2>0. n = find_free_entry(s.disk[d])
    OBVIOUS
  <2> HIDE DEF n
  <2>2. /\ p \in UsedIn(E) /\ name \in Names /\ StoredName[name] = name
        /\ \A m \in UsedIn(E) : ~(E[m].parent = p /\ E[m].name = name)
    BY <1>1, <1>4, DestinationIs DEF Good
  <2>3. p \in EntryIndex /\ IsDir(E[p]) /\ E[p].size < SFS_ENTRYREFS /\ T_DIR \in {T_DIR, T_FILE}
    BY <1>4, <2>2 DEF UsedIn
  <2> HIDE DEF name
  <2> DEFINE F == Unreferenced(E, n, T_DIR, p, name)
             G == Entered(E, n, T_DIR, p, name)
             flags == T_DIR
             e == NewEntry(T_DIR, p, Last(path))
             c == write_entry(s, d, n, e)
             b == TouchChain(c, d, n)
             u == add_ref_in_entry(b, d, p, n)
  <2>4. /\ F \in Table /\ F[p] = E[p] /\ Good(F, {n})
        /\ Good(G, {}) /\ Kept(E, G, {p}) /\ n # p /\ G[n] = Named(T_DIR, p, name)
        /\ G[p].size = E[p].size + 1 /\ IsDir(G[p])
    <3>1. CanEnter(E, n, T_DIR, p, name)
      BY <1>1, <2>1, <2>2, <2>3 DEF CanEnter
    <3>2. Enters(E, n, T_DIR, p, name)
      BY <3>1, NewListed
    <3> QED BY <3>2 DEF F, G, Enters
  <2>5. e = Named(T_DIR, p, name) /\ e \in Entry
    <3>1. e = Named(T_DIR, p, name)
      BY NewEntryIs DEF name
    <3> QED BY <2>2, <2>3, <3>1, Fresh
  <2>6. [E EXCEPT ![n] = e] = F /\ [F EXCEPT ![p] = Plus(F[p], n)] = G
    BY <2>4, <2>5 DEF Unreferenced, Entered
  <2> HIDE DEF F, G, e
  <2>7. On(c, D, d, F) /\ c.res = NO_ERROR
    BY <2>1, <2>5, <2>6, WriteEntry
  <2> HIDE DEF c
  <2>8. On(b, D, d, F) /\ b.res = NO_ERROR
    <3>1. \A x \in EntryIndex : F[x].next = 0 \/ F[x].next # x
      BY <2>4, NotNext
    <3> QED BY <2>1, <2>7, <3>1, Touched
  <2> HIDE DEF b
  <2>9. On(u, D, d, G) /\ u.res = NO_ERROR
    <3>1. IsDir(F[p]) /\ F[p].size < SFS_ENTRYREFS
      BY <2>3, <2>4
    <3>2. F[p].next = 0
      BY <2>3, <2>4, <3>1 DEF Good, DirsFit
    <3>3. On(b, D, d, F) /\ p \in EntryIndex /\ n \in EntryIndex
      BY <2>1, <2>3, <2>8
    <3>4. /\ On(add_ref_in_entry(b, d, p, n), D, d, [F EXCEPT ![p] = Plus(F[p], n)])
          /\ add_ref_in_entry(b, d, p, n).res = NO_ERROR
      BY <3>1, <3>2, <3>3, AddRef
    <3> QED BY <2>6, <3>4
  <2> HIDE DEF u
  <2>10. ~Failed(NO_ERROR)
    BY DEF Failed, NO_ERROR
  <2>11. t = Return(u, n)
    BY <1>4, <2>0, <2>4, <2>7, <2>8, <2>9, <2>10, MkdirSteps DEF c, b, u, e
  <2>12. On(t, D, d, G) /\ t.res = n
    <3>1. n \in Int
      BY <2>1, Numbers
    <3> QED BY <2>9, <2>11, <3>1, Returned
  <2> HIDE DEF t
  <2>13. Added(t, D, d, E, n, T_DIR, p, name)
    BY <2>1, <2>4, <2>12 DEF Added, G
  <2> QED BY <1>4, <2>12, <2>13 DEF t, name
<1> QED BY <1>2, <1>3, <1>4

-----------------------------------------------------------------------------
(* fs_write_file: its steps. *)

\* What fs_write_file does once it has an entry for the file.
Touching(w, d, n, data) ==
  LET x == TouchChain(w, d, n)
  IN  IF w.res # NO_ERROR THEN w ELSE IF Failed(x.res) THEN x ELSE Return(x, Len(data))
Filling(u, d, n, offset, data) == IF Failed(u.res) THEN u ELSE WriteBytes(u, d, n, offset, data)
Sizing(s, d, n, end, truncate) ==
  LET t == EnlargeTo(s, d, n, end)
  IN  IF Failed(t.res) THEN t ELSE ShrinkTo(t, d, n, end, truncate)
Filled(s, d, n, offset, data, truncate) ==
  Touching(Filling(Sizing(s, d, n, offset + Len(data), truncate), d, n, offset, data), d, n, data)

\* Writing the data and the time keeps the table as the resizing left it.
LEMMA FillingFile ==
  ASSUME NEW d \in Disks, NEW D, NEW E, NEW F, NEW u, On(u, D, d, F), Good(F, {}),
         NEW n \in EntryIndex, Kept(E, F, {n}), IsFile(F[n]), NEW size, ~Failed(u.res) => F[n].size = size,
         NEW offset \in Nat, NEW data \in Seq(AnyByte)
  PROVE  SizedTo(Touching(Filling(u, d, n, offset, data), d, n, data), D, d, E, n, size)
<1> DEFINE w == Filling(u, d, n, offset, data)
           x == TouchChain(w, d, n)
<1>0. F \in Table
  BY OnTypes
<1>1. On(w, D, d, F) /\ (Failed(u.res) => Failed(w.res))
  <2>1. CASE Failed(u.res)
    BY <2>1 DEF Filling
  <2>2. CASE ~Failed(u.res)
    <3>1. Chains(F) /\ Refs(F)
      BY DEF Good
    <3>2. On(WriteBytes(u, d, n, offset, data), D, d, F)
      BY <3>1, Written
    <3> QED BY <2>2, <3>2 DEF Filling
  <2> QED BY <2>1, <2>2
<1> HIDE DEF w
<1>2. On(x, D, d, F) /\ x.res = NO_ERROR
  <2>1. \A y \in EntryIndex : F[y].next = 0 \/ F[y].next # y
    BY <1>0, NotNext
  <2> QED BY <1>1, <2>1, Touched
<1> HIDE DEF x
<1>3. Len(data) \in Int
  BY LenProperties
<1>4. On(Return(x, Len(data)), D, d, F) /\ Return(x, Len(data)).res = Len(data)
  BY <1>2, <1>3, Returned
<1>5. ~Failed(NO_ERROR)
  BY DEF Failed, NO_ERROR
<1> DEFINE y == Touching(w, d, n, data)
<1>6. On(y, D, d, F) /\ (Failed(w.res) => Failed(y.res))
  <2>1. CASE w.res # NO_ERROR
    BY <1>1, <2>1 DEF Touching
  <2>2. CASE w.res = NO_ERROR
    <3>1. y = Return(x, Len(data))
      BY <1>2, <1>5, <2>2 DEF Touching, x
    <3> QED BY <1>4, <1>5, <2>2, <3>1
  <2> QED BY <2>1, <2>2
<1> HIDE DEF y
<1>7. ~Failed(y.res) => F[n].size = size
  BY <1>1, <1>6
<1> QED BY <1>6, <1>7 DEF SizedTo, y, w

\* fs_write_file from the point where the entry of the file is known.
LEMMA FilledFile ==
  ASSUME NEW d \in Disks, NEW D, NEW E, NEW s, On(s, D, d, E), ~Failed(s.res), Good(E, {}),
         NEW n \in EntryIndex, IsFile(E[n]), IsDir(E[E[n].parent]),
         NEW offset \in Nat, NEW data \in Seq(AnyByte), NEW end, end = offset + Len(data),
         NEW truncate, Fits(E[n].size, end, truncate)
  PROVE  SizedTo(Filled(s, d, n, offset, data, truncate), D, d, E, n, SizeAfter(E[n].size, end, truncate))
<1> DEFINE u == Sizing(s, d, n, end, truncate)
           size == SizeAfter(E[n].size, end, truncate)
<1>1. end \in Nat
  <2>1. Len(data) \in Nat
    BY LenProperties
  <2> QED BY <2>1
<1>2. SizedTo(u, D, d, E, n, size)
  BY <1>1, Sized DEF Sizing
<1> HIDE DEF u, size
<1>3. PICK F : On(u, D, d, F) /\ Good(F, {}) /\ Kept(E, F, {n}) /\ (~Failed(u.res) => F[n].size = size)
  BY <1>2 DEF SizedTo
<1>4. IsFile(F[n])
  <2>1. n \in UsedIn(E)
    BY DEF UsedIn, IsFile, T_FILE, FREE
  <2> QED BY <1>3, <2>1 DEF Kept, IsFile
<1>5. SizedTo(Touching(Filling(u, d, n, offset, data), d, n, data), D, d, E, n, size)
  BY <1>3, <1>4, FillingFile
<1> QED BY <1>5 DEF Filled, u, size

\* The cases of fs_write_file.
LEMMA WriteRefused ==
  ASSUME NEW s, NEW path, NEW offset, NEW data, NEW create, NEW truncate, NEW d, d = DiskOf(path),
         NEW p, p = path_parse_parent(s.disk[d], NamesOf(path)), NEW found, found = fs_get_entry(s.disk, path),
         NEW new, new = find_free_entry(s.disk[d])
  PROVE  /\ Failed(found) /\ ~create => fs_write_file(s, path, offset, data, create, truncate) = Return(s, found)
         /\ ~Failed(found) /\ At(s, d, found).flags = T_DIR
              => fs_write_file(s, path, offset, data, create, truncate) = Return(s, ERROR_NOT_FOUND)
         /\ found = ERROR_NOT_FOUND /\ create /\ Failed(p)
              => fs_write_file(s, path, offset, data, create, truncate) = Return(s, p)
<1> Failed(ERROR_NOT_FOUND)
  BY DEF Failed, ERROR_NOT_FOUND
<1> QED BY DEF fs_write_file

\* That part of fs_write_file after an error.
LEMMA WriteInFileFails ==
  ASSUME NEW s, NEW d, NEW n, NEW offset, NEW data, NEW truncate, Failed(s.res)
  PROVE  WriteInFile(s, d, n, offset, data, truncate) = s
<1> ~Failed(NO_ERROR)
  BY DEF Failed, NO_ERROR
<1> QED BY DEF WriteInFile, Then, AfterSuccess

\* That part without an error before it.
LEMMA WriteInFileIs ==
  ASSUME NEW s, NEW d, NEW n, NEW offset, NEW data, NEW truncate, ~Failed(s.res)
  PROVE  WriteInFile(s, d, n, offset, data, truncate) = Filled(s, d, n, offset, data, truncate)
<1> ~Failed(NO_ERROR)
  BY DEF Failed, NO_ERROR
<1> QED BY DEF WriteInFile, Then, AfterSuccess, Filled, Touching, Filling, Sizing, EnlargeTo, ShrinkTo

\* An argument of a call that is true.
IsSet(flag) == flag = TRUE

\* fs_write_file when the file is new and no entry is free.
LEMMA WriteNoEntry ==
  ASSUME NEW s, NEW path, NEW offset, NEW data, NEW truncate, NEW d, d = DiskOf(path),
         NEW p, p = path_parse_parent(s.disk[d], NamesOf(path)), fs_get_entry(s.disk, path) = ERROR_NOT_FOUND,
         NEW new, new = find_free_entry(s.disk[d]), ~Failed(p), Failed(new), NEW create, IsSet(create),
         Return(s, new).res = new
  PROVE  fs_write_file(s, path, offset, data, create, truncate) = Return(s, new)
<1> Failed(ERROR_NOT_FOUND)
  BY DEF Failed, ERROR_NOT_FOUND
<1> QED BY WriteInFileFails DEF fs_write_file, IsSet

\* fs_write_file for a file that exists.
LEMMA WriteOld ==
  ASSUME NEW s, NEW path, NEW offset, NEW data, NEW create, NEW truncate, NEW d, d = DiskOf(path),
         NEW n, n = fs_get_entry(s.disk, path), ~Failed(n), At(s, d, n).flags # T_DIR, ~Failed(s.res)
  PROVE  fs_write_file(s, path, offset, data, create, truncate) = Filled(s, d, n, offset, data, truncate)
BY WriteInFileIs DEF fs_write_file

\* fs_write_file for a file that it creates.
LEMMA WriteNew ==
  ASSUME NEW s, NEW path, NEW offset, NEW data, NEW truncate, NEW d, d = DiskOf(path),
         NEW p, p = path_parse_parent(s.disk[d], NamesOf(path)), fs_get_entry(s.disk, path) = ERROR_NOT_FOUND,
         NEW new, new = find_free_entry(s.disk[d]), ~Failed(p), ~Failed(new), NEW create, IsSet(create),
         NEW c, c = write_entry(s, d, new, NewEntry(T_FILE, p, Last(NamesOf(path)))), ~Failed(c.res),
         NEW t, t = add_ref_in_entry(c, d, p, new), ~Failed(t.res)
  PROVE  fs_write_file(s, path, offset, data, create, truncate) = Filled(t, d, new, offset, data, truncate)
<1>1. Failed(ERROR_NOT_FOUND)
  BY DEF Failed, ERROR_NOT_FOUND
<1>2. fs_write_file(s, path, offset, data, create, truncate) = WriteInFile(t, d, new, offset, data, truncate)
  BY <1>1 DEF fs_write_file, Then, IsSet
<1>3. WriteInFile(t, d, new, offset, data, truncate) = Filled(t, d, new, offset, data, truncate)
  BY WriteInFileIs
<1> QED BY <1>2, <1>3

-----------------------------------------------------------------------------
(* fs_write_file. *)

\* What is kept of E is kept on, when what changes next was not in it.
LEMMA KeptOn ==
  ASSUME NEW E \in Table, NEW O, Good(E, O), NEW F, NEW G, NEW X, NEW Y, Kept(E, F, X), Kept(F, G, Y),
         \A m \in UsedIn(E) : m \in Y => m \in X
  PROVE  Kept(E, G, X)
<1> SUFFICES ASSUME NEW m \in UsedIn(E), IsDir(E[E[m].parent])
             PROVE  /\ G[m].flags = E[m].flags /\ G[m].name = E[m].name /\ G[m].parent = E[m].parent
                    /\ m \notin X => G[m].size = E[m].size
  BY DEF Kept
<1>1. m \in EntryIndex /\ E[m].flags # FREE /\ E[m].parent \in EntryIndex
  BY DEF Table, Entry, UsedIn
<1>2. /\ F[m].flags = E[m].flags /\ F[m].name = E[m].name /\ F[m].parent = E[m].parent
      /\ m \notin X => F[m].size = E[m].size
  BY DEF Kept
<1>3. E[m].parent \in UsedIn(E) /\ IsDir(E[E[E[m].parent].parent])
  BY <1>1, DirInDir
<1>4. F[E[m].parent].flags = E[E[m].parent].flags
  BY <1>3 DEF Kept
<1>5. m \in UsedIn(F) /\ IsDir(F[F[m].parent])
  BY <1>1, <1>2, <1>4 DEF UsedIn, IsDir
<1> QED BY <1>2, <1>5 DEF Kept

\* Results that are no success.
LEMMA RefusedBy ==
  ASSUME NEW d \in Disks, NEW D, NEW E, NEW s, On(s, D, d, E), NEW r \in Int, Failed(r)
  PROVE  Refused(Return(s, r), D, d, E)
BY Returned DEF Refused

\* path_parse_parent finds an entry or nothing.
LEMMA ParentIs ==
  ASSUME NEW img, NEW E, OfTable(img, E), RootIsRoot(E), NEW names \in Seq(Names), names # <<>>
  PROVE  LET p == path_parse_parent(img, names)
         IN  \/ p = ERROR_NOT_FOUND /\ Failed(p)
             \/ p \in UsedIn(E) /\ p \in EntryIndex /\ ~Failed(p)
<1> DEFINE p == path_parse_parent(img, names)
           l == Len(names) - 1
<1>1. l \in 0 .. l
  <2>1. Len(names) \in Nat /\ Len(names) # 0
    BY LenProperties, EmptySeq
  <2> QED BY <2>1
<1>2. p = ERROR_NOT_FOUND \/ \E w : Walk(E, names, w, l) /\ p = w[l]
  BY ParentWalk
<1> HIDE DEF p, l
<1>3. CASE p = ERROR_NOT_FOUND
  BY <1>3 DEF p, Failed, ERROR_NOT_FOUND
<1>4. CASE \E w : Walk(E, names, w, l) /\ p = w[l]
  <2>1. PICK w : Walk(E, names, w, l) /\ p = w[l]
    BY <1>4
  <2>2. p \in UsedIn(E)
    BY <1>1, <2>1 DEF Walk
  <2>3. p \in EntryIndex /\ p \in Nat
    BY <2>2, Numbers DEF UsedIn
  <2>4. ~Failed(p)
    BY <2>3 DEF Failed
  <2> QED BY <2>2, <2>3, <2>4 DEF p
<1> QED BY <1>2, <1>3, <1>4

\* A new file n in directory p.
NewFile(t, D, d, E, n, p, name, size) ==
  \E F : /\ On(t, D, d, F) /\ Good(F, {}) /\ Kept(E, F, {p})
         /\ n \in EntryIndex /\ E[n].flags = FREE /\ F[p].size = E[p].size + 1
         /\ IsFile(F[n]) /\ F[n].parent = p /\ F[n].name = name /\ (~Failed(t.res) => F[n].size = size)

\* fs_write_file for a file that exists changes that file alone.
LEMMA WritesOldFile ==
  ASSUME NEW d \in Disks, NEW D, NEW E, NEW s, On(s, D, d, E), ~Failed(s.res), Good(E, {}),
         NEW path \in CallPaths, d = DiskOf(path), NEW offset \in Nat, NEW data \in Seq(AnyByte), NEW create, NEW truncate,
         NEW n, n = fs_get_entry(s.disk, path), ~Failed(n), n \in EntryIndex, IsFile(E[n]), IsDir(E[E[n].parent]),
         NEW end, end = offset + Len(data), Fits(E[n].size, end, truncate)
  PROVE  SizedTo(fs_write_file(s, path, offset, data, create, truncate), D, d, E, n, SizeAfter(E[n].size, end, truncate))
<1>1. At(s, d, n) = E[n]
  BY OnTypes
<1>2. At(s, d, n).flags # T_DIR
  BY <1>1 DEF IsFile, T_FILE, T_DIR
<1>3. fs_write_file(s, path, offset, data, create, truncate) = Filled(s, d, n, offset, data, truncate)
  BY <1>2, WriteOld
<1>4. SizedTo(Filled(s, d, n, offset, data, truncate), D, d, E, n, SizeAfter(E[n].size, end, truncate))
  BY FilledFile
<1> QED BY <1>3, <1>4

\* The file is there, with no bytes yet.
LEMMA EmptyFile ==
  ASSUME NEW E, NEW n, NEW p, NEW name, NEW F, F = Entered(E, n, T_FILE, p, name), n \in EntryIndex, p \in EntryIndex,
         name \in Names, F[n] = Named(T_FILE, p, name), IsDir(F[p])
  PROVE  /\ IsFile(F[n]) /\ F[n].size = 0 /\ F[n].parent = p /\ F[n].name = name /\ IsDir(F[F[n].parent])
<1>1. T_FILE \in {T_DIR, T_FILE}
  OBVIOUS
<1>2. Named(T_FILE, p, name).flags = T_FILE /\ Named(T_FILE, p, name).size = 0
      /\ Named(T_FILE, p, name).parent = p /\ Named(T_FILE, p, name).name = name
  BY <1>1, Fresh
<1> QED BY <1>2 DEF IsFile

\* fs_write_file for a new file adds that file alone.
LEMMA WritesNewFile ==
  ASSUME NEW d \in Disks, NEW D, NEW E, NEW s, On(s, D, d, E), ~Failed(s.res), Good(E, {}),
         NEW path \in CallPaths, d = DiskOf(path), NEW offset \in Nat, NEW data \in Seq(AnyByte), NEW create, IsSet(create), NEW truncate,
         NEW p, p = path_parse_parent(s.disk[d], NamesOf(path)), ~Failed(p), IsDir(E[p]), E[p].size < SFS_ENTRYREFS,
         fs_get_entry(s.disk, path) = ERROR_NOT_FOUND, NEW name, name = Last(path), StoredName[name] = name,
         NEW end, end = offset + Len(data), Fits(0, end, truncate)
  PROVE  \/ Refused(fs_write_file(s, path, offset, data, create, truncate), D, d, E)
         \/ \E n : NewFile(fs_write_file(s, path, offset, data, create, truncate), D, d, E, n, p, name, SizeAfter(0, end, truncate))
<1> DEFINE names == NamesOf(path)
           t == fs_write_file(s, path, offset, data, create, truncate)
           new == find_free_entry(s.disk[d])
<1>1. E \in Table /\ OfTable(s.disk[d], E) /\ RootIsRoot(E)
  BY OnTypes DEF On, OfTable, Good
<1>2. names \in Seq(Names) /\ names # <<>> /\ Last(names) = name /\ name \in Names
  BY PathNames
<1>3. p \in UsedIn(E) /\ p \in EntryIndex
  <2>1. p = path_parse_parent(s.disk[d], names)
    OBVIOUS
  <2> HIDE DEF names
  <2> QED BY <1>1, <1>2, <2>1, ParentIs
<1>4. \A m \in UsedIn(E) : ~(E[m].parent = p /\ E[m].name = name)
  <2>1. Lookup(s.disk[d], p, name) = ERROR_NOT_FOUND
    BY <1>2 DEF fs_get_entry
  <2>2. ERROR_NOT_FOUND \notin UsedIn(E)
    BY Numbers DEF UsedIn, ERROR_NOT_FOUND
  <2> QED BY <1>1, <2>1, <2>2, LookupIs
<1>5. new = ERROR_NO_SPACE \/ (new \in EntryIndex /\ E[new].flags = FREE)
  BY FreeEntry
<1>6. new = find_free_entry(s.disk[d])
  OBVIOUS
<1> HIDE DEF new
<1>7. CASE new = ERROR_NO_SPACE
  <2>1. ERROR_NO_SPACE \in Int /\ Failed(ERROR_NO_SPACE)
    BY DEF ERROR_NO_SPACE, Failed
  <2>2. Return(s, new).res = new /\ Refused(Return(s, new), D, d, E)
    BY <1>7, <2>1, RefusedBy, Returned
  <2>3. t = Return(s, new)
    <3>1. Failed(new) /\ Return(s, new).res = new
      BY <1>7, <2>1, <2>2
    <3> QED BY <1>6, <3>1, WriteNoEntry
  <2> QED BY <2>2, <2>3
<1>8. CASE new \in EntryIndex /\ E[new].flags = FREE
  <2> DEFINE F == Unreferenced(E, new, T_FILE, p, name)
             G == Entered(E, new, T_FILE, p, name)
             e == NewEntry(T_FILE, p, Last(names))
             c == write_entry(s, d, new, e)
             u == add_ref_in_entry(c, d, p, new)
  <2>1. CanEnter(E, new, T_FILE, p, name)
    BY <1>1, <1>2, <1>3, <1>4, <1>8 DEF CanEnter
  <2>2. /\ F \in Table /\ F[p] = E[p] /\ Good(F, {new})
        /\ Good(G, {}) /\ Kept(E, G, {p}) /\ new # p /\ G[new] = Named(T_FILE, p, name)
        /\ G[p].size = E[p].size + 1 /\ IsDir(G[p])
    <3>1. Enters(E, new, T_FILE, p, name)
      BY <2>1, NewListed
    <3> QED BY <3>1 DEF Enters
  <2>3. e = Named(T_FILE, p, name) /\ e \in Entry
    <3>1. e = Named(T_FILE, p, name)
      BY <1>2, NewEntryIs
    <3>2. T_FILE \in {T_DIR, T_FILE}
      OBVIOUS
    <3> QED BY <1>2, <1>3, <3>1, <3>2, Fresh
  <2>4. [E EXCEPT ![new] = e] = F /\ [F EXCEPT ![p] = Plus(F[p], new)] = G
    BY <2>2, <2>3 DEF Unreferenced, Entered
  <2>0. G = Entered(E, new, T_FILE, p, name)
    OBVIOUS
  <2> HIDE DEF F, G, e
  <2>5. On(c, D, d, F) /\ c.res = NO_ERROR
    BY <1>8, <2>3, <2>4, WriteEntry
  <2>6. c = write_entry(s, d, new, NewEntry(T_FILE, p, Last(NamesOf(path))))
    BY DEF e
  <2> HIDE DEF c
  <2>7. On(u, D, d, G) /\ u.res = NO_ERROR
    <3>1. IsDir(F[p]) /\ F[p].size < SFS_ENTRYREFS
      BY <2>2
    <3>2. F[p].next = 0
      BY <1>3, <2>2, <3>1 DEF Good, DirsFit
    <3>3. On(c, D, d, F) /\ p \in EntryIndex /\ new \in EntryIndex
      BY <1>3, <1>8, <2>5
    <3>4. /\ On(add_ref_in_entry(c, d, p, new), D, d, [F EXCEPT ![p] = Plus(F[p], new)])
          /\ add_ref_in_entry(c, d, p, new).res = NO_ERROR
      BY <3>1, <3>2, <3>3, AddRef
    <3> QED BY <2>4, <3>4
  <2>8. u = add_ref_in_entry(c, d, p, new)
    OBVIOUS
  <2> HIDE DEF u
  <2>9. ~Failed(c.res) /\ ~Failed(u.res) /\ ~Failed(new)
    <3>1. ~Failed(NO_ERROR)
      BY DEF Failed, NO_ERROR
    <3>2. new \in Nat
      BY <1>8, Numbers
    <3> QED BY <2>5, <2>7, <3>1, <3>2 DEF Failed
  <2>10. t = Filled(u, d, new, offset, data, truncate)
    BY <1>6, <2>6, <2>8, <2>9, WriteNew
  <2>11. IsFile(G[new]) /\ G[new].size = 0 /\ G[new].parent = p /\ G[new].name = name /\ IsDir(G[G[new].parent])
    BY <1>2, <1>3, <1>8, <2>0, <2>2, EmptyFile
  <2> HIDE DEF t
  <2>12. SizedTo(t, D, d, G, new, SizeAfter(0, end, truncate))
    <3>1. Fits(G[new].size, end, truncate)
      BY <2>11
    <3>2. On(u, D, d, G) /\ ~Failed(u.res) /\ Good(G, {}) /\ new \in EntryIndex
      BY <1>8, <2>2, <2>7, <2>9
    <3>3. SizedTo(Filled(u, d, new, offset, data, truncate), D, d, G, new, SizeAfter(G[new].size, end, truncate))
      BY <2>11, <3>1, <3>2, FilledFile
    <3> QED BY <2>10, <2>11, <3>3
  <2> DEFINE size == SizeAfter(0, end, truncate)
  <2> HIDE DEF size
  <2>13. PICK H : On(t, D, d, H) /\ Good(H, {}) /\ Kept(G, H, {new}) /\ (~Failed(t.res) => H[new].size = size)
    BY <2>12 DEF SizedTo, size
  <2>14. Kept(E, H, {p})
    <3>1. \A m \in UsedIn(E) : m \in {new} => m \in {p}
      BY <1>8 DEF UsedIn
    <3> QED BY <1>1, <2>2, <2>13, <3>1, KeptOn
  <2>15. IsFile(H[new]) /\ H[new].parent = p /\ H[new].name = name
    <3>1. new \in UsedIn(G)
      BY <1>8, <2>11 DEF UsedIn, IsFile, T_FILE, FREE
    <3> QED BY <2>11, <2>13, <3>1 DEF Kept, IsFile
  <2>16. H[p].size = E[p].size + 1
    <3>1. p \in UsedIn(G)
      BY <1>3, <2>2 DEF UsedIn, IsDir, T_DIR, FREE
    <3>2. IsDir(G[G[p].parent])
      <4>1. G \in Table
        BY <2>7, OnTypes
      <4> QED BY <1>3, <2>2, <4>1, DirInDir
    <3>3. p \notin {new}
      BY <2>2
    <3> QED BY <2>2, <2>13, <3>1, <3>2, <3>3 DEF Kept
  <2>17. NewFile(t, D, d, E, new, p, name, size)
    BY <1>8, <2>13, <2>14, <2>15, <2>16 DEF NewFile
  <2> QED BY <2>17 DEF t, size
<1> QED BY <1>5, <1>7, <1>8

-----------------------------------------------------------------------------
(* fs_delete and moving references. *)

\* A call that leaves the disk in order.
Intact(t, D, d) == \E F : On(t, D, d, F) /\ Good(F, {})

\* What there is to an entry that a path leads to.
LEMMA EntryIs ==
  ASSUME NEW D, NEW path \in CallPaths, NEW E, OfTable(D[DiskOf(path)], E), RootIsRoot(E),
         NEW n, n = fs_get_entry(D, path)
  PROVE  \/ n = ERROR_NOT_FOUND /\ Failed(n)
         \/ /\ n \in UsedIn(E) \ {0} /\ ~Failed(n) /\ E[n].name = Last(path)
            /\ ~Failed(path_parse_parent(D[DiskOf(path)], NamesOf(path)))
            /\ E[n].parent = path_parse_parent(D[DiskOf(path)], NamesOf(path))
BY EntryWalk DEF Failed, ERROR_NOT_FOUND

\* fs_delete keeps a good table.
LEMMA DeletesEntry ==
  ASSUME NEW d \in Disks, NEW D, NEW E, NEW s, On(s, D, d, E), ~Failed(s.res), Good(E, {}),
         NEW path \in CallPaths, d = DiskOf(path), NEW p, p = path_parse_parent(s.disk[d], NamesOf(path)),
         Failed(p) \/ IsDir(E[p])
  PROVE  Intact(fs_delete(s, path), D, d)
<1> DEFINE n == fs_get_entry(s.disk, path)
<1>1. OfTable(s.disk[d], E) /\ RootIsRoot(E)
  BY OnTypes DEF On, OfTable, Good
<1>2. n = fs_get_entry(s.disk, path)
  OBVIOUS
<1> HIDE DEF n
<1>3. CASE n = ERROR_NOT_FOUND /\ Failed(n)
  <2>1. fs_delete(s, path) = Return(s, n)
    BY <1>2, <1>3 DEF fs_delete
  <2>2. n \in Int
    BY <1>3 DEF ERROR_NOT_FOUND
  <2>3. On(Return(s, n), D, d, E)
    BY <2>2, Returned
  <2> QED BY <2>1, <2>3 DEF Intact
<1>4. CASE n \in UsedIn(E) \ {0} /\ ~Failed(n) /\ ~Failed(p) /\ E[n].parent = p
  <2>1. fs_delete(s, path) = delete_n(s, d, n)
    BY <1>2, <1>4 DEF fs_delete
  <2>2. IsDir(E[E[n].parent])
    BY <1>4
  <2>3. After(delete_n(s, d, n), D, d, E, {}, NotBelow(E, n), n)
    BY <1>4, <2>2, DeleteEntry
  <2> QED BY <2>1, <2>3 DEF After, Intact
<1> QED BY <1>1, <1>2, <1>3, <1>4, EntryIs

\* No file or directory is in itself.
LEMMA NotItsParent ==
  ASSUME NEW E \in Table, NEW O, Good(E, O), NEW n \in UsedIn(E) \ {0}
  PROVE  E[n].parent # n
BY NotBelowIsUpward

\* A directory that is not below n: Q holds it and all that is above it.
Outside(E, n, p) ==
  \E Q \in SUBSET EntryIndex : p \in Q /\ n \notin Q /\ \A m \in Q : E[m].parent \in Q

\* The table when n is neither in its old directory nor in its new one.
Adrift(F, n, p, name) == [F EXCEPT ![n] = [F[n] EXCEPT !.name = name, !.parent = p]]
MovedEntry(e, p, name) == [e EXCEPT !.name = name, !.parent = p]

\* The fields of a moved entry.
LEMMA MovedEntryFields ==
  ASSUME NEW e \in Entry, NEW p \in EntryIndex, NEW name \in Names
  PROVE  /\ MovedEntry(e, p, name) \in Entry /\ MovedEntry(e, p, name).flags = e.flags
         /\ MovedEntry(e, p, name).parent = p /\ MovedEntry(e, p, name).name = name
BY DEF MovedEntry, Entry

\* The three steps of MoveRefs when each of them works.
LEMMA MoveSteps ==
  ASSUME NEW s, NEW d, NEW n, NEW p, NEW moved,
         NEW t, t = remove_ref_in_entry(s, d, At(s, d, n).parent, n), ~Failed(t.res),
         NEW u, u = write_entry(t, d, n, moved), ~Failed(u.res)
  PROVE  MoveRefs(s, d, n, p, moved) = add_ref_in_entry(u, d, p, n)
BY DEF MoveRefs, Then

\* The move within a disk: unlist the entry, rename it, list it again.
LEMMA MovesRefs ==
  ASSUME NEW d \in Disks, NEW D, NEW E, NEW s, On(s, D, d, E), ~Failed(s.res), Good(E, {}),
         NEW n \in UsedIn(E) \ {0}, IsDir(E[E[n].parent]), NEW p \in EntryIndex, IsDir(E[p]),
         E[p].size < SFS_ENTRYREFS \/ E[n].parent = p, Outside(E, n, p),
         NEW name \in Names, StoredName[name] = name,
         \A m \in UsedIn(E) : ~(E[m].parent = p /\ E[m].name = name)
  PROVE  Intact(MoveRefs(s, d, n, p, MovedEntry(At(s, d, n), p, name)), D, d)
         /\ MoveRefs(s, d, n, p, MovedEntry(At(s, d, n), p, name)).res = NO_ERROR
<1> DEFINE q == E[n].parent
           O == {}
<1>1. E \in Table /\ At(s, d, n) = E[n] /\ n \in EntryIndex /\ q # n
  BY OnTypes, NotItsParent DEF UsedIn
<1>2. O \in SUBSET EntryIndex /\ n \notin O /\ O \cup {n} = {n} /\ Good(E, O) /\ O = {}
  BY <1>1
<1> HIDE DEF O
<1>3. \E k : \E F : Unlisted(s, D, d, E, O, n, k, F)
  BY <1>2, Unlist
<1>4. PICK k, F : Unlisted(s, D, d, E, O, n, k, F)
  BY <1>3
<1> DEFINE t == remove_ref_in_entry(s, d, q, n)
<1>5. /\ k \in 0 .. E[q].size - 1 /\ F \in Table /\ F = [E EXCEPT ![q] = Minus(E[q], k)]
      /\ On(t, D, d, F) /\ t.res = NO_ERROR /\ Good(F, {n})
  BY <1>2, <1>4 DEF Unlisted
<1>6. SameBut(E, F, q)
  BY <1>1, <1>2, <1>4, UnlistedFields
<1> HIDE DEF t
<1>7. /\ UsedIn(F) = UsedIn(E) /\ q \in EntryIndex
      /\ \A m \in EntryIndex : m # q => F[m] = E[m]
      /\ \A m \in EntryIndex : F[m].flags = E[m].flags /\ F[m].parent = E[m].parent
  BY <1>6 DEF SameBut
<1>8. F[n] = E[n]
  BY <1>1, <1>7
<1>9. E[q] \in Entry /\ E[q].size <= SFS_ENTRYREFS /\ E[q].size \in Nat
  <2>1. E[q] \in Entry
    BY <1>1, <1>7 DEF Table
  <2>2. E[q].size <= SFS_ENTRYREFS
    BY <1>7 DEF Good, DirsFit
  <2> QED BY <2>1, <2>2 DEF Entry
<1>10. F[q].name = E[q].name /\ F[q].size = E[q].size - 1
  <2>1. F[q] = Minus(E[q], k)
    BY <1>1, <1>5, <1>7 DEF Table
  <2>2. Minus(E[q], k).name = E[q].name /\ Minus(E[q], k).size = E[q].size - 1
    BY <1>5, <1>9, MinusFields
  <2> QED BY <2>1, <2>2
<1> DEFINE G == Adrift(F, n, p, name)
           moved == MovedEntry(At(s, d, n), p, name)
           u == write_entry(t, d, n, moved)
           v == add_ref_in_entry(u, d, p, n)
<1>11. G \in Table /\ Good(G, {n})
  <2>1. PICK Q \in SUBSET EntryIndex : p \in Q /\ n \notin Q /\ \A m \in Q : E[m].parent \in Q
    BY DEF Outside
  <2>2. \A m \in Q : F[m].parent \in Q
    BY <1>7, <2>1
  <2>3. \A m \in UsedIn(F) : m # n => ~(F[m].parent = p /\ F[m].name = name)
    <3> SUFFICES ASSUME NEW m \in UsedIn(F) PROVE ~(F[m].parent = p /\ F[m].name = name)
      OBVIOUS
    <3>1. m \in UsedIn(E) /\ m \in EntryIndex
      BY <1>7 DEF UsedIn
    <3>2. F[m].parent = E[m].parent /\ F[m].name = E[m].name
      BY <1>7, <1>10, <3>1
    <3> QED BY <3>1, <3>2
  <2>4. n \in UsedIn(F) \ {0} /\ IsDir(F[F[n].parent]) /\ IsDir(F[p])
    BY <1>1, <1>7, <1>8 DEF IsDir
  <2> DEFINE O1 == {n}
  <2>5. O1 \in SUBSET EntryIndex /\ n \in O1 /\ Good(F, O1) /\ F \in Table
    BY <1>1, <1>5
  <2> HIDE DEF O1
  <2>6. [F EXCEPT ![n] = [F[n] EXCEPT !.name = name, !.parent = p]] \in Table /\ Good([F EXCEPT ![n] = [F[n] EXCEPT !.name = name, !.parent = p]], O1)
    BY <2>1, <2>2, <2>3, <2>4, <2>5, Reparent
  <2> QED BY <2>6 DEF O1, Adrift
<1>12. /\ moved \in Entry /\ moved.flags = E[n].flags /\ moved.parent = p
  <2>1. E[n] \in Entry
    BY <1>1 DEF Table
  <2>2. MovedEntry(E[n], p, name) \in Entry /\ MovedEntry(E[n], p, name).flags = E[n].flags /\ MovedEntry(E[n], p, name).parent = p
    BY <2>1, MovedEntryFields
  <2> QED BY <1>1, <2>2
<1>13. G = [F EXCEPT ![n] = moved]
  BY <1>1, <1>8 DEF Adrift, MovedEntry
<1> HIDE DEF G, moved
<1>14. On(u, D, d, G) /\ u.res = NO_ERROR
  <2>1. On(t, D, d, F) /\ n \in EntryIndex /\ moved \in Entry
    BY <1>1, <1>5, <1>12
  <2>2. On(write_entry(t, d, n, moved), D, d, [F EXCEPT ![n] = moved]) /\ write_entry(t, d, n, moved).res = NO_ERROR
    BY <2>1, WriteEntry
  <2> QED BY <1>13, <2>2
<1> HIDE DEF u
<1>15. G[n] = moved /\ \A m \in EntryIndex : m # n => G[m] = F[m]
  BY <1>1, <1>5, <1>13 DEF Table
<1>16. p # n
  BY DEF Outside
<1>17. /\ n \in UsedIn(G) \ {0} /\ G[n].parent = p /\ IsDir(G[p]) /\ G[p].size < SFS_ENTRYREFS
  <2>1. n \in UsedIn(G) /\ G[n].parent = p
    BY <1>1, <1>12, <1>15 DEF UsedIn
  <2>2. G[p] = F[p] /\ IsDir(G[p])
    BY <1>7, <1>15, <1>16 DEF IsDir
  <2>3. F[p].size < SFS_ENTRYREFS
    <3>1. CASE p = q
      BY <1>9, <1>10, <3>1, Numbers
    <3>2. CASE p # q
      BY <1>7, <3>2
    <3> QED BY <3>1, <3>2
  <2> QED BY <2>1, <2>2, <2>3
<1>18. G[p].next = 0
  BY <1>11, <1>17 DEF Good, DirsFit
<1>19. On(v, D, d, [G EXCEPT ![p] = Plus(G[p], n)]) /\ v.res = NO_ERROR
  BY <1>1, <1>14, <1>17, <1>18, AddRef
<1>20. Good([G EXCEPT ![p] = Plus(G[p], n)], {})
  <2>1. IsDir(G[G[n].parent]) /\ G[G[n].parent].size < SFS_ENTRYREFS /\ Good(G, O \cup {n})
    BY <1>2, <1>11, <1>17
  <2>2. Good([G EXCEPT ![G[n].parent] = Plus(G[G[n].parent], n)], O)
    BY <1>2, <1>11, <1>17, <2>1, Link
  <2> QED BY <1>2, <1>17, <2>2
<1> HIDE DEF v
<1>21. ~Failed(t.res) /\ ~Failed(u.res)
  BY <1>5, <1>14 DEF Failed, NO_ERROR
<1>22. MoveRefs(s, d, n, p, moved) = v
  BY <1>1, <1>21, MoveSteps DEF t, u, v
<1> QED BY <1>19, <1>20, <1>22 DEF Intact, moved

-----------------------------------------------------------------------------
(* fs_move within a disk. *)

\* A path without its last name.
LEMMA FrontIs ==
  ASSUME NEW path \in CallPaths
  PROVE  /\ Front(path) \in Seq(Disks \cup Names) /\ Len(Front(path)) = Len(path) - 1
         /\ \A i \in 1 .. Len(path) - 1 : Front(path)[i] = path[i]
<1> DEFINE l == Len(path)
           S == Disks \cup Names
           front == Front(path)
<1>1. path \in Seq(S) /\ l \in Nat /\ l > 1
  BY PathNames DEF CallPaths, AllPaths
<1>2. front = SubSeq(path, 1, l - 1)
  BY DEF Front
<1>3. \A i \in 1 .. l - 1 : path[i] \in S
  BY <1>1, ElementOfSeq
<1>4. 1 \in Int /\ l - 1 \in Int /\ 1 <= l - 1
  BY <1>1
<1> HIDE DEF front, S, l
<1>5. /\ SubSeq(path, 1, l - 1) \in Seq(S)
      /\ Len(SubSeq(path, 1, l - 1)) = IF 1 <= l - 1 THEN l - 1 - 1 + 1 ELSE 0
      /\ \A i \in 1 .. l - 1 - 1 + 1 : SubSeq(path, 1, l - 1)[i] = path[1 + i - 1]
  BY <1>3, <1>4, SubSeqProperties
<1>6. l - 1 - 1 + 1 = l - 1 /\ \A i \in 1 .. l - 1 : 1 + i - 1 = i
  BY <1>1
<1>7. front \in Seq(S) /\ Len(front) = l - 1 /\ \A i \in 1 .. l - 1 : front[i] = path[i]
  BY <1>2, <1>4, <1>5, <1>6
<1> QED BY <1>7 DEF front, l, S

\* Two paths that differ in their last name at most.
LEMMA SameFront ==
  ASSUME NEW a \in CallPaths, NEW b \in CallPaths, Front(a) = Front(b)
  PROVE  Len(a) = Len(b) /\ \A i \in 1 .. Len(a) - 1 : a[i] = b[i]
<1>1. Len(a) \in Nat /\ Len(b) \in Nat
  BY PathNames
<1>2. Len(Front(a)) = Len(a) - 1 /\ \A i \in 1 .. Len(a) - 1 : Front(a)[i] = a[i]
  BY FrontIs
<1>3. Len(Front(b)) = Len(b) - 1 /\ \A i \in 1 .. Len(b) - 1 : Front(b)[i] = b[i]
  BY FrontIs
<1> QED BY <1>1, <1>2, <1>3

\* A path whose last name is the one that an entry gets for it.
LEMMA SanitisedPath ==
  ASSUME NEW path \in CallPaths, NEW to, to = Sanitised(path)
  PROVE  /\ to \in CallPaths /\ Len(to) = Len(path) /\ DiskOf(to) = DiskOf(path)
         /\ \A i \in 1 .. Len(path) - 1 : to[i] = path[i]
         /\ Last(to) = StoredName[Last(path)] /\ StoredName[Last(to)] = Last(to)
<1> DEFINE l == Len(path)
           front == Front(path)
           last == <<StoredName[Last(path)]>>
           S == Disks \cup Names
<1>1. /\ path \in Seq(S) /\ l \in Nat /\ l > 1 /\ path[1] \in Disks
      /\ \A i \in 2 .. l : path[i] \in Names
  BY PathNames DEF CallPaths, AllPaths
<1>2. Last(path) \in Names /\ StoredName[Last(path)] \in Names /\ StoredName[StoredName[Last(path)]] = StoredName[Last(path)]
  BY PathNames, NSFSDiskAssumption
<1> HIDE DEF l
<1>3. front \in Seq(S) /\ Len(front) = l - 1 /\ \A i \in 1 .. l - 1 : front[i] = path[i]
  BY FrontIs DEF l
<1>4. last \in Seq(S) /\ Len(last) = 1 /\ last[1] = StoredName[Last(path)]
  BY <1>2
<1>5. to = front \o last
  BY DEF Sanitised
<1> HIDE DEF front, last
<1>6. to \in Seq(S) /\ Len(to) = l - 1 + 1 /\ \A i \in 1 .. l - 1 + 1 : to[i] = IF i <= l - 1 THEN front[i] ELSE last[i - (l - 1)]
  <2>1. /\ front \o last \in Seq(S) /\ Len(front \o last) = Len(front) + Len(last)
        /\ \A i \in 1 .. Len(front) + Len(last) : (front \o last)[i] = IF i <= Len(front) THEN front[i] ELSE last[i - Len(front)]
    <3> HIDE DEF S
    <3> QED BY <1>3, <1>4, ConcatProperties
  <2> QED BY <1>3, <1>4, <1>5, <2>1
<1>7. Len(to) = l
  BY <1>1, <1>6
<1>8. /\ \A i \in 1 .. l - 1 : to[i] = path[i]
      /\ to[l] = StoredName[Last(path)]
  <2>1. ASSUME NEW i \in 1 .. l - 1 PROVE to[i] = path[i]
    BY <1>1, <1>3, <1>6
  <2>2. l \in 1 .. l - 1 + 1 /\ ~(l <= l - 1) /\ l - (l - 1) = 1
    BY <1>1
  <2>3. to[l] = last[1]
    BY <1>6, <2>2
  <2> QED BY <1>4, <2>1, <2>3
<1>9. to \in CallPaths
  <2>1. to[1] \in Disks
    <3>1. 1 \in 1 .. l - 1
      BY <1>1
    <3> QED BY <1>1, <1>8, <3>1
  <2>2. ASSUME NEW i \in 2 .. l PROVE to[i] \in Names
    <3>1. CASE i = l
      BY <1>2, <1>8, <3>1
    <3>2. CASE i # l
      <4>1. i \in 1 .. l - 1
        BY <1>1, <3>2
      <4> QED BY <1>1, <1>8, <4>1
    <3> QED BY <3>1, <3>2
  <2> QED BY <1>1, <1>6, <1>7, <2>1, <2>2 DEF CallPaths, AllPaths, S
<1>10. Last(to) = StoredName[Last(path)]
  BY <1>7, <1>8 DEF Last
<1>11. DiskOf(to) = DiskOf(path)
  <2>1. Head(to) = to[1] /\ Head(path) = path[1] /\ 1 \in 1 .. l - 1
    BY <1>1, <1>6, <1>7
  <2> QED BY <1>8, <2>1 DEF DiskOf
<1> QED BY <1>2, <1>7, <1>8, <1>9, <1>10, <1>11 DEF l

\* Paths that differ in their last name only have the same parent.
LEMMA SameParent ==
  ASSUME NEW img, NEW a \in Seq(Names), NEW b \in Seq(Names), a # <<>>, b # <<>>, Len(a) = Len(b),
         \A i \in 1 .. Len(a) - 1 : a[i] = b[i]
  PROVE  path_parse_parent(img, a) = path_parse_parent(img, b)
<1> DEFINE m == Len(a) - 1
<1>0. m \in Nat /\ m = Len(b) - 1
  <2>1. Len(a) \in Nat /\ Len(a) # 0
    BY LenProperties, EmptySeq
  <2> QED BY <2>1
<1>1. PICK v : PathRuns(img, a, v)
  BY PathRunsExist
<1>2. PICK u : PathRuns(img, b, u)
  BY PathRunsExist
<1>3. /\ path_parse_parent(img, a) = v[m] /\ v[0] = 0
      /\ \A i \in 0 .. m - 1 : v[i + 1] = (IF Failed(v[i]) THEN v[i] ELSE Lookup(img, v[i], a[(i + 1)]))
  BY <1>1 DEF PathRuns
<1>4. /\ path_parse_parent(img, b) = u[m] /\ u[0] = 0
      /\ \A i \in 0 .. m - 1 : u[i + 1] = (IF Failed(u[i]) THEN u[i] ELSE Lookup(img, u[i], b[(i + 1)]))
  BY <1>0, <1>2 DEF PathRuns
<1>5. \A i \in 1 .. m : a[i] = b[i]
  OBVIOUS
<1> HIDE DEF m
<1> DEFINE S == {i \in 0 .. m : v[i] = u[i]}
<1>6. 0 \in S
  BY <1>0, <1>3, <1>4
<1>7. ASSUME NEW i \in 0 .. m - 1, i \in S PROVE i + 1 \in S
  <2> DEFINE more == i + 1
  <2>1. more = i + 1 /\ more \in 1 .. m /\ more \in 0 .. m
    BY <1>0
  <2> HIDE DEF more
  <2>2. v[i] = u[i] /\ a[more] = b[more]
    BY <1>5, <1>7, <2>1
  <2>3. v[more] = u[more]
    BY <1>3, <1>4, <2>1, <2>2
  <2> QED BY <2>1, <2>3
<1>8. \A i \in 0 .. m : i \in S
  <2> HIDE DEF S
  <2> QED BY <1>0, <1>6, <1>7, UpTo
<1> QED BY <1>0, <1>3, <1>4, <1>8

\* So the parent of a path stays the same when its last name is sanitised.
LEMMA SanitisedParent ==
  ASSUME NEW img, NEW path \in CallPaths, NEW path2 \in CallPaths, Len(path) = Len(path2),
         \A i \in 1 .. Len(path) - 1 : path[i] = path2[i]
  PROVE  path_parse_parent(img, NamesOf(path)) = path_parse_parent(img, NamesOf(path2))
<1> DEFINE a == NamesOf(path)
           b == NamesOf(path2)
<1>1. /\ a \in Seq(Names) /\ a # <<>> /\ Len(a) = Len(path) - 1 /\ Len(path) \in Nat
      /\ \A i \in 1 .. Len(path) - 1 : a[i] = path[i + 1]
  BY PathNames
<1>2. /\ b \in Seq(Names) /\ b # <<>> /\ Len(b) = Len(path) - 1
      /\ \A i \in 1 .. Len(path) - 1 : b[i] = path2[i + 1]
  BY PathNames
<1> HIDE DEF a, b
<1>3. ASSUME NEW i \in 1 .. Len(a) - 1 PROVE a[i] = b[i]
  <2>1. i \in 1 .. Len(path) - 1 /\ i + 1 \in 1 .. Len(path) - 1
    BY <1>1
  <2> QED BY <1>1, <1>2, <2>1
<1>4. path_parse_parent(img, a) = path_parse_parent(img, b)
  BY <1>1, <1>2, <1>3, SameParent
<1> QED BY <1>4 DEF a, b

\* The start of a walk.
LEMMA WalkStart ==
  ASSUME NEW E, NEW names, NEW m \in Nat, NEW w, Walk(E, names, w, m), NEW j \in 0 .. m
  PROVE  Walk(E, names, [i \in 0 .. j |-> w[i]], j)
<1> DEFINE u == [i \in 0 .. j |-> w[i]]
<1>1. /\ w \in [0 .. m -> UsedIn(E)] /\ w[0] = 0
      /\ \A i \in 1 .. m : E[w[i]].parent = w[i - 1] /\ E[w[i]].name = names[i] /\ w[i] # 0
  BY DEF Walk
<1>2. \A i \in 0 .. j : u[i] = w[i] /\ i \in 0 .. m
  OBVIOUS
<1>3. u \in [0 .. j -> UsedIn(E)] /\ u[0] = 0
  BY <1>1, <1>2
<1> HIDE DEF u
<1>4. ASSUME NEW i \in 1 .. j PROVE E[u[i]].parent = u[i - 1] /\ E[u[i]].name = names[i] /\ u[i] # 0
  <2>1. i \in 0 .. j /\ i - 1 \in 0 .. j /\ i \in 1 .. m
    OBVIOUS
  <2> QED BY <1>1, <1>2, <2>1
<1> QED BY <1>3, <1>4 DEF Walk, u

\* A destination that is not below the source.
LEMMA OutsideOf ==
  ASSUME NEW D, NEW src \in CallPaths, NEW dst \in CallPaths, NEW d, d = DiskOf(src), d = DiskOf(dst),
         NEW E, OfTable(D[d], E), RootIsRoot(E), ~IsPrefix(src, Sanitised(dst)),
         NEW n, n = fs_get_entry(D, src), ~Failed(n), NEW p, p = Destination(D, dst), ~Failed(p)
  PROVE  Outside(E, n, p)
<1> DEFINE a == NamesOf(src)
           b == NamesOf(dst)
           m == Len(a)
           l == Len(b) - 1
           to == Sanitised(dst)
<1>1. /\ a \in Seq(Names) /\ a # <<>> /\ m = Len(src) - 1 /\ Len(src) \in Nat /\ Len(src) > 1
      /\ \A i \in 1 .. Len(src) - 1 : a[i] = src[i + 1]
  BY PathNames
<1>2. /\ b \in Seq(Names) /\ b # <<>> /\ Len(b) = Len(dst) - 1 /\ Len(dst) \in Nat /\ Len(dst) > 1
      /\ \A i \in 1 .. Len(dst) - 1 : b[i] = dst[i + 1]
  BY PathNames
<1>3. m \in Nat /\ l \in Nat /\ m >= 1
  BY <1>1, <1>2
<1>4. n \in UsedIn(E) \ {0} /\ \E w : Walk(E, a, w, m) /\ w[m] = n
  <2>1. OfTable(D[DiskOf(src)], E)
    OBVIOUS
  <2>2. n \in UsedIn(E) \ {0} /\ LeadTo(E, NamesOf(src), n)
    BY <2>1, EntryLeads
  <2> QED BY <2>2 DEF LeadTo
<1>5. \E w : Walk(E, b, w, l) /\ p = w[l]
  BY DestinationIs
<1>6. PICK w : Walk(E, a, w, m) /\ w[m] = n
  BY <1>4
<1>7. PICK w2 : Walk(E, b, w2, l) /\ p = w2[l]
  BY <1>5
<1> HIDE DEF a, b, m, l
<1> DEFINE Q == EntriesOf(w2, l)
<1>8. Q \subseteq UsedIn(E) /\ \A x \in Q : E[x].parent \in Q
  BY <1>3, <1>7, WalkClosed
<1>9. p \in Q /\ Q \subseteq EntryIndex
  BY <1>3, <1>7, <1>8 DEF UsedIn, EntriesOf
<1>10. n \notin Q
  <2> SUFFICES ASSUME n \in Q PROVE FALSE
    OBVIOUS
  <2>1. PICK j \in 0 .. l : n = w2[j]
    BY DEF EntriesOf
  <2> DEFINE u == [i \in 0 .. j |-> w2[i]]
  <2>2. Walk(E, b, u, j) /\ u[j] = n /\ j \in Nat
    BY <1>3, <1>7, <2>1, WalkStart
  <2> HIDE DEF u
  <2>3. m = j /\ \A i \in 1 .. m : a[i] = b[i]
    <3>1. CASE m <= j
      BY <1>3, <1>6, <2>2, <3>1, SameWalk
    <3>2. CASE j <= m
      <4>1. j = m /\ \A i \in 1 .. j : b[i] = a[i]
        BY <1>3, <1>6, <2>2, <3>2, SameWalk
      <4> QED BY <4>1
    <3> QED BY <1>3, <2>2, <3>1, <3>2
  <2>4. m <= l /\ Len(src) = m + 1 /\ Len(dst) = l + 2
    BY <1>1, <1>2, <2>1, <2>3 DEF m, l
  <2>5. to \in CallPaths /\ Len(to) = Len(dst) /\ \A i \in 1 .. Len(dst) - 1 : to[i] = dst[i]
    BY SanitisedPath
  <2> HIDE DEF to
  <2>6. ASSUME NEW i \in 1 .. Len(src) PROVE src[i] = to[i]
    <3>1. CASE i = 1
      <4>1. src[1] = Head(src) /\ dst[1] = Head(dst)
        BY <1>1, <1>2 DEF CallPaths, AllPaths
      <4>2. 1 \in 1 .. Len(dst) - 1
        BY <1>2
      <4> QED BY <2>5, <3>1, <4>1, <4>2 DEF DiskOf
    <3>2. CASE i # 1
      <4> DEFINE j1 == i - 1
      <4>1. j1 \in 1 .. m /\ j1 + 1 = i /\ j1 \in 1 .. Len(src) - 1 /\ j1 \in 1 .. Len(dst) - 1 /\ i \in 1 .. Len(dst) - 1
        BY <1>3, <2>4, <3>2
      <4> HIDE DEF j1
      <4>2. a[j1] = src[i] /\ b[j1] = dst[i]
        BY <1>1, <1>2, <4>1
      <4> QED BY <2>3, <2>5, <4>1, <4>2
    <3> QED BY <3>1, <3>2
  <2>7. SubSeq(src, 1, Len(src)) = SubSeq(to, 1, Len(src))
    <3> DEFINE k == Len(src)
               S == Disks \cup Names
    <3>1. \A i \in 1 .. k : src[i] \in S
      BY ElementOfSeq DEF CallPaths, AllPaths
    <3>2. 1 \in Int /\ k \in Int /\ 1 <= k /\ k \in Nat
      BY <1>1
    <3>3. \A i \in 1 .. k : to[i] \in S
      BY <2>6, <3>1
    <3>4. k - 1 + 1 = k /\ \A i \in 1 .. k : 1 + i - 1 = i
      BY <3>2
    <3> HIDE DEF k, S
    <3>5. /\ SubSeq(src, 1, k) \in Seq(S)
          /\ Len(SubSeq(src, 1, k)) = k
          /\ \A i \in 1 .. k : SubSeq(src, 1, k)[i] = src[i]
      <4>1. /\ SubSeq(src, 1, k) \in Seq(S)
            /\ Len(SubSeq(src, 1, k)) = IF 1 <= k THEN k - 1 + 1 ELSE 0
            /\ \A i \in 1 .. k - 1 + 1 : SubSeq(src, 1, k)[i] = src[1 + i - 1]
        BY <3>1, <3>2, SubSeqProperties
      <4> QED BY <3>2, <3>4, <4>1
    <3>6. /\ SubSeq(to, 1, k) \in Seq(S)
          /\ Len(SubSeq(to, 1, k)) = k
          /\ \A i \in 1 .. k : SubSeq(to, 1, k)[i] = to[i]
      <4>1. /\ SubSeq(to, 1, k) \in Seq(S)
            /\ Len(SubSeq(to, 1, k)) = IF 1 <= k THEN k - 1 + 1 ELSE 0
            /\ \A i \in 1 .. k - 1 + 1 : SubSeq(to, 1, k)[i] = to[1 + i - 1]
        BY <3>2, <3>3, SubSeqProperties
      <4> QED BY <3>2, <3>4, <4>1
    <3>7. \A i \in 1 .. k : src[i] = to[i]
      BY <2>6 DEF k
    <3>8. SubSeq(src, 1, k) = SubSeq(to, 1, k)
      BY <3>5, <3>6, <3>7, SeqEqual
    <3> QED BY <3>8 DEF k
  <2>8. Len(src) <= Len(to)
    BY <1>3, <2>4, <2>5
  <2> QED BY <2>7, <2>8 DEF IsPrefix, to
<1> QED BY <1>8, <1>9, <1>10 DEF Outside

\* Destination finds an entry or an error code.
LEMMA DestinationFails ==
  ASSUME NEW D, NEW path \in CallPaths, NEW E, OfTable(D[DiskOf(path)], E), RootIsRoot(E)
  PROVE  Destination(D, path) \in Int
<1> DEFINE p == path_parse_parent(D[DiskOf(path)], NamesOf(path))
           names == NamesOf(path)
           img == D[DiskOf(path)]
<1>1. names \in Seq(Names) /\ names # <<>> /\ OfTable(img, E)
  BY PathNames
<1>2. p = path_parse_parent(img, names)
  OBVIOUS
<1>3. p \in Int
  <2> HIDE DEF p, names, img
  <2>1. p = ERROR_NOT_FOUND \/ p \in EntryIndex
    BY <1>1, <1>2, ParentIs
  <2>2. p \in EntryIndex => p \in Nat
    BY Numbers
  <2> QED BY <2>1, <2>2 DEF ERROR_NOT_FOUND
<1>4. Destination(D, path) = p \/ Destination(D, path) = ERROR_EXISTS
  BY DEF Destination
<1> HIDE DEF p
<1> QED BY <1>3, <1>4 DEF ERROR_EXISTS

\* What fs_get_entry finds is in the directory that the other names of the path lead to.
LEMMA EntryOf ==
  ASSUME NEW C, NEW path \in CallPaths, NEW d, d = DiskOf(path), NEW E, OfTable(C[d], E), RootIsRoot(E),
         NEW n, n = fs_get_entry(C, path), ~Failed(n)
  PROVE  /\ n \in UsedIn(E) \ {0} /\ ~Failed(path_parse_parent(C[d], NamesOf(path)))
         /\ E[n].parent = path_parse_parent(C[d], NamesOf(path))
<1>1. OfTable(C[DiskOf(path)], E)
  OBVIOUS
<1> QED BY <1>1, EntryIs

\* fs_move within a disk keeps a good table, unless the entry is moved below itself.
LEMMA MovesEntry ==
  ASSUME NEW d \in Disks, NEW D, NEW E, NEW s, On(s, D, d, E), ~Failed(s.res), Good(E, {}),
         NEW src \in CallPaths, NEW dst \in CallPaths, d = DiskOf(src), d = DiskOf(dst),
         NEW ps, ps = path_parse_parent(s.disk[d], NamesOf(src)), Failed(ps) \/ IsDir(E[ps]),
         NEW pd, pd = path_parse_parent(s.disk[d], NamesOf(dst)), Failed(pd) \/ IsDir(E[pd]),
         Failed(pd) \/ E[pd].size < SFS_ENTRYREFS \/ Front(src) = Front(dst),
         ~IsPrefix(src, Sanitised(dst))
  PROVE  Intact(fs_move(s, src, dst), D, d)
<1> DEFINE p == Destination(s.disk, dst)
           n == fs_get_entry(s.disk, src)
           name == StoredName[Last(dst)]
           t == MoveRefs(s, d, n, p, MovedEntry(At(s, d, n), p, name))
           v == fs_move(s, src, dst)
<1>1. E \in Table /\ OfTable(s.disk[d], E) /\ RootIsRoot(E) /\ s.disk[d] = s.disk[DiskOf(src)] /\ s.disk[d] = s.disk[DiskOf(dst)]
  BY OnTypes DEF On, OfTable, Good
<1>2. /\ Failed(p) => v = Return(s, p)
      /\ ~Failed(p) /\ Failed(n) => v = Return(s, n)
      /\ ~Failed(p) /\ ~Failed(n) /\ ~Failed(t.res) => v = Return(t, n)
  BY DEF fs_move, Then, MovedEntry
<1>3. p \in Int
  BY <1>1, DestinationFails
<1>4. p = Destination(s.disk, dst) /\ n = fs_get_entry(s.disk, src)
  OBVIOUS
<1> HIDE DEF p, n, v
<1>5. CASE Failed(p)
  <2>1. On(Return(s, p), D, d, E)
    BY <1>3, Returned
  <2> QED BY <1>2, <1>5, <2>1 DEF Intact, v
<1>6. CASE Failed(n) /\ ~Failed(p)
  <2>1. n = ERROR_NOT_FOUND
    BY <1>1, <1>4, <1>6, EntryIs
  <2>2. n \in Int
    BY <2>1 DEF ERROR_NOT_FOUND
  <2>3. On(Return(s, n), D, d, E)
    BY <2>2, Returned
  <2> QED BY <1>2, <1>6, <2>3 DEF Intact, v
<1>7. CASE ~Failed(n) /\ ~Failed(p)
  <2>1. n \in UsedIn(E) \ {0} /\ ~Failed(ps) /\ E[n].parent = ps
    <3>1. n = fs_get_entry(s.disk, src) /\ OfTable(s.disk[d], E) /\ RootIsRoot(E) /\ ~Failed(n) /\ src \in CallPaths
          /\ d = DiskOf(src)
      BY <1>1, <1>4, <1>7
    <3>2. /\ n \in UsedIn(E) \ {0} /\ ~Failed(path_parse_parent(s.disk[d], NamesOf(src)))
          /\ E[n].parent = path_parse_parent(s.disk[d], NamesOf(src))
      BY ONLY <3>1, EntryOf
    <3> QED BY <3>2
  <2>2. /\ p = pd /\ p \in UsedIn(E) /\ p \in EntryIndex
        /\ \A m \in UsedIn(E) : ~(E[m].parent = p /\ E[m].name = name)
        /\ name \in Names /\ StoredName[name] = name
    BY <1>1, <1>4, <1>7, DestinationIs DEF UsedIn
  <2> HIDE DEF name
  <2>3. IsDir(E[E[n].parent]) /\ IsDir(E[p])
    BY <1>7, <2>1, <2>2
  <2>4. E[p].size < SFS_ENTRYREFS \/ E[n].parent = p
    <3>1. CASE Front(src) = Front(dst)
      <4>1. Len(src) = Len(dst) /\ \A i \in 1 .. Len(src) - 1 : src[i] = dst[i]
        BY <3>1, SameFront
      <4>2. path_parse_parent(s.disk[d], NamesOf(src)) = path_parse_parent(s.disk[d], NamesOf(dst))
        BY <4>1, SanitisedParent
      <4> QED BY <2>1, <2>2, <4>2
    <3>2. CASE Front(src) # Front(dst)
      BY <1>7, <2>2, <3>2
    <3> QED BY <3>1, <3>2
  <2>5. Outside(E, n, p)
    BY <1>1, <1>4, <1>7, OutsideOf
  <2>6. Intact(t, D, d) /\ t.res = NO_ERROR
    BY <2>1, <2>2, <2>3, <2>4, <2>5, MovesRefs
  <2> HIDE DEF t
  <2>7. v = Return(t, n)
    BY <1>2, <1>7, <2>6 DEF Failed, NO_ERROR
  <2>8. n \in Int
    BY <2>1, Numbers DEF UsedIn
  <2>9. PICK F : On(t, D, d, F) /\ Good(F, {})
    BY <2>6 DEF Intact
  <2>10. On(Return(t, n), D, d, F)
    BY <2>8, <2>9, Returned
  <2> QED BY <2>7, <2>9, <2>10 DEF Intact, v
<1> QED BY <1>5, <1>6, <1>7

-----------------------------------------------------------------------------
(* Entries that stay where they are.  A copy makes many calls: what the later ones find where the earlier ones left it. *)

\* fs_write_file on a path that leads to a file, or to nothing.
LEMMA IntactBy ==
  ASSUME NEW t, NEW D, NEW d, NEW E, NEW n, NEW size, SizedTo(t, D, d, E, n, size)
  PROVE  Intact(t, D, d)
BY DEF SizedTo, Intact

\* A disk with a new file is intact.
LEMMA IntactNew ==
  ASSUME NEW t, NEW D, NEW d, NEW E, NEW n, NEW p, NEW name, NEW size, NewFile(t, D, d, E, n, p, name, size)
  PROVE  Intact(t, D, d)
BY DEF NewFile, Intact

\* A refused call leaves a disk intact.
LEMMA IntactRefused ==
  ASSUME NEW t, NEW D, NEW d, NEW E, Refused(t, D, d, E), Good(E, {})
  PROVE  Intact(t, D, d)
BY DEF Refused, Intact

\* fs_write_file keeps a good table.
LEMMA WritesEntry ==
  ASSUME NEW d \in Disks, NEW D, NEW E, NEW s, On(s, D, d, E), ~Failed(s.res), Good(E, {}),
         NEW path \in CallPaths, d = DiskOf(path), NEW offset \in Nat, NEW data \in Seq(AnyByte),
         NEW create, ~create \/ IsSet(create), NEW truncate,
         NEW p, p = path_parse_parent(s.disk[d], NamesOf(path)), Failed(p) \/ IsDir(E[p]),
         NEW n, n = fs_get_entry(s.disk, path),
         ~Failed(n) \/ Failed(p) \/ (E[p].size < SFS_ENTRYREFS /\ StoredName[Last(path)] = Last(path)),
         NEW end, end = offset + Len(data),
         Failed(n) => Fits(0, end, truncate), ~Failed(n) /\ IsFile(E[n]) => Fits(E[n].size, end, truncate)
  PROVE  Intact(fs_write_file(s, path, offset, data, create, truncate), D, d)
<1> DEFINE v == fs_write_file(s, path, offset, data, create, truncate)
           name == Last(path)
<1>1. E \in Table /\ OfTable(s.disk[d], E) /\ OfTable(s.disk[DiskOf(path)], E) /\ RootIsRoot(E) /\ \A m : At(s, d, m) = E[m]
  BY OnTypes DEF On, OfTable, Good
<1>2. \/ n = ERROR_NOT_FOUND /\ Failed(n)
      \/ /\ n \in UsedIn(E) \ {0} /\ ~Failed(n) /\ ~Failed(p) /\ E[n].parent = p
  <2>1. /\ n = fs_get_entry(s.disk, path) /\ OfTable(s.disk[DiskOf(path)], E) /\ RootIsRoot(E) /\ path \in CallPaths
    BY <1>1
  <2>2. \/ n = ERROR_NOT_FOUND /\ Failed(n)
        \/ /\ n \in UsedIn(E) \ {0} /\ ~Failed(n) /\ E[n].name = Last(path)
           /\ ~Failed(path_parse_parent(s.disk[DiskOf(path)], NamesOf(path)))
           /\ E[n].parent = path_parse_parent(s.disk[DiskOf(path)], NamesOf(path))
    BY ONLY <2>1, EntryIs
  <2> QED BY <2>2
<1>3. d = DiskOf(path) /\ p = path_parse_parent(s.disk[d], NamesOf(path)) /\ n = fs_get_entry(s.disk, path)
  OBVIOUS
<1> DEFINE new == find_free_entry(s.disk[d])
<1>4. /\ Failed(n) /\ ~create => v = Return(s, n)
      /\ ~Failed(n) /\ At(s, d, n).flags = T_DIR => v = Return(s, ERROR_NOT_FOUND)
      /\ n = ERROR_NOT_FOUND /\ create /\ Failed(p) => v = Return(s, p)
  BY ONLY <1>3, WriteRefused
<1>5. ASSUME NEW r \in Int, v = Return(s, r) PROVE Intact(v, D, d)
  <2> HIDE DEF v
  <2>1. On(Return(s, r), D, d, E)
    BY Returned
  <2> QED BY <1>5, <2>1 DEF Intact
<1>6. CASE n = ERROR_NOT_FOUND /\ Failed(n)
  <2>1. CASE ~create
    <3>1. n \in Int
      BY <1>6 DEF ERROR_NOT_FOUND
    <3> HIDE DEF v
    <3> QED BY <1>4, <1>5, <1>6, <2>1, <3>1 DEF v
  <2>2. CASE IsSet(create) /\ Failed(p)
    <3>1. create
      BY <2>2 DEF IsSet
    <3>2. v = Return(s, p)
      BY <1>4, <1>6, <2>2, <3>1
    <3>3. p \in Int
      <4>1. NamesOf(path) \in Seq(Names) /\ NamesOf(path) # <<>> /\ OfTable(s.disk[d], E) /\ RootIsRoot(E)
        BY <1>1, PathNames
      <4>2. p = ERROR_NOT_FOUND \/ p \in EntryIndex
        <5> DEFINE q == path_parse_parent(s.disk[d], NamesOf(path))
        <5>1. \/ q = ERROR_NOT_FOUND /\ Failed(q)
              \/ q \in UsedIn(E) /\ q \in EntryIndex /\ ~Failed(q)
          BY ONLY <4>1, ParentIs
        <5> QED BY <5>1
      <4>3. p \in EntryIndex => p \in Nat
        BY Numbers
      <4> QED BY <4>2, <4>3 DEF ERROR_NOT_FOUND
    <3> HIDE DEF v
    <3> QED BY <1>5, <3>2, <3>3 DEF v
  <2>3. CASE IsSet(create) /\ ~Failed(p)
    <3>1. IsDir(E[p]) /\ E[p].size < SFS_ENTRYREFS /\ StoredName[name] = name /\ Fits(0, end, truncate)
      BY <1>6, <2>3
    <3>2. fs_get_entry(s.disk, path) = ERROR_NOT_FOUND /\ name = Last(path)
      BY <1>6
    <3> HIDE DEF v, name
    <3> DEFINE size == SizeAfter(0, end, truncate)
    <3>3. \/ Refused(fs_write_file(s, path, offset, data, create, truncate), D, d, E)
          \/ \E m : NewFile(fs_write_file(s, path, offset, data, create, truncate), D, d, E, m, p, name, SizeAfter(0, end, truncate))
      BY <2>3, <3>1, <3>2, WritesNewFile
    <3>4. CASE Refused(fs_write_file(s, path, offset, data, create, truncate), D, d, E)
      BY ONLY <3>4, Good(E, {}), IntactRefused
    <3>5. CASE \E m : NewFile(fs_write_file(s, path, offset, data, create, truncate), D, d, E, m, p, name, SizeAfter(0, end, truncate))
      <4>1. PICK m : NewFile(fs_write_file(s, path, offset, data, create, truncate), D, d, E, m, p, name, SizeAfter(0, end, truncate))
        BY <3>5
      <4> QED BY ONLY <4>1, IntactNew
    <3> QED BY <3>3, <3>4, <3>5
  <2> QED BY <2>1, <2>2, <2>3
<1>7. CASE n \in UsedIn(E) \ {0} /\ ~Failed(n) /\ ~Failed(p) /\ E[n].parent = p
  <2>1. n \in EntryIndex /\ IsDir(E[E[n].parent])
    BY <1>7 DEF UsedIn
  <2>2. CASE At(s, d, n).flags = T_DIR
    <3>1. ERROR_NOT_FOUND \in Int
      BY DEF ERROR_NOT_FOUND
    <3>2. v = Return(s, ERROR_NOT_FOUND)
      BY <1>4, <1>7, <2>2
    <3> HIDE DEF v
    <3> QED BY <1>5, <3>1, <3>2 DEF v
  <2>3. CASE At(s, d, n).flags # T_DIR
    <3>1. IsFile(E[n])
      BY <1>1, <1>7, <2>1, <2>3 DEF UsedIn, IsFile, Table, Entry
    <3>2. Fits(E[n].size, end, truncate)
      BY <1>7, <3>1
    <3>3. SizedTo(fs_write_file(s, path, offset, data, create, truncate), D, d, E, n, SizeAfter(E[n].size, end, truncate))
      BY <1>3, <1>7, <2>1, <3>1, <3>2, WritesOldFile
    <3> QED BY ONLY <3>3, IntactBy
  <2> QED BY <2>2, <2>3
<1> QED BY <1>2, <1>6, <1>7

\* A path to entry n whose other names are directories.
InDirectories(E, path, n) ==
  /\ n \in UsedIn(E) \ {0} /\ E[n].name = Last(path)
  /\ \E w : DirWalk(E, NamesOf(path), w, Len(NamesOf(path)) - 1) /\ E[n].parent = w[Len(NamesOf(path)) - 1]

\* A path has a disk and a name at least.
LEMMA LengthLess ==
  ASSUME NEW path \in CallPaths
  PROVE  Len(NamesOf(path)) - 1 \in Nat
<1>1. Len(path) \in Nat /\ Len(path) > 1 /\ Len(NamesOf(path)) = Len(path) - 1
  BY PathNames
<1> QED BY <1>1

\* An entry that a path leads to through directories is what fs_get_entry finds.
LEMMA IsFoundIn ==
  ASSUME NEW D, NEW path \in CallPaths, NEW E, OfTable(D[DiskOf(path)], E), NEW O, Good(E, O),
         NEW n, InDirectories(E, path, n)
  PROVE  fs_get_entry(D, path) = n
<1> DEFINE m == Len(NamesOf(path)) - 1
<1>1. PICK w : DirWalk(E, NamesOf(path), w, m) /\ E[n].parent = w[m]
  BY DEF InDirectories
<1>2. n \in UsedIn(E) \ {0} /\ E[n].name = Last(path)
  BY DEF InDirectories
<1>3. m = Len(NamesOf(path)) - 1
  OBVIOUS
<1> HIDE DEF m
<1> QED BY <1>1, <1>2, <1>3, EntryFound

\* It stays so when other entries change.
LEMMA StaysIn ==
  ASSUME NEW E \in Table, NEW O, Good(E, O), NEW F, NEW X, Kept(E, F, X), NEW path \in CallPaths,
         NEW n, InDirectories(E, path, n)
  PROVE  InDirectories(F, path, n) /\ F[n].flags = E[n].flags /\ (n \notin X => F[n].size = E[n].size)
<1> DEFINE m == Len(NamesOf(path)) - 1
<1>0. m \in Nat
  BY LengthLess
<1>1. PICK w : DirWalk(E, NamesOf(path), w, m) /\ E[n].parent = w[m]
  BY DEF InDirectories
<1>2. n \in UsedIn(E) \ {0} /\ E[n].name = Last(path)
  BY DEF InDirectories
<1>3. m \in 0 .. m
  BY <1>0
<1>4. IsDir(E[E[n].parent])
  BY <1>1, <1>3 DEF DirWalk
<1>5. /\ F[n].flags = E[n].flags /\ F[n].name = E[n].name /\ F[n].parent = E[n].parent
      /\ n \notin X => F[n].size = E[n].size
  BY <1>2, <1>4 DEF Kept
<1>6. DirWalk(F, NamesOf(path), w, m)
  <2> HIDE DEF m
  <2> QED BY <1>0, <1>1, WalkKept
<1>7. n \in UsedIn(F) \ {0}
  BY <1>2, <1>5 DEF UsedIn
<1> QED BY <1>1, <1>2, <1>5, <1>6, <1>7 DEF InDirectories

\* What a call finds in a directory.
LEMMA FoundIsIn ==
  ASSUME NEW D, NEW path \in CallPaths, NEW E, OfTable(D[DiskOf(path)], E), NEW O, Good(E, O),
         NEW n, n = fs_get_entry(D, path), ~Failed(n), IsDir(E[E[n].parent])
  PROVE  InDirectories(E, path, n)
<1> DEFINE names == NamesOf(path)
           l == Len(names)
           m == l - 1
<1>0. m \in Nat /\ l \in Nat /\ m \in 0 .. l /\ l \in 1 .. l /\ m = l - 1
  <2>1. m \in Nat
    BY LengthLess
  <2>2. l \in Nat
    BY PathNames
  <2> HIDE DEF l
  <2> QED BY <2>1, <2>2
<1>1. E \in Table /\ RootIsRoot(E)
  BY DEF OfTable, Good
<1>2. n \in UsedIn(E) \ {0} /\ LeadTo(E, names, n)
  BY <1>1, EntryLeads
<1>3. PICK w : Walk(E, names, w, l) /\ w[l] = n
  BY <1>2 DEF LeadTo
<1>4. names[l] = Last(path)
  BY PathNames
<1> HIDE DEF l, m, names
<1> DEFINE u == [i \in 0 .. m |-> w[i]]
<1>5. Walk(E, names, u, m)
  BY <1>0, <1>3, WalkStart
<1>6. E[n].parent = w[m] /\ E[n].name = Last(path)
  BY <1>0, <1>3, <1>4 DEF Walk
<1>7. u[m] = w[m]
  BY <1>0
<1> HIDE DEF u
<1>8. DirWalk(E, names, u, m)
  BY <1>0, <1>1, <1>5, <1>6, <1>7, WalkDirs
<1> QED BY <1>2, <1>6, <1>7, <1>8 DEF InDirectories, m, l, names

\* The path of something in a directory.
LongerBy(b, a, name) ==
  Len(b) = Len(a) + 1 /\ b[Len(b)] = name /\ \A i \in 1 .. Len(a) : b[i] = a[i]

\* A path with one more name.
LEMMA ChildPath ==
  ASSUME NEW path \in CallPaths, NEW name \in Names, NEW more, more = Append(path, name)
  PROVE  /\ more \in CallPaths /\ DiskOf(more) = DiskOf(path) /\ Last(more) = name
         /\ LongerBy(NamesOf(more), NamesOf(path), name)
<1> DEFINE S == Disks \cup Names
           l == Len(path)
<1>1. path \in Seq(S) /\ l \in Nat /\ l > 1 /\ path[1] \in Disks /\ \A i \in 2 .. l : path[i] \in Names
  BY DEF CallPaths, AllPaths
<1>2. name \in S
  OBVIOUS
<1> HIDE DEF S
<1>3. more \in Seq(S) /\ Len(more) = l + 1 /\ more[l + 1] = name /\ \A i \in 1 .. l : more[i] = path[i]
  BY <1>1, <1>2, AppendProperties
<1>4. more \in CallPaths
  <2>1. Len(more) > 1 /\ more[1] = path[1]
    <3> HIDE DEF l
    <3> QED BY <1>1, <1>3
  <2>2. ASSUME NEW i \in 2 .. Len(more) PROVE more[i] \in Names
    <3> HIDE DEF l
    <3>1. i \in 2 .. l \/ i = l + 1
      BY <1>1, <1>3
    <3> QED BY <1>1, <1>3, <3>1
  <2> QED BY <1>1, <1>3, <2>1, <2>2 DEF CallPaths, AllPaths, S
<1>5. DiskOf(more) = DiskOf(path)
  <2>1. Head(more) = more[1] /\ Head(path) = path[1] /\ 1 \in 1 .. l
    BY <1>1, <1>3
  <2> QED BY <1>3, <2>1 DEF DiskOf
<1>6. /\ Len(NamesOf(path)) = l - 1 /\ Last(path) = path[l]
      /\ \A i \in 1 .. l - 1 : NamesOf(path)[i] = path[i + 1]
  BY PathNames
<1>7. /\ Len(NamesOf(more)) = Len(more) - 1 /\ Last(more) = more[Len(more)]
      /\ \A i \in 1 .. Len(more) - 1 : NamesOf(more)[i] = more[i + 1]
      /\ NamesOf(more)[Len(NamesOf(more))] = Last(more)
  BY <1>4, PathNames
<1> HIDE DEF l
<1>8. ASSUME NEW i \in 1 .. l - 1 PROVE NamesOf(more)[i] = NamesOf(path)[i]
  <2> DEFINE j == i + 1
  <2>1. j \in 1 .. l /\ i \in 1 .. Len(more) - 1
    BY <1>1, <1>3
  <2>2. NamesOf(more)[i] = more[j] /\ NamesOf(path)[i] = path[j]
    BY <1>6, <1>7, <2>1
  <2> HIDE DEF j
  <2> QED BY <1>3, <2>1, <2>2
<1>9. Last(more) = name /\ Len(NamesOf(more)) = l
  BY <1>1, <1>3, <1>7
<1>10. LongerBy(NamesOf(more), NamesOf(path), name)
  <2> DEFINE a == NamesOf(path)
             b == NamesOf(more)
  <2>1. Len(b) = l /\ Len(a) = l - 1 /\ b[Len(b)] = name /\ \A i \in 1 .. l - 1 : b[i] = a[i]
    BY <1>6, <1>7, <1>8, <1>9
  <2> HIDE DEF a, b
  <2>2. LongerBy(b, a, name)
    BY <1>1, <2>1 DEF LongerBy
  <2> QED BY <2>2 DEF a, b
<1> QED BY <1>4, <1>5, <1>9, <1>10

\* A walk to a directory, by the names before the last of a path.
DirsTo(E, path, n) ==
  \E w : DirWalk(E, NamesOf(path), w, Len(NamesOf(path)) - 1) /\ w[Len(NamesOf(path)) - 1] = n

\* A path with one more name goes into the directory.
LEMMA IntoDirectory ==
  ASSUME NEW E, NEW path \in CallPaths, NEW n, InDirectories(E, path, n), IsDir(E[n]),
         NEW name \in Names, NEW more, more = Append(path, name)
  PROVE  DirsTo(E, more, n)
<1> DEFINE l == Len(NamesOf(path))
           m == l - 1
           a == NamesOf(path)
           b == NamesOf(more)
<1>1. m \in Nat /\ l = m + 1 /\ l \in Nat
  <2>1. m \in Nat
    BY LengthLess
  <2>2. l \in Nat
    BY PathNames
  <2> HIDE DEF l
  <2> QED BY <2>1, <2>2
<1>2. PICK w : DirWalk(E, a, w, m) /\ E[n].parent = w[m]
  BY DEF InDirectories
<1>3. n \in UsedIn(E) \ {0} /\ E[n].name = Last(path)
  BY DEF InDirectories
<1>4. a[l] = Last(path)
  BY PathNames
<1>5. Len(b) = l + 1 /\ \A i \in 1 .. l : b[i] = a[i]
  <2>1. path \in CallPaths /\ name \in Names /\ more = Append(path, name)
    OBVIOUS
  <2>2. LongerBy(NamesOf(more), NamesOf(path), name)
    BY ONLY <2>1, ChildPath
  <2> HIDE DEF l
  <2> QED BY <2>2 DEF LongerBy, l
<1> HIDE DEF l, m, a, b
<1> DEFINE u == [i \in 0 .. l |-> IF i = l THEN n ELSE w[i]]
<1>6. /\ w \in [0 .. m -> UsedIn(E)] /\ w[0] = 0
      /\ \A i \in 1 .. m : E[w[i]].parent = w[i - 1] /\ E[w[i]].name = a[i] /\ w[i] # 0
      /\ \A i \in 0 .. m : IsDir(E[w[i]])
  BY <1>2 DEF DirWalk, Walk
<1>7. \A i \in 0 .. l : i = l \/ i \in 0 .. m
  BY <1>1
<1>8. u[l] = n /\ \A i \in 0 .. m : u[i] = w[i]
  BY <1>1
<1>9. u \in [0 .. l -> UsedIn(E)] /\ u[0] = 0
  BY <1>1, <1>3, <1>6, <1>7, <1>8
<1>10. \A i \in 0 .. l : IsDir(E[u[i]])
  BY <1>6, <1>7, <1>8
<1> HIDE DEF u
<1>11. ASSUME NEW i \in 1 .. l PROVE E[u[i]].parent = u[i - 1] /\ E[u[i]].name = b[i] /\ u[i] # 0
  <2>1. i - 1 \in 0 .. m /\ b[i] = a[i]
    BY <1>1, <1>5
  <2>2. CASE i = l
    <3>1. i - 1 = m
      BY <1>1, <2>2
    <3> QED BY <1>2, <1>3, <1>4, <1>8, <2>1, <2>2, <3>1
  <2>3. CASE i # l
    <3>1. i \in 1 .. m /\ i \in 0 .. m
      BY <1>1, <2>3
    <3> QED BY <1>6, <1>8, <2>1, <3>1
  <2> QED BY <2>2, <2>3
<1>12. DirWalk(E, b, u, l)
  BY <1>9, <1>10, <1>11 DEF DirWalk, Walk
<1>13. Len(b) - 1 = l
  BY <1>1, <1>5
<1> QED BY <1>8, <1>12, <1>13 DEF DirsTo, b

\* What a directory of a walk is found by.
LEMMA DirsToParent ==
  ASSUME NEW img, NEW E, OfTable(img, E), NEW O, Good(E, O), NEW path \in CallPaths, NEW n, DirsTo(E, path, n)
  PROVE  path_parse_parent(img, NamesOf(path)) = n
<1> DEFINE m == Len(NamesOf(path)) - 1
           names == NamesOf(path)
<1>1. PICK w : DirWalk(E, names, w, m) /\ w[m] = n
  BY DEF DirsTo
<1>2. m = Len(names) - 1 /\ names \in Seq(Names) /\ names # <<>>
  BY PathNames
<1> HIDE DEF m, names
<1>3. path_parse_parent(img, names) = w[m]
  BY <1>1, <1>2, WalkFound
<1> QED BY <1>1, <1>3 DEF names

\* Directories on the way stay directories when files change.
LEMMA DirsStay ==
  ASSUME NEW E \in Table, NEW O, Good(E, O), NEW F, NEW X, Kept(E, F, X), NEW path \in CallPaths,
         NEW n, DirsTo(E, path, n)
  PROVE  DirsTo(F, path, n)
<1> DEFINE m == Len(NamesOf(path)) - 1
           names == NamesOf(path)
<1>1. PICK w : DirWalk(E, names, w, m) /\ w[m] = n
  BY DEF DirsTo
<1>2. m \in Nat
  BY LengthLess
<1> HIDE DEF m, names
<1>3. DirWalk(F, names, w, m)
  BY <1>1, <1>2, WalkKept
<1> QED BY <1>1, <1>3 DEF DirsTo, m, names

\* An entry with the last name in the last directory is what the path leads to.
LEMMA LastIn ==
  ASSUME NEW E, NEW path \in CallPaths, NEW p, DirsTo(E, path, p),
         NEW n \in UsedIn(E) \ {0}, E[n].parent = p, E[n].name = Last(path)
  PROVE  InDirectories(E, path, n)
BY DEF DirsTo, InDirectories

\* The parent that path_parse_parent finds, when it is a directory.
LEMMA ParentDirs ==
  ASSUME NEW img, NEW E, OfTable(img, E), NEW O, Good(E, O), NEW path \in CallPaths,
         NEW p, p = path_parse_parent(img, NamesOf(path)), ~Failed(p), IsDir(E[p])
  PROVE  DirsTo(E, path, p)
<1> DEFINE m == Len(NamesOf(path)) - 1
           names == NamesOf(path)
<1>1. names \in Seq(Names) /\ names # <<>> /\ E \in Table /\ RootIsRoot(E)
  BY PathNames DEF OfTable, Good
<1>2. m \in Nat
  BY LengthLess
<1>3. p = path_parse_parent(img, names) /\ m = Len(names) - 1
  OBVIOUS
<1> HIDE DEF names
<1>4. PICK w : Walk(E, names, w, m) /\ p = w[m]
  <2>1. path_parse_parent(img, names) # ERROR_NOT_FOUND
    BY <1>3 DEF Failed, ERROR_NOT_FOUND
  <2>2. \E w : Walk(E, names, w, Len(names) - 1) /\ path_parse_parent(img, names) = w[Len(names) - 1]
    BY <1>1, <2>1, ParentWalk
  <2> QED BY <1>3, <2>2
<1> HIDE DEF m
<1>5. DirWalk(E, names, w, m)
  BY <1>1, <1>2, <1>4, WalkDirs
<1> QED BY <1>4, <1>5 DEF DirsTo, m, names

-----------------------------------------------------------------------------
(* fs_read_file.  It returns at most what it is asked for. *)

\* What a read answers.
LEMMA ReadIs ==
  ASSUME NEW D, NEW src \in CallPaths, NEW c, c = DiskOf(src), NEW img \in Image, img = D[c],
         NEW n, n = fs_get_entry(D, src), ~Failed(n), NEW size \in Nat, size = img.entry[n].size,
         NEW offset \in Nat, NEW res, res = fs_read_file(D, src, offset, BLOCK_SIZE).res,
         NEW data, data = fs_read_file(D, src, offset, BLOCK_SIZE).data
  PROVE  \/ Failed(res) /\ res \in Int
         \/ /\ ~Failed(res) /\ res \in Nat /\ data \in Seq(AnyByte) /\ Len(data) = res
            /\ res <= BLOCK_SIZE /\ (offset >= size => res = 0)
            /\ offset < size => res > 0 /\ (res = BLOCK_SIZE \/ offset + res = size)
<1> DEFINE from == Least(offset, size)
           upto == from + Least(BLOCK_SIZE, size - from)
           Lost == {i \in from .. upto - 1 : Failed(BlockOf(img, n, i))}
           bytes == [i \in 1 .. upto - from |->
                        ByteAt(img, BlockOf(img, n, from + i - 1), (from + i - 1) % BLOCK_SIZE)]
           read == fs_read_file(D, src, offset, BLOCK_SIZE)
<1>1. BLOCK_SIZE \in Nat /\ BLOCK_SIZE > 0
  BY Numbers
<1>2. /\ from \in Nat /\ upto - from \in Nat /\ upto \in Nat /\ upto - from <= BLOCK_SIZE
      /\ offset >= size => upto - from = 0
      /\ offset < size => from = offset /\ upto - from > 0 /\ (upto - from = BLOCK_SIZE \/ offset + (upto - from) = size)
  <2> DEFINE take == Least(BLOCK_SIZE, size - from)
  <2>1. from \in Nat /\ size - from \in Nat /\ (offset >= size => from = size) /\ (offset < size => from = offset)
    BY DEF Least
  <2>2. take \in Nat /\ take <= BLOCK_SIZE /\ (size - from = 0 => take = 0)
        /\ (size - from > 0 => take > 0 /\ (take = BLOCK_SIZE \/ take = size - from))
    <3> HIDE DEF from
    <3> QED BY <1>1, <2>1 DEF Least
  <2>3. upto = from + take
    OBVIOUS
  <2> HIDE DEF from, take, upto
  <2>4. upto \in Nat /\ upto - from = take
    BY <2>1, <2>2, <2>3
  <2>5. offset >= size => upto - from = 0
    BY <2>1, <2>2, <2>4
  <2>6. offset < size => from = offset /\ upto - from > 0 /\ (upto - from = BLOCK_SIZE \/ offset + (upto - from) = size)
    BY <1>1, <2>1, <2>2, <2>4
  <2> QED BY <2>1, <2>2, <2>4, <2>5, <2>6
<1>3. \/ read = [res |-> ERROR_NOT_FOUND, data |-> <<>>]
      \/ read = [res |-> upto - from, data |-> bytes]
  BY DEF fs_read_file
<1> HIDE DEF from, read
<1> DEFINE size1 == upto - from
<1>4. bytes \in Seq(AnyByte) /\ Len(bytes) = size1
  <2>1. size1 \in Nat /\ size1 = upto - from
    BY <1>2
  <2> HIDE DEF upto
  <2>2. ASSUME NEW i \in 1 .. size1
        PROVE  ByteAt(img, BlockOf(img, n, from + i - 1), (from + i - 1) % BLOCK_SIZE) \in AnyByte
    <3> DEFINE b == BlockOf(img, n, from + i - 1)
               at == from + i - 1
    <3>1. at \in Nat
      BY <1>2, <2>1
    <3> HIDE DEF at
    <3>2. (at % BLOCK_SIZE) \in 0 .. BLOCK_SIZE - 1
      BY <1>1, <3>1, DivMod
    <3> HIDE DEF b
    <3>3. b \in DataBlocks => img.block[b][(at % BLOCK_SIZE)] \in AnyByte
      BY <3>2 DEF Image, AnyByte
    <3>4. ByteAt(img, b, (at % BLOCK_SIZE)) \in AnyByte
      BY <3>3 DEF ByteAt, AnyByte
    <3> QED BY <3>4 DEF at, b
  <2>3. bytes = [i \in 1 .. size1 |-> ByteAt(img, BlockOf(img, n, from + i - 1), (from + i - 1) % BLOCK_SIZE)]
    BY <2>1
  <2> HIDE DEF bytes
  <2>4. bytes \in [1 .. size1 -> AnyByte]
    BY <2>2, <2>3
  <2> HIDE DEF size1
  <2> QED BY <2>1, <2>4 
<1> HIDE DEF bytes, upto
<1>5. CASE read = [res |-> ERROR_NOT_FOUND, data |-> <<>>]
  <2>1. res = ERROR_NOT_FOUND
    BY <1>5 DEF read
  <2> QED BY <2>1 DEF Failed, ERROR_NOT_FOUND
<1>6. CASE read = [res |-> upto - from, data |-> bytes]
  <2>1. res = upto - from /\ data = bytes
    BY <1>6 DEF read
  <2> QED BY <1>2, <1>4, <2>1 DEF Failed
<1> QED BY <1>3, <1>5, <1>6

-----------------------------------------------------------------------------
(* What is copied.  The source of a copy, on the disk that is written to or on another. *)

\* The rounds of the loop that copies a file.
CopyRuns(s, src, dst, size, v) ==
  /\ CopyBytes(s, src, dst, size) = v[(needed_blocks(size) + 1)].call
  /\ v[0] = [call |-> s, offset |-> 0, go |-> TRUE]
  /\ \A i \in 0 .. (needed_blocks(size) + 1) - 1 : v[i + 1] = CopyOnce(v[i], src, dst)

\* The rounds of this loop are a function that exists and is the one the operator evaluates.
LEMMA CopyRunsExist ==
  ASSUME NEW s, NEW src, NEW dst, NEW size, size \in Nat
  PROVE  \E v : CopyRuns(s, src, dst, size, v)
<1> DEFINE a == [call |-> s, offset |-> 0, go |-> TRUE]
           Round(z, i) == CopyOnce(z, src, dst)
           Is(m, f) == f = [i \in 0 .. m |-> IF i = 0 THEN a ELSE Round(f[i - 1], i)]
           S == {m \in 0 .. (needed_blocks(size) + 1) : \E f : Is(m, f)}
           v == CHOOSE f : Is((needed_blocks(size) + 1), f)
<1>1. (needed_blocks(size) + 1) \in Nat
  BY BlocksCover
<1>2. CopyBytes(s, src, dst, size) = v[(needed_blocks(size) + 1)].call
  BY DEF CopyBytes, Rounds
<1> HIDE DEF a, Round
<1>3. 0 \in S
  <2>1. Is(0, [i \in 0 .. 0 |-> a])
    OBVIOUS
  <2> HIDE DEF Is
  <2> QED BY <1>1, <2>1
<1>4. ASSUME NEW m \in 0 .. (needed_blocks(size) + 1) - 1, m \in S PROVE m + 1 \in S
  <2>1. PICK f : Is(m, f)
    BY <1>4
  <2> DEFINE h == [i \in 0 .. m + 1 |-> IF i = m + 1 THEN Round(f[m], m + 1) ELSE f[i]]
  <2>2. \A i \in 0 .. m : h[i] = f[i] /\ f[i] = IF i = 0 THEN a ELSE Round(f[i - 1], i)
    BY <2>1
  <2>3. h[m + 1] = Round(f[m], m + 1)
    OBVIOUS
  <2>4. \A i \in 0 .. m + 1 : h[i] = IF i = 0 THEN a ELSE Round(h[i - 1], i)
    <3> SUFFICES ASSUME NEW i \in 0 .. m + 1 PROVE h[i] = IF i = 0 THEN a ELSE Round(h[i - 1], i)
      OBVIOUS
    <3> HIDE DEF h
    <3>1. CASE i = 0
      BY <2>2, <3>1
    <3>2. CASE i \in 1 .. m
      <4>1. i - 1 \in 0 .. m /\ i \in 0 .. m /\ i # 0
        BY <3>2
      <4>2. h[i - 1] = f[i - 1] /\ h[i] = Round(f[i - 1], i)
        BY <2>2, <4>1
      <4> QED BY <4>1, <4>2
    <3>3. CASE i = m + 1
      <4>1. i - 1 = m /\ m \in 0 .. m /\ i # 0
        BY <3>3
      <4>2. h[i - 1] = f[m] /\ h[i] = Round(f[m], i)
        BY <2>2, <2>3, <3>3, <4>1
      <4> QED BY <4>1, <4>2
    <3> QED BY <3>1, <3>2, <3>3
  <2>5. Is(m + 1, h)
    BY <2>4
  <2> HIDE DEF Is
  <2> QED BY <1>1, <2>5
<1> HIDE DEF Is
<1>5. \A m \in 0 .. (needed_blocks(size) + 1) : m \in S
  <2> HIDE DEF S
  <2> QED BY <1>1, <1>3, <1>4, UpTo
<1>6. Is((needed_blocks(size) + 1), v)
  <2>1. \E f : Is((needed_blocks(size) + 1), f)
    BY <1>1, <1>5
  <2> QED BY <2>1
<1>7. v = [i \in 0 .. (needed_blocks(size) + 1) |-> IF i = 0 THEN a ELSE Round(v[i - 1], i)]
  BY <1>6 DEF Is
<1> HIDE DEF v
<1>8. v[0] = a
  BY <1>1, <1>7
<1>9. ASSUME NEW i \in 0 .. (needed_blocks(size) + 1) - 1 PROVE v[i + 1] = Round(v[i], i + 1)
  <2> DEFINE m == i + 1
  <2>1. m \in 0 .. (needed_blocks(size) + 1) /\ m # 0 /\ m - 1 = i
    BY <1>1
  <2>2. m = i + 1
    OBVIOUS
  <2> HIDE DEF m
  <2>3. v[m] = Round(v[m - 1], m)
    BY <1>7, <2>1
  <2> QED BY <2>1, <2>2, <2>3
<1> QED BY <1>2, <1>8, <1>9 DEF a, Round, CopyRuns

\* The calls of fs_copy at a depth, given those one deeper.
Deepest == [t \in CallStates |-> [p \in AllPaths \X AllPaths |-> Return(t, ERROR_IO)]]
LessDeep(copy) == [t \in CallStates |-> [p \in AllPaths \X AllPaths |-> CopyWith(copy, t, p[1], p[2])]]

\* The depths of fs_copy.
DepthRuns(s, src, dst, v) ==
  /\ fs_copy(s, src, dst) = v[NEntries][s][<<src, dst>>]
  /\ v[0] = Deepest
  /\ \A i \in 0 .. NEntries - 1 : v[i + 1] = LessDeep(v[i])

\* The rounds of this loop are a function that exists and is the one the operator evaluates.
LEMMA DepthRunsExist ==
  ASSUME NEW s, NEW src, NEW dst
  PROVE  \E v : DepthRuns(s, src, dst, v)
<1> DEFINE a == Deepest
           Round(z, i) == LessDeep(z)
           Is(m, f) == f = [i \in 0 .. m |-> IF i = 0 THEN a ELSE Round(f[i - 1], i)]
           S == {m \in 0 .. NEntries : \E f : Is(m, f)}
           v == CHOOSE f : Is(NEntries, f)
<1>1. NEntries \in Nat
  BY NSFSDiskAssumption
<1>2. fs_copy(s, src, dst) = v[NEntries][s][<<src, dst>>]
  BY DEF fs_copy, Deepest, LessDeep, Rounds
<1> HIDE DEF a, Round
<1>3. 0 \in S
  <2>1. Is(0, [i \in 0 .. 0 |-> a])
    OBVIOUS
  <2> HIDE DEF Is
  <2> QED BY <1>1, <2>1
<1>4. ASSUME NEW m \in 0 .. NEntries - 1, m \in S PROVE m + 1 \in S
  <2>1. PICK f : Is(m, f)
    BY <1>4
  <2> DEFINE h == [i \in 0 .. m + 1 |-> IF i = m + 1 THEN Round(f[m], m + 1) ELSE f[i]]
  <2>2. \A i \in 0 .. m : h[i] = f[i] /\ f[i] = IF i = 0 THEN a ELSE Round(f[i - 1], i)
    BY <2>1
  <2>3. h[m + 1] = Round(f[m], m + 1)
    OBVIOUS
  <2>4. \A i \in 0 .. m + 1 : h[i] = IF i = 0 THEN a ELSE Round(h[i - 1], i)
    <3> SUFFICES ASSUME NEW i \in 0 .. m + 1 PROVE h[i] = IF i = 0 THEN a ELSE Round(h[i - 1], i)
      OBVIOUS
    <3> HIDE DEF h
    <3>1. CASE i = 0
      BY <2>2, <3>1
    <3>2. CASE i \in 1 .. m
      <4>1. i - 1 \in 0 .. m /\ i \in 0 .. m /\ i # 0
        BY <3>2
      <4>2. h[i - 1] = f[i - 1] /\ h[i] = Round(f[i - 1], i)
        BY <2>2, <4>1
      <4> QED BY <4>1, <4>2
    <3>3. CASE i = m + 1
      <4>1. i - 1 = m /\ m \in 0 .. m /\ i # 0
        BY <3>3
      <4>2. h[i - 1] = f[m] /\ h[i] = Round(f[m], i)
        BY <2>2, <2>3, <3>3, <4>1
      <4> QED BY <4>1, <4>2
    <3> QED BY <3>1, <3>2, <3>3
  <2>5. Is(m + 1, h)
    BY <2>4
  <2> HIDE DEF Is
  <2> QED BY <1>1, <2>5
<1> HIDE DEF Is
<1>5. \A m \in 0 .. NEntries : m \in S
  <2> HIDE DEF S
  <2> QED BY <1>1, <1>3, <1>4, UpTo
<1>6. Is(NEntries, v)
  <2>1. \E f : Is(NEntries, f)
    BY <1>1, <1>5
  <2> QED BY <2>1
<1>7. v = [i \in 0 .. NEntries |-> IF i = 0 THEN a ELSE Round(v[i - 1], i)]
  BY <1>6 DEF Is
<1> HIDE DEF v
<1>8. v[0] = a
  BY <1>1, <1>7
<1>9. ASSUME NEW i \in 0 .. NEntries - 1 PROVE v[i + 1] = Round(v[i], i + 1)
  <2> DEFINE m == i + 1
  <2>1. m \in 0 .. NEntries /\ m # 0 /\ m - 1 = i
    BY <1>1
  <2>2. m = i + 1
    OBVIOUS
  <2> HIDE DEF m
  <2>3. v[m] = Round(v[m - 1], m)
    BY <1>7, <2>1
  <2> QED BY <2>1, <2>2, <2>3
<1> QED BY <1>2, <1>8, <1>9 DEF a, Round, DepthRuns

\* The entries of disk c when disk d has those in E and the others have those in D.
SourceTable(D, d, E, c) == IF c = d THEN E ELSE D[c].entry
OthersGood(D, d) == \A c \in Disks \ {d} : Good(D[c].entry, {})

\* The table of the source's disk, which may be the disk that is copied to.
LEMMA SourceTableIs ==
  ASSUME NEW d \in Disks, NEW D, NEW E, NEW s, On(s, D, d, E), Good(E, {}), OthersGood(D, d),
         NEW c \in Disks, NEW C, C = SourceTable(D, d, E, c)
  PROVE  OfTable(s.disk[c], C) /\ s.disk[c] \in Image /\ C \in Table /\ Good(C, {}) /\ \A n : At(s, c, n) = C[n]
<1>1. s.disk[c] \in Image
  BY DEF On, CallStates
<1>2. s.disk[c].entry = C
  BY DEF On, SourceTable
<1>3. C \in Table
  BY <1>1, <1>2 DEF Image, Table
<1>4. Good(C, {})
  BY DEF SourceTable, OthersGood
<1> QED BY <1>1, <1>2, <1>3, <1>4 DEF OfTable, At

\* What is copied stays where it is.
SourceAt(D, d, E, src, n) == InDirectories(SourceTable(D, d, E, DiskOf(src)), src, n)
Source(D, d, E, src, n, size) ==
  LET C == SourceTable(D, d, E, DiskOf(src))
  IN  SourceAt(D, d, E, src, n) /\ IsFile(C[n]) /\ C[n].size = size

\* The source of a copy stays where it is when new entries are added.
LEMMA SourceAtStays ==
  ASSUME NEW d \in Disks, NEW D, NEW E, E \in Table, NEW F, Good(E, {}), NEW X, Kept(E, F, X),
         NEW path \in CallPaths, NEW n, SourceAt(D, d, E, path, n)
  PROVE  SourceAt(D, d, F, path, n)
<1> DEFINE c == DiskOf(path)
<1>1. CASE c = d
  <2>1. InDirectories(E, path, n)
    BY <1>1 DEF SourceAt, SourceTable
  <2>2. InDirectories(F, path, n)
    BY <2>1, StaysIn
  <2> QED BY <1>1, <2>2 DEF SourceAt, SourceTable
<1>2. CASE c # d
  BY <1>2 DEF SourceAt, SourceTable
<1> QED BY <1>1, <1>2

\* A source file keeps its size when the copy's directory changes.
LEMMA SourceKept ==
  ASSUME NEW d \in Disks, NEW D, NEW E \in Table, Good(E, {}), NEW F, NEW p, Kept(E, F, {p}), IsDir(E[p]),
         NEW src \in CallPaths, NEW n, NEW size, Source(D, d, E, src, n, size)
  PROVE  Source(D, d, F, src, n, size)
<1> DEFINE c == DiskOf(src)
<1>1. CASE c = d
  <2>1. InDirectories(E, src, n) /\ IsFile(E[n]) /\ E[n].size = size
    BY <1>1 DEF Source, SourceAt, SourceTable
  <2>2. n \notin {p}
    BY <2>1 DEF IsFile, IsDir, T_FILE, T_DIR
  <2>3. InDirectories(F, src, n) /\ F[n].flags = E[n].flags /\ (n \notin {p} => F[n].size = E[n].size)
    BY <2>1, StaysIn
  <2> QED BY <1>1, <2>1, <2>2, <2>3 DEF Source, SourceAt, SourceTable, IsFile
<1>2. CASE c # d
  BY <1>2 DEF Source, SourceAt, SourceTable
<1> QED BY <1>1, <1>2

\* A round of the copying of a file.
IsClear(flag) == flag = FALSE

\* What a round of a copy does, case by case.
LEMMA CopySteps ==
  ASSUME NEW v, NEW src, NEW dst, NEW create, IsSet(create), NEW truncate, IsClear(truncate),
         NEW res, res = fs_read_file(v.call.disk, src, v.offset, BLOCK_SIZE).res,
         NEW data, data = fs_read_file(v.call.disk, src, v.offset, BLOCK_SIZE).data,
         NEW t, t = fs_write_file(v.call, dst, v.offset, data, create, truncate),
         NEW w, w = CopyOnce(v, src, dst)
  PROVE  /\ ~v.go => w = v
         /\ v.go /\ Failed(res) => w.call = Return(v.call, res) /\ w.offset = v.offset /\ ~w.go
         /\ v.go /\ ~Failed(res) /\ res = 0 => w.call = Return(v.call, NO_ERROR) /\ w.offset = v.offset /\ ~w.go
         /\ v.go /\ ~Failed(res) /\ res # 0 => w.call = t /\ w.offset = v.offset + res /\ (w.go => ~Failed(t.res))
<1>1. create = TRUE /\ truncate = FALSE
  BY DEF IsSet, IsClear
<1>2. t = fs_write_file(v.call, dst, v.offset, data, TRUE, FALSE)
  BY <1>1, Zenon
<1> QED BY <1>2 DEF CopyOnce

-----------------------------------------------------------------------------
(* Parts of a copy.  The first and the later writes of a copied file. *)

\* Adding a block's worth of bytes, or less, after whole blocks.
Blockwise(offset) == \E q \in Nat : offset = q * BLOCK_SIZE

\* The next block of a copy that is block by block is a growth by one block.
LEMMA NextBlock ==
  ASSUME NEW offset \in Nat, Blockwise(offset), NEW len \in Nat, len > 0, len <= BLOCK_SIZE,
         NEW end, end = offset + len, NEW truncate
  PROVE  /\ Fits(offset, end, truncate) /\ SizeAfter(offset, end, truncate) = end
         /\ len = BLOCK_SIZE => Blockwise(end)
<1> DEFINE z == BLOCK_SIZE
<1>1. PICK q \in Nat : offset = q * z
  BY DEF Blockwise
<1>2. z \in Nat /\ z > 0
  BY Numbers
<1> DEFINE m == q + 1
<1>3. m \in Nat /\ m * z = offset + z /\ m = q + 1
  BY <1>1, <1>2
<1> HIDE DEF m
<1>4. q * z >= offset /\ offset + z > q * z
  BY <1>1, <1>2
<1>5. end \in Nat /\ m * z >= end /\ end + z > m * z
  BY <1>2, <1>3
<1>6. needed_blocks(offset) = q
  BY <1>4, BlocksAre
<1>7. needed_blocks(end) = m
  BY <1>3, <1>5, BlocksAre
<1>8. Fits(offset, end, truncate)
  BY <1>3, <1>6, <1>7 DEF Fits
<1>9. SizeAfter(offset, end, truncate) = end
  BY DEF SizeAfter
<1>10. len = z => end = m * z
  BY <1>3
<1> QED BY <1>3, <1>8, <1>9, <1>10 DEF Blockwise

\* An empty copy is block by block.
LEMMA NoBytes ==
  /\ Blockwise(0) /\ 0 \in Nat
<1>1. BLOCK_SIZE \in Nat
  BY Numbers
<1>2. 0 \in Nat /\ 0 = 0 * BLOCK_SIZE
  BY <1>1
<1> QED BY <1>2 DEF Blockwise

\* The directory p has at most one entry more than in E, and what is in E is kept.
Into(t, D, d, E, p, F) ==
  On(t, D, d, F) /\ Good(F, {}) /\ Kept(E, F, {p}) /\ F[p].size <= E[p].size + 1
CopiedTo(t, D, d, E, p) == \E F : Into(t, D, d, E, p, F)
\* A file n at path "to" holds the first bytes of what is copied.
PartlyCopied(t, D, d, E, p, F, n, to, size) ==
  /\ Into(t, D, d, E, p, F) /\ n \in EntryIndex /\ E[n].flags = FREE
  /\ IsFile(F[n]) /\ InDirectories(F, to, n) /\ F[n].size = size
PartOf(t, D, d, E, p, to, size) == \E F, n : PartlyCopied(t, D, d, E, p, F, n, to, size)

\* Where something new can be made: a directory, with a reference to spare.
Target(D, d, E, to, p) ==
  /\ d = DiskOf(to) /\ DirsTo(E, to, p) /\ p \in EntryIndex /\ IsDir(E[p]) /\ E[p].size < SFS_ENTRYREFS
  /\ StoredName[Last(to)] = Last(to)
  /\ \A m \in UsedIn(E) : ~(E[m].parent = p /\ E[m].name = Last(to))

\* The first write of a copy creates the file.
LEMMA FirstPart ==
  ASSUME NEW d \in Disks, NEW D, NEW E, NEW s, On(s, D, d, E), ~Failed(s.res), Good(E, {}),
         NEW to \in CallPaths, NEW p, Target(D, d, E, to, p),
         NEW offset, offset = 0, NEW data \in Seq(AnyByte), NEW len, len = Len(data), len > 0, len <= BLOCK_SIZE,
         NEW create, IsSet(create), NEW truncate,
         NEW t, t = fs_write_file(s, to, offset, data, create, truncate)
  PROVE  CopiedTo(t, D, d, E, p) /\ (~Failed(t.res) => PartOf(t, D, d, E, p, to, len))
<1> DEFINE name == Last(to)
<1>1. E \in Table /\ OfTable(s.disk[d], E) /\ RootIsRoot(E) /\ s.disk[d] = s.disk[DiskOf(to)]
      /\ d = DiskOf(to) /\ DirsTo(E, to, p) /\ p \in EntryIndex /\ IsDir(E[p]) /\ E[p].size < SFS_ENTRYREFS
      /\ StoredName[name] = name /\ p \in Nat
  BY OnTypes, Numbers DEF On, OfTable, Good, Target
<1>2. path_parse_parent(s.disk[d], NamesOf(to)) = p
  BY <1>1, DirsToParent
<1>3. ~Failed(p)
  BY <1>1 DEF Failed
<1>4. fs_get_entry(s.disk, to) = ERROR_NOT_FOUND
  <2> DEFINE n == fs_get_entry(s.disk, to)
  <2>1. n = fs_get_entry(s.disk, to) /\ OfTable(s.disk[DiskOf(to)], E) /\ RootIsRoot(E) /\ to \in CallPaths
    BY <1>1
  <2> HIDE DEF n
  <2>2. \/ n = ERROR_NOT_FOUND /\ Failed(n)
        \/ /\ n \in UsedIn(E) \ {0} /\ ~Failed(n) /\ E[n].name = Last(to)
           /\ ~Failed(path_parse_parent(s.disk[DiskOf(to)], NamesOf(to)))
           /\ E[n].parent = path_parse_parent(s.disk[DiskOf(to)], NamesOf(to))
    BY ONLY <2>1, EntryIs
  <2>3. CASE n \in UsedIn(E) /\ E[n].name = Last(to) /\ E[n].parent = path_parse_parent(s.disk[d], NamesOf(to))
    BY <1>2, <2>3 DEF Target
  <2> QED BY <1>1, <2>1, <2>2, <2>3
<1>5. Fits(offset, offset + len, truncate) /\ SizeAfter(offset, offset + len, truncate) = offset + len
      /\ len \in Nat /\ offset \in Nat
  <2>1. len \in Nat /\ Blockwise(offset) /\ offset \in Nat
    BY NoBytes
  <2> QED BY <2>1, NextBlock
<1> DEFINE end == offset + len
<1>6. end = offset + Len(data) /\ end = len /\ Fits(0, end, truncate) /\ SizeAfter(0, end, truncate) = end
  BY <1>5
<1>7. name = Last(to) /\ p = path_parse_parent(s.disk[d], NamesOf(to))
  BY <1>2
<1> HIDE DEF name, end
<1>8. \/ Refused(t, D, d, E)
      \/ \E n : NewFile(t, D, d, E, n, p, name, SizeAfter(0, end, truncate))
  <2>1. \/ Refused(fs_write_file(s, to, offset, data, create, truncate), D, d, E)
        \/ \E n : NewFile(fs_write_file(s, to, offset, data, create, truncate), D, d, E, n, p, name, SizeAfter(0, end, truncate))
    BY <1>1, <1>3, <1>4, <1>5, <1>6, <1>7, WritesNewFile
  <2> QED BY <2>1
<1>9. CASE Refused(t, D, d, E)
  <2>1. Kept(E, E, {p})
    BY DEF Kept
  <2>2. E[p].size \in Nat
    BY <1>1 DEF Table, Entry
  <2> QED BY <1>9, <2>1, <2>2 DEF Refused, CopiedTo, Into
<1>10. CASE \E n : NewFile(t, D, d, E, n, p, name, SizeAfter(0, end, truncate))
  <2>1. PICK n : NewFile(t, D, d, E, n, p, name, SizeAfter(0, end, truncate))
    BY <1>10
  <2>2. PICK F : /\ On(t, D, d, F) /\ Good(F, {}) /\ Kept(E, F, {p})
                 /\ n \in EntryIndex /\ E[n].flags = FREE /\ F[p].size = E[p].size + 1
                 /\ IsFile(F[n]) /\ F[n].parent = p /\ F[n].name = name /\ (~Failed(t.res) => F[n].size = SizeAfter(0, end, truncate))
    BY <2>1 DEF NewFile
  <2>3. E[p].size \in Nat
    BY <1>1 DEF Table, Entry
  <2>4. Into(t, D, d, E, p, F)
    BY <2>2, <2>3 DEF Into
  <2>5. DirsTo(F, to, p)
    BY <1>1, <2>2, DirsStay
  <2>6. n \in UsedIn(F) \ {0}
    BY <2>2 DEF Good, RootIsRoot, UsedIn, IsFile, T_FILE, T_DIR, FREE
  <2>7. InDirectories(F, to, n)
    BY <1>7, <2>2, <2>5, <2>6, LastIn
  <2>8. ~Failed(t.res) => PartlyCopied(t, D, d, E, p, F, n, to, len)
    BY <1>6, <2>2, <2>4, <2>7 DEF PartlyCopied
  <2> QED BY <2>4, <2>8 DEF CopiedTo, PartOf
<1> QED BY <1>8, <1>9, <1>10

\* A later write of a copy makes the file longer.
LEMMA NextPart ==
  ASSUME NEW d \in Disks, NEW D, NEW E \in Table, NEW s, ~Failed(s.res), Good(E, {}),
         NEW to \in CallPaths, d = DiskOf(to), NEW p \in EntryIndex, IsDir(E[p]),
         NEW offset \in Nat, Blockwise(offset), PartOf(s, D, d, E, p, to, offset),
         NEW data \in Seq(AnyByte), NEW len, len = Len(data), len > 0, len <= BLOCK_SIZE,
         NEW create, NEW truncate, NEW more, more = offset + len,
         NEW t, t = fs_write_file(s, to, offset, data, create, truncate)
  PROVE  CopiedTo(t, D, d, E, p) /\ (~Failed(t.res) => PartOf(t, D, d, E, p, to, more))
<1>1. PICK F, n : PartlyCopied(s, D, d, E, p, F, n, to, offset)
  BY DEF PartOf
<1>2. /\ On(s, D, d, F) /\ Good(F, {}) /\ Kept(E, F, {p}) /\ F[p].size <= E[p].size + 1
      /\ n \in EntryIndex /\ E[n].flags = FREE /\ IsFile(F[n]) /\ InDirectories(F, to, n) /\ F[n].size = offset
  BY <1>1 DEF PartlyCopied, Into
<1>3. F \in Table /\ OfTable(s.disk[DiskOf(to)], F)
  BY <1>2, OnTypes DEF On, OfTable
<1>4. n = fs_get_entry(s.disk, to)
  BY <1>2, <1>3, IsFoundIn
<1>5. ~Failed(n)
  BY <1>2, Numbers DEF Failed
<1>6. IsDir(F[F[n].parent])
  <2> DEFINE m == Len(NamesOf(to)) - 1
  <2>1. PICK w : DirWalk(F, NamesOf(to), w, m) /\ F[n].parent = w[m]
    BY <1>2 DEF InDirectories
  <2>2. m \in 0 .. m
    BY LengthLess
  <2> QED BY <2>1, <2>2 DEF DirWalk
<1>7. len \in Nat /\ Fits(F[n].size, more, truncate) /\ SizeAfter(F[n].size, more, truncate) = more
  <2>1. len \in Nat
    OBVIOUS
  <2>2. Fits(offset, more, truncate) /\ SizeAfter(offset, more, truncate) = more
    BY <2>1, NextBlock
  <2> QED BY <1>2, <2>1, <2>2
<1>8. SizedTo(t, D, d, F, n, more)
  <2>1. more = offset + Len(data)
    OBVIOUS
  <2>2. SizedTo(fs_write_file(s, to, offset, data, create, truncate), D, d, F, n, SizeAfter(F[n].size, more, truncate))
    BY <1>2, <1>4, <1>5, <1>6, <1>7, <2>1, WritesOldFile
  <2> QED BY <1>7, <2>2
<1>9. PICK G : On(t, D, d, G) /\ Good(G, {}) /\ Kept(F, G, {n}) /\ (~Failed(t.res) => G[n].size = more)
  BY <1>8 DEF SizedTo
<1>10. Kept(E, G, {p})
  <2>1. \A m \in UsedIn(E) : m \in {n} => m \in {p}
    BY <1>2 DEF UsedIn
  <2> QED BY <1>2, <1>9, <2>1, KeptOn
<1>11. G[p].size = F[p].size
  <2>1. p \in UsedIn(E) /\ IsDir(E[E[p].parent])
    BY DirInDir
  <2>2. IsDir(F[p])
    BY <1>2, <2>1 DEF Kept, IsDir
  <2>3. p \in UsedIn(F) /\ IsDir(F[F[p].parent])
    BY <1>2, <1>3, <2>2, DirInDir
  <2>4. p # n
    BY <1>2, <2>2 DEF IsDir, IsFile, T_DIR, T_FILE
  <2> QED BY <1>9, <2>3, <2>4 DEF Kept
<1>12. Into(t, D, d, E, p, G)
  BY <1>2, <1>9, <1>10, <1>11 DEF Into
<1>13. InDirectories(G, to, n) /\ G[n].flags = F[n].flags
  <2> QED BY <1>2, <1>3, <1>9, StaysIn
<1>14. ~Failed(t.res) => PartlyCopied(t, D, d, E, p, G, n, to, more)
  BY <1>2, <1>9, <1>12, <1>13 DEF PartlyCopied, IsFile
<1> QED BY <1>12, <1>14 DEF CopiedTo, PartOf

-----------------------------------------------------------------------------
(* Copying a file. *)

\* Setting the result does not change a copy.
LEMMA CopiedReturn ==
  ASSUME NEW d \in Disks, NEW D, NEW E, NEW p, NEW t, CopiedTo(t, D, d, E, p), NEW r \in Int
  PROVE  CopiedTo(Return(t, r), D, d, E, p)
<1>1. PICK F : Into(t, D, d, E, p, F)
  BY DEF CopiedTo
<1>2. On(t, D, d, F)
  BY <1>1 DEF Into
<1>3. On(Return(t, r), D, d, F)
  BY <1>2, Returned
<1> QED BY <1>1, <1>3 DEF Into, CopiedTo

\* A table that is not changed is a copy of nothing.
LEMMA CopiedNothing ==
  ASSUME NEW d \in Disks, NEW D, NEW E, NEW t, On(t, D, d, E), Good(E, {}), NEW p \in EntryIndex
  PROVE  CopiedTo(t, D, d, E, p)
<1>1. Kept(E, E, {p})
  BY DEF Kept
<1>2. E[p].size \in Nat
  BY OnTypes DEF Table, Entry
<1> QED BY <1>1, <1>2 DEF CopiedTo, Into

\* What is read of it.
LEMMA SourceRead ==
  ASSUME NEW d \in Disks, NEW D, NEW E, NEW s, On(s, D, d, E), Good(E, {}), OthersGood(D, d),
         NEW src \in CallPaths, NEW n, NEW size, Source(D, d, E, src, n, size),
         NEW offset \in Nat, NEW res, res = fs_read_file(s.disk, src, offset, BLOCK_SIZE).res,
         NEW data, data = fs_read_file(s.disk, src, offset, BLOCK_SIZE).data
  PROVE  \/ Failed(res) /\ res \in Int
         \/ /\ ~Failed(res) /\ res \in Nat /\ data \in Seq(AnyByte) /\ Len(data) = res
            /\ res <= BLOCK_SIZE /\ (offset >= size => res = 0)
            /\ offset < size => res > 0 /\ (res = BLOCK_SIZE \/ offset + res = size)
<1> DEFINE c == DiskOf(src)
           C == SourceTable(D, d, E, c)
           img == s.disk[c]
           G == s.disk
<1>1. InDirectories(C, src, n) /\ IsFile(C[n]) /\ C[n].size = size
  BY DEF Source, SourceAt
<1>2. C = SourceTable(D, d, E, c) /\ c \in Disks /\ c = DiskOf(src) /\ img = G[c]
  BY PathNames
<1>3. res = fs_read_file(G, src, offset, BLOCK_SIZE).res /\ data = fs_read_file(G, src, offset, BLOCK_SIZE).data
  OBVIOUS
<1> HIDE DEF C, c
<1>4. OfTable(s.disk[c], C) /\ s.disk[c] \in Image /\ C \in Table /\ Good(C, {})
  BY <1>2, SourceTableIs
<1>5. OfTable(G[DiskOf(src)], C) /\ img \in Image /\ img.entry = C
  BY <1>2, <1>4 DEF OfTable
<1> HIDE DEF G, img
<1>6. n = fs_get_entry(G, src)
  BY <1>1, <1>4, <1>5, IsFoundIn
<1>7. n \in EntryIndex /\ ~Failed(n)
  <2>1. n \in EntryIndex
    BY <1>1 DEF InDirectories, UsedIn
  <2> QED BY <2>1, Numbers DEF Failed
<1>8. size \in Nat /\ size = img.entry[n].size
  BY <1>1, <1>4, <1>5, <1>7 DEF Table, Entry
<1> QED BY <1>2, <1>3, <1>5, <1>6, <1>7, <1>8, ReadIs

\* The rounds.
Copying(v, D, d, E, p, to, size) ==
  /\ v.offset \in Nat
  /\ \/ v.go /\ v.offset = 0 /\ On(v.call, D, d, E) /\ ~Failed(v.call.res)
     \/ ~v.go /\ CopiedTo(v.call, D, d, E, p)
     \/ v.go /\ ~Failed(v.call.res) /\ (Blockwise(v.offset) \/ v.offset >= size) /\ PartOf(v.call, D, d, E, p, to, v.offset)

\* A round of a copy.
LEMMA CopyRound ==
  ASSUME NEW d \in Disks, NEW D, NEW E \in Table, Good(E, {}), OthersGood(D, d),
         NEW to \in CallPaths, NEW p, Target(D, d, E, to, p),
         NEW src \in CallPaths, NEW n, NEW size \in Nat, Source(D, d, E, src, n, size),
         NEW v, Copying(v, D, d, E, p, to, size), NEW w, w = CopyOnce(v, src, to)
  PROVE  Copying(w, D, d, E, p, to, size)
<1> DEFINE create == TRUE
           truncate == FALSE
           s == v.call
           offset == v.offset
           res == fs_read_file(v.call.disk, src, v.offset, BLOCK_SIZE).res
           data == fs_read_file(v.call.disk, src, v.offset, BLOCK_SIZE).data
           t == fs_write_file(v.call, to, v.offset, data, create, truncate)
<1>1. IsSet(create) /\ IsClear(truncate)
  BY DEF IsSet, IsClear
<1>2. t = fs_write_file(s, to, offset, data, create, truncate)
  OBVIOUS
<1>3. /\ res = fs_read_file(v.call.disk, src, v.offset, BLOCK_SIZE).res
      /\ data = fs_read_file(v.call.disk, src, v.offset, BLOCK_SIZE).data
      /\ t = fs_write_file(v.call, to, v.offset, data, create, truncate)
      /\ s = v.call /\ offset = v.offset
  OBVIOUS
<1> HIDE DEF create, truncate, t, res, data
<1>4. /\ ~v.go => w = v
      /\ v.go /\ Failed(res) => w.call = Return(v.call, res) /\ w.offset = v.offset /\ ~w.go
      /\ v.go /\ ~Failed(res) /\ res = 0 => w.call = Return(v.call, NO_ERROR) /\ w.offset = v.offset /\ ~w.go
      /\ v.go /\ ~Failed(res) /\ res # 0 => w.call = t /\ w.offset = v.offset + res /\ (w.go => ~Failed(t.res))
  BY <1>1, <1>3, CopySteps
<1>5. p \in EntryIndex /\ IsDir(E[p]) /\ d = DiskOf(to)
  BY DEF Target
<1>6. CASE ~v.go
  BY <1>4, <1>6
<1> HIDE DEF s, offset
<1>7. CASE v.go
  <2>1. offset \in Nat
    BY <1>3 DEF Copying
  <2>2. PICK F : On(s, D, d, F) /\ Good(F, {}) /\ Kept(E, F, {p}) /\ CopiedTo(s, D, d, E, p)
    <3>1. CASE On(s, D, d, E)
      BY <1>5, <3>1, CopiedNothing DEF Kept
    <3>2. CASE PartOf(s, D, d, E, p, to, offset)
      <4>1. PICK F, m : PartlyCopied(s, D, d, E, p, F, m, to, offset)
        BY <3>2 DEF PartOf
      <4> QED BY <4>1 DEF PartlyCopied, Into, CopiedTo
    <3> QED BY <1>3, <1>7, <3>1, <3>2 DEF Copying
  <2>3. Source(D, d, F, src, n, size)
    BY <1>5, <2>2, SourceKept
  <2>4. \/ Failed(res) /\ res \in Int
        \/ /\ ~Failed(res) /\ res \in Nat /\ data \in Seq(AnyByte) /\ Len(data) = res
           /\ res <= BLOCK_SIZE /\ (offset >= size => res = 0)
           /\ offset < size => res > 0 /\ (res = BLOCK_SIZE \/ offset + res = size)
    <3>1. res = fs_read_file(s.disk, src, offset, BLOCK_SIZE).res /\ data = fs_read_file(s.disk, src, offset, BLOCK_SIZE).data
      BY <1>3
    <3> QED BY <2>1, <2>2, <2>3, <3>1, SourceRead
  <2>5. CASE Failed(res) /\ res \in Int
    <3>1. CopiedTo(Return(s, res), D, d, E, p)
      BY <2>2, <2>5, CopiedReturn
    <3>2. w.call = Return(s, res) /\ w.offset = offset /\ ~w.go
      BY <1>3, <1>4, <1>7, <2>5
    <3> QED BY <2>1, <3>1, <3>2 DEF Copying
  <2>6. CASE ~Failed(res) /\ res = 0
    <3>1. NO_ERROR \in Int
      BY DEF NO_ERROR
    <3>2. CopiedTo(Return(s, NO_ERROR), D, d, E, p)
      BY <2>2, <3>1, CopiedReturn
    <3>3. w.call = Return(s, NO_ERROR) /\ w.offset = offset /\ ~w.go
      BY <1>3, <1>4, <1>7, <2>6
    <3> QED BY <2>1, <3>2, <3>3 DEF Copying
  <2>7. CASE /\ ~Failed(res) /\ res \in Nat /\ res # 0 /\ res > 0 /\ res <= BLOCK_SIZE /\ data \in Seq(AnyByte) /\ Len(data) = res
             /\ offset < size /\ (res = BLOCK_SIZE \/ offset + res = size)
    <3> DEFINE more == offset + res
    <3>1. w.call = t /\ w.offset = more /\ (w.go => ~Failed(t.res))
      BY <1>3, <1>4, <1>7, <2>7
    <3>2. res > 0 /\ res <= BLOCK_SIZE /\ Len(data) = res /\ data \in Seq(AnyByte) /\ more = offset + res /\ res \in Nat
      BY <2>7
    <3> HIDE DEF more
    <3>3. CopiedTo(t, D, d, E, p) /\ (~Failed(t.res) => PartOf(t, D, d, E, p, to, more))
      <4>1. CASE On(s, D, d, E) /\ offset = 0 /\ ~Failed(s.res)
        <5>1. more = res
          BY <2>7, <3>2, <4>1
        <5> QED BY <1>1, <1>2, <3>2, <4>1, <5>1, FirstPart
      <4>2. CASE ~Failed(s.res) /\ (Blockwise(offset) \/ offset >= size) /\ PartOf(s, D, d, E, p, to, offset)
        <5>1. Blockwise(offset)
          BY <2>1, <2>7, <4>2
        <5> QED BY <1>2, <1>5, <2>1, <3>2, <4>2, <5>1, NextPart
      <4> QED BY <1>3, <1>7, <4>1, <4>2 DEF Copying
    <3>4. more \in Nat /\ (Blockwise(more) \/ more >= size)
      <4>1. more \in Nat
        BY <2>1, <3>2
      <4>2. CASE more = size
        BY <4>1, <4>2
      <4>3. CASE res = BLOCK_SIZE
        <5>1. Blockwise(offset)
          <6>1. offset = 0 => Blockwise(offset)
            BY NoBytes
          <6> QED BY <1>3, <1>7, <2>1, <2>7, <6>1 DEF Copying
        <5> QED BY <2>1, <3>2, <4>1, <4>3, <5>1, NextBlock
      <4> QED BY <2>7, <3>2, <4>2, <4>3
    <3> QED BY <3>1, <3>3, <3>4 DEF Copying
  <2>9. offset < size \/ offset >= size
    BY <2>1
  <2> QED BY <2>4, <2>5, <2>6, <2>7, <2>9
<1> QED BY <1>6, <1>7

\* The copying of a file.
LEMMA CopiesFile ==
  ASSUME NEW d \in Disks, NEW D, NEW E \in Table, NEW s, On(s, D, d, E), ~Failed(s.res), Good(E, {}), OthersGood(D, d),
         NEW to \in CallPaths, NEW p, Target(D, d, E, to, p),
         NEW src \in CallPaths, NEW n, NEW size \in Nat, Source(D, d, E, src, n, size)
  PROVE  CopiedTo(CopyBytes(s, src, to, size), D, d, E, p)
<1>1. PICK v : CopyRuns(s, src, to, size, v)
  BY CopyRunsExist
<1> DEFINE m == needed_blocks(size) + 1
           S == {i \in 0 .. m : Copying(v[i], D, d, E, p, to, size)}
<1>2. /\ CopyBytes(s, src, to, size) = v[m].call
      /\ v[0] = [call |-> s, offset |-> 0, go |-> TRUE]
      /\ \A i \in 0 .. m - 1 : v[i + 1] = CopyOnce(v[i], src, to)
  BY <1>1 DEF CopyRuns
<1>3. m \in Nat
  BY BlocksCover
<1> HIDE DEF m
<1>4. 0 \in S
  <2>1. v[0].call = s /\ v[0].offset = 0 /\ v[0].go
    BY <1>2
  <2>2. Copying(v[0], D, d, E, p, to, size)
    BY <2>1 DEF Copying
  <2> QED BY <1>3, <2>2
<1>5. ASSUME NEW i \in 0 .. m - 1, i \in S PROVE i + 1 \in S
  <2>1. Copying(v[i], D, d, E, p, to, size)
    BY <1>5
  <2> DEFINE w == CopyOnce(v[i], src, to)
  <2>2. w = CopyOnce(v[i], src, to)
    OBVIOUS
  <2> HIDE DEF w
  <2>3. Copying(w, D, d, E, p, to, size)
    BY <2>1, <2>2, CopyRound
  <2>4. i + 1 \in 0 .. m
    BY <1>3
  <2> QED BY <1>2, <2>2, <2>3, <2>4
<1>6. \A i \in 0 .. m : i \in S
  <2> HIDE DEF S
  <2> QED BY <1>3, <1>4, <1>5, UpTo
<1>7. Copying(v[m], D, d, E, p, to, size)
  BY <1>3, <1>6
<1>8. p \in EntryIndex
  BY DEF Target
<1>9. CopiedTo(v[m].call, D, d, E, p)
  <2>1. CASE On(v[m].call, D, d, E)
    BY <1>8, <2>1, CopiedNothing
  <2>2. CASE \E F, x : PartlyCopied(v[m].call, D, d, E, p, F, x, to, v[m].offset)
    BY <2>2 DEF PartlyCopied, CopiedTo
  <2> QED BY <1>7, <2>1, <2>2 DEF Copying, PartOf
<1> QED BY <1>2, <1>9

-----------------------------------------------------------------------------
(* Copying a directory: its steps. *)

\* The copying of entry m of a directory.
CopyChildOf(copy, t, c, src, to, m) ==
  copy[t][<<Append(src, At(t, c, m).name), Append(to, At(t, c, m).name)>>]

\* The loop over the entries of a directory that is copied.
EachRuns(s, copy, c, src, to, e, count, v) ==
  /\ ForEach(s, count, LAMBDA t, j : CopyChildOf(copy, t, c, src, to, e.ref[j - 1])) = v[count]
  /\ v[0] = s
  /\ \A i \in 0 .. count - 1 : v[i + 1] = (IF Failed(v[i].res) THEN v[i] ELSE CopyChildOf(copy, v[i], c, src, to, e.ref[(i + 1) - 1]))

\* The rounds of this loop are a function that exists and is the one the operator evaluates.
LEMMA EachRunsExist ==
  ASSUME NEW s, NEW copy, NEW c, NEW src, NEW to, NEW e, NEW count, count \in Nat
  PROVE  \E v : EachRuns(s, copy, c, src, to, e, count, v)
<1> DEFINE a == s
           Round(z, i) == (IF Failed(z.res) THEN z ELSE CopyChildOf(copy, z, c, src, to, e.ref[i - 1]))
           Is(m, f) == f = [i \in 0 .. m |-> IF i = 0 THEN a ELSE Round(f[i - 1], i)]
           S == {m \in 0 .. count : \E f : Is(m, f)}
           v == CHOOSE f : Is(count, f)
<1>1. count \in Nat
  OBVIOUS
<1>2. ForEach(s, count, LAMBDA t, j : CopyChildOf(copy, t, c, src, to, e.ref[j - 1])) = v[count]
  BY DEF ForEach, Then
<1> HIDE DEF a, Round
<1>3. 0 \in S
  <2>1. Is(0, [i \in 0 .. 0 |-> a])
    OBVIOUS
  <2> HIDE DEF Is
  <2> QED BY <1>1, <2>1
<1>4. ASSUME NEW m \in 0 .. count - 1, m \in S PROVE m + 1 \in S
  <2>1. PICK f : Is(m, f)
    BY <1>4
  <2> DEFINE h == [i \in 0 .. m + 1 |-> IF i = m + 1 THEN Round(f[m], m + 1) ELSE f[i]]
  <2>2. \A i \in 0 .. m : h[i] = f[i] /\ f[i] = IF i = 0 THEN a ELSE Round(f[i - 1], i)
    BY <2>1
  <2>3. h[m + 1] = Round(f[m], m + 1)
    OBVIOUS
  <2>4. \A i \in 0 .. m + 1 : h[i] = IF i = 0 THEN a ELSE Round(h[i - 1], i)
    <3> SUFFICES ASSUME NEW i \in 0 .. m + 1 PROVE h[i] = IF i = 0 THEN a ELSE Round(h[i - 1], i)
      OBVIOUS
    <3> HIDE DEF h
    <3>1. CASE i = 0
      BY <2>2, <3>1
    <3>2. CASE i \in 1 .. m
      <4>1. i - 1 \in 0 .. m /\ i \in 0 .. m /\ i # 0
        BY <3>2
      <4>2. h[i - 1] = f[i - 1] /\ h[i] = Round(f[i - 1], i)
        BY <2>2, <4>1
      <4> QED BY <4>1, <4>2
    <3>3. CASE i = m + 1
      <4>1. i - 1 = m /\ m \in 0 .. m /\ i # 0
        BY <3>3
      <4>2. h[i - 1] = f[m] /\ h[i] = Round(f[m], i)
        BY <2>2, <2>3, <3>3, <4>1
      <4> QED BY <4>1, <4>2
    <3> QED BY <3>1, <3>2, <3>3
  <2>5. Is(m + 1, h)
    BY <2>4
  <2> HIDE DEF Is
  <2> QED BY <1>1, <2>5
<1> HIDE DEF Is
<1>5. \A m \in 0 .. count : m \in S
  <2> HIDE DEF S
  <2> QED BY <1>1, <1>3, <1>4, UpTo
<1>6. Is(count, v)
  <2>1. \E f : Is(count, f)
    BY <1>1, <1>5
  <2> QED BY <2>1
<1>7. v = [i \in 0 .. count |-> IF i = 0 THEN a ELSE Round(v[i - 1], i)]
  BY <1>6 DEF Is
<1> HIDE DEF v
<1>8. v[0] = a
  BY <1>1, <1>7
<1>9. ASSUME NEW i \in 0 .. count - 1 PROVE v[i + 1] = Round(v[i], i + 1)
  <2> DEFINE m == i + 1
  <2>1. m \in 0 .. count /\ m # 0 /\ m - 1 = i
    BY <1>1
  <2>2. m = i + 1
    OBVIOUS
  <2> HIDE DEF m
  <2>3. v[m] = Round(v[m - 1], m)
    BY <1>7, <2>1
  <2> QED BY <2>1, <2>2, <2>3
<1> QED BY <1>2, <1>8, <1>9 DEF a, Round, EachRuns

\* The cases of fs_copy.
LEMMA CopyEnds ==
  ASSUME NEW copy, NEW s, NEW src, NEW dst, NEW c, c = DiskOf(src), NEW p, p = Destination(s.disk, dst),
         NEW n, n = fs_get_entry(s.disk, src), NEW e, e = At(s, c, n), NEW to, to = Sanitised(dst),
         NEW t, t = fs_create_directory(s, to), NEW w, w = CopyWith(copy, s, src, dst)
  PROVE  /\ Failed(p) => w = Return(s, p)
         /\ ~Failed(p) /\ ~Failed(n) /\ e.flags = T_FILE => w = CopyBytes(s, src, to, e.size)
         /\ ~Failed(p) /\ ~Failed(n) /\ e.flags # T_FILE /\ Failed(t.res) => w = t
BY DEF CopyWith, Then

\* Copying a directory is creating one, then a call for every reference of the source.
LEMMA CopyEach ==
  ASSUME NEW copy, NEW s, NEW src, NEW dst, NEW c, c = DiskOf(src), NEW p, p = Destination(s.disk, dst), ~Failed(p),
         NEW n, n = fs_get_entry(s.disk, src), ~Failed(n), NEW e, e = At(s, c, n), e.flags # T_FILE, e.size \in Nat,
         NEW to, to = Sanitised(dst), NEW t, t = fs_create_directory(s, to), ~Failed(t.res),
         NEW w, w = CopyWith(copy, s, src, dst)
  PROVE  \E v : /\ v[0] = t
                /\ \A i \in 0 .. e.size - 1 :
                     v[i + 1] = IF Failed(v[i].res) THEN v[i] ELSE CopyChildOf(copy, v[i], c, src, to, e.ref[i])
                /\ w = IF Failed(v[e.size].res) THEN v[e.size] ELSE Return(v[e.size], NO_ERROR)
<1> DEFINE Entry0 == At(s, DiskOf(src), fs_get_entry(s.disk, src))
           Each(u) == ForEach(u, Entry0.size, LAMBDA x, i :
                        copy[x][<<Append(src, At(x, DiskOf(src), Entry0.ref[i - 1]).name),
                                  Append(Sanitised(dst), At(x, DiskOf(src), Entry0.ref[i - 1]).name)>>])
           End(u) == Return(u, NO_ERROR)
<1>1. CopyWith(copy, s, src, dst) = Then(Then(fs_create_directory(s, Sanitised(dst)), Each), End)
  BY DEF CopyWith
<1>2. PICK v : EachRuns(t, copy, DiskOf(src), src, Sanitised(dst), Entry0, Entry0.size, v)
  BY EachRunsExist
<1>3. Each(t) = v[Entry0.size]
  <2>1. ForEach(t, Entry0.size, LAMBDA x, j : CopyChildOf(copy, x, DiskOf(src), src, Sanitised(dst), Entry0.ref[j - 1])) = v[Entry0.size]
    BY <1>2 DEF EachRuns
  <2> QED BY <2>1 DEF CopyChildOf
<1>e. Entry0 = e
  OBVIOUS
<1>4. ASSUME NEW i \in 0 .. e.size - 1
      PROVE  v[i + 1] = IF Failed(v[i].res) THEN v[i] ELSE CopyChildOf(copy, v[i], c, src, to, e.ref[i])
  <2>1. v[i + 1] = IF Failed(v[i].res) THEN v[i] ELSE CopyChildOf(copy, v[i], c, src, to, e.ref[(i + 1) - 1])
    BY <1>2, <1>e DEF EachRuns
  <2>2. (i + 1) - 1 = i
    OBVIOUS
  <2> QED BY <2>1, <2>2
<1>5. v[0] = t
  BY <1>2 DEF EachRuns
<1>6. \A u : End(u) = Return(u, NO_ERROR)
  OBVIOUS
<1> HIDE DEF Each, End, Entry0
<1>7. w = IF Failed(v[e.size].res) THEN v[e.size] ELSE Return(v[e.size], NO_ERROR)
  BY <1>1, <1>3, <1>6, <1>e DEF Then
<1> QED BY <1>4, <1>5, <1>7

-----------------------------------------------------------------------------
(* Copying what a directory lists. *)

\* What fs_copy may be called with: something that is there, to be put into directory p.
CanCopy(s, D, d, E, src, dst, p) ==
  /\ On(s, D, d, E) /\ ~Failed(s.res) /\ Good(E, {}) /\ OthersGood(D, d) /\ d = DiskOf(dst)
  /\ src \in CallPaths /\ dst \in CallPaths
  /\ DirsTo(E, dst, p) /\ p \in EntryIndex /\ IsDir(E[p]) /\ E[p].size < SFS_ENTRYREFS
  /\ \E n : SourceAt(D, d, E, src, n)
\* copy does right what it is asked for, at its depth.
Copies(copy, D, d) ==
  \A s, E, src, dst, p : CanCopy(s, D, d, E, src, dst, p) => CopiedTo(copy[s][<<src, dst>>], D, d, E, p)

\* Where the copy goes.
LEMMA TargetIs ==
  ASSUME NEW d \in Disks, NEW D, NEW E, NEW s, On(s, D, d, E), Good(E, {}),
         NEW dst \in CallPaths, d = DiskOf(dst), NEW p \in EntryIndex, DirsTo(E, dst, p), IsDir(E[p]), E[p].size < SFS_ENTRYREFS,
         NEW q, q = Destination(s.disk, dst), ~Failed(q), NEW to, to = Sanitised(dst)
  PROVE  q = p /\ to \in CallPaths /\ Target(D, d, E, to, p)
<1>1. E \in Table /\ OfTable(s.disk[d], E) /\ RootIsRoot(E) /\ s.disk[d] = s.disk[DiskOf(dst)] /\ p \in Nat
  BY OnTypes, Numbers DEF On, OfTable, Good
<1>2. /\ q = path_parse_parent(s.disk[DiskOf(dst)], NamesOf(dst))
      /\ \A m \in UsedIn(E) : ~(E[m].parent = q /\ E[m].name = StoredName[Last(dst)])
  <2>1. OfTable(s.disk[DiskOf(dst)], E)
    BY <1>1
  <2> QED BY <1>1, <2>1, DestinationIs
<1>3. path_parse_parent(s.disk[d], NamesOf(dst)) = p
  BY <1>1, DirsToParent
<1>4. q = p
  BY <1>1, <1>2, <1>3
<1>5. /\ to \in CallPaths /\ Len(to) = Len(dst) /\ DiskOf(to) = DiskOf(dst)
      /\ \A i \in 1 .. Len(dst) - 1 : to[i] = dst[i]
      /\ Last(to) = StoredName[Last(dst)] /\ StoredName[Last(to)] = Last(to)
  BY SanitisedPath
<1>6. path_parse_parent(s.disk[d], NamesOf(dst)) = path_parse_parent(s.disk[d], NamesOf(to))
  <2>1. Len(dst) = Len(to) /\ \A i \in 1 .. Len(dst) - 1 : dst[i] = to[i]
    BY <1>5
  <2>2. to \in CallPaths /\ dst \in CallPaths
    BY <1>5
  <2> QED BY ONLY <2>1, <2>2, SanitisedParent
<1>7. DirsTo(E, to, p)
  <2>1. OfTable(s.disk[d], E) /\ Good(E, {}) /\ to \in CallPaths /\ p = path_parse_parent(s.disk[d], NamesOf(to))
        /\ ~Failed(p) /\ IsDir(E[p])
    BY <1>1, <1>3, <1>4, <1>5, <1>6
  <2> QED BY ONLY <2>1, ParentDirs
<1> QED BY <1>2, <1>4, <1>5, <1>7 DEF Target

\* Destination of a path that nothing has yet is the directory it goes to.
LEMMA TargetDestination ==
  ASSUME NEW d \in Disks, NEW D, NEW E, NEW s, On(s, D, d, E), Good(E, {}),
         NEW to \in CallPaths, NEW p, Target(D, d, E, to, p)
  PROVE  Destination(s.disk, to) = p /\ ~Failed(p)
<1>1. E \in Table /\ OfTable(s.disk[d], E) /\ d = DiskOf(to) /\ DirsTo(E, to, p) /\ p \in EntryIndex
      /\ StoredName[Last(to)] = Last(to) /\ \A m \in UsedIn(E) : ~(E[m].parent = p /\ E[m].name = Last(to))
  BY OnTypes DEF On, OfTable, Target
<1>2. path_parse_parent(s.disk[d], NamesOf(to)) = p
  BY <1>1, DirsToParent
<1>3. p \in Nat /\ ~Failed(p)
  BY <1>1, Numbers DEF Failed
<1> DEFINE there == Lookup(s.disk[d], p, Last(to))
<1>4. there = ERROR_NOT_FOUND
  <2>1. \/ there = ERROR_NOT_FOUND
        \/ there \in UsedIn(E) /\ E[there].parent = p /\ E[there].name = Last(to)
    BY <1>1, LookupIs
  <2> QED BY <1>1, <2>1
<1>5. Failed(there)
  BY <1>4 DEF Failed, ERROR_NOT_FOUND
<1> HIDE DEF there
<1>6. there = Lookup(s.disk[DiskOf(to)], path_parse_parent(s.disk[DiskOf(to)], NamesOf(to)), StoredName[Last(to)])
  BY <1>1, <1>2 DEF there
<1> QED BY <1>1, <1>2, <1>3, <1>5, <1>6 DEF Destination

\* The new directory q holds i copies at most.
HoldsCopies(z, D, d, F, q, i) ==
  \E G : On(z, D, d, G) /\ Good(G, {}) /\ Kept(F, G, {q}) /\ G[q].size <= i
\* An entry of the source, and what its copy goes by.
NewDirectory(D, d, E, F, to, p, q, src, n) ==
  /\ F \in Table /\ Good(F, {}) /\ Kept(E, F, {p}) /\ F[p].size = E[p].size + 1 /\ IsDir(F[p])
  /\ q \in EntryIndex /\ E[q].flags = FREE /\ q # p
  /\ IsDir(F[q]) /\ F[q].size = 0 /\ InDirectories(F, to, q)
  /\ SourceAt(D, d, E, src, n) /\ IsDir(SourceTable(D, d, E, DiskOf(src))[n])
  /\ to \in CallPaths /\ src \in CallPaths /\ d = DiskOf(to) /\ OthersGood(D, d)
\* What directory n lists, and the path of it.
ChildOf(C, n, m) == \E i \in 0 .. C[n].size - 1 : m = C[n].ref[i]
ChildPaths(C, src, n, m, name, more) == ChildOf(C, n, m) /\ name = C[m].name /\ more = Append(src, name)

\* What a directory lists is found under the directory's path and its name.
LEMMA ChildSource ==
  ASSUME NEW C \in Table, Good(C, {}), NEW src \in CallPaths, NEW n, InDirectories(C, src, n), IsDir(C[n]),
         NEW m, NEW name, NEW more, ChildPaths(C, src, n, m, name, more)
  PROVE  /\ name \in Names /\ m \in UsedIn(C) \ {0} /\ more \in CallPaths /\ DiskOf(more) = DiskOf(src)
         /\ Last(more) = name /\ InDirectories(C, more, m) /\ C[n].size <= SFS_ENTRYREFS
<1>1. /\ n \in EntryIndex /\ n \in UsedIn(C)
      /\ ChildOf(C, n, m) /\ name = C[m].name /\ more = Append(src, name)
  BY DEF InDirectories, UsedIn, ChildPaths
<1>2. C[n].size <= SFS_ENTRYREFS
  BY <1>1 DEF Good, DirsFit
<1>3. m \in UsedIn(C) \ {0} /\ C[m].parent = n
  BY <1>1 DEF Good, Listings, ChildOf
<1>4. name \in Names
  BY <1>1, <1>3 DEF Good, StoredNames
<1>5. more \in CallPaths /\ DiskOf(more) = DiskOf(src) /\ Last(more) = name
  BY <1>1, <1>4, ChildPath
<1>6. DirsTo(C, more, n)
  BY <1>1, <1>4, IntoDirectory
<1>7. InDirectories(C, more, m)
  <2>1. more \in CallPaths /\ DirsTo(C, more, n) /\ m \in UsedIn(C) \ {0} /\ C[m].parent = n /\ C[m].name = Last(more)
    BY <1>1, <1>3, <1>5, <1>6
  <2> QED BY ONLY <2>1, LastIn
<1> QED BY <1>2, <1>3, <1>4, <1>5, <1>7

\* Copying one more entry.
LEMMA CopiesChild ==
  ASSUME NEW d \in Disks, NEW D, NEW E \in Table, Good(E, {}), NEW F, NEW to, NEW p, NEW q, NEW src, NEW n,
         NewDirectory(D, d, E, F, to, p, q, src, n), NEW copy, Copies(copy, D, d),
         NEW e, e = SourceTable(D, d, E, DiskOf(src))[n], SourceTable(D, d, E, DiskOf(src)) \in Table,
         Good(SourceTable(D, d, E, DiskOf(src)), {}),
         NEW i \in 0 .. e.size - 1, NEW z, ~Failed(z.res), HoldsCopies(z, D, d, F, q, i), NEW more, more = i + 1
  PROVE  HoldsCopies(CopyChildOf(copy, z, DiskOf(src), src, to, e.ref[i]), D, d, F, q, more)
<1> DEFINE c == DiskOf(src)
           C == SourceTable(D, d, E, c)
           m == C[n].ref[i]
           name == C[m].name
           from == Append(src, name)
           into == Append(to, name)
<1>1. /\ F \in Table /\ Good(F, {}) /\ Kept(E, F, {p}) /\ q \in EntryIndex /\ E[q].flags = FREE
      /\ IsDir(F[q]) /\ F[q].size = 0 /\ InDirectories(F, to, q) /\ SourceAt(D, d, E, src, n) /\ IsDir(C[n])
      /\ to \in CallPaths /\ src \in CallPaths /\ d = DiskOf(to) /\ OthersGood(D, d)
      /\ C \in Table /\ Good(C, {}) /\ e = C[n] /\ InDirectories(C, src, n)
  BY DEF NewDirectory, SourceAt
<1>2. /\ name \in Names /\ m \in UsedIn(C) \ {0} /\ from \in CallPaths /\ DiskOf(from) = c
      /\ Last(from) = name /\ InDirectories(C, from, m) /\ C[n].size <= SFS_ENTRYREFS
  <2>1. /\ C \in Table /\ Good(C, {}) /\ src \in CallPaths /\ InDirectories(C, src, n) /\ IsDir(C[n])
        /\ ChildPaths(C, src, n, m, name, from) /\ c = DiskOf(src)
    BY <1>1 DEF ChildOf, ChildPaths
  <2> HIDE DEF c, C, m, name, from
  <2>2. /\ name \in Names /\ m \in UsedIn(C) \ {0} /\ from \in CallPaths /\ DiskOf(from) = DiskOf(src)
        /\ Last(from) = name /\ InDirectories(C, from, m) /\ C[n].size <= SFS_ENTRYREFS
    BY ONLY <2>1, ChildSource
  <2> QED BY <2>1, <2>2
<1>3. PICK G : On(z, D, d, G) /\ Good(G, {}) /\ Kept(F, G, {q}) /\ G[q].size <= i
  BY DEF HoldsCopies
<1>4. G \in Table /\ (\A x : At(z, c, x) = SourceTable(D, d, G, c)[x])
  <2>1. c \in Disks
    BY <1>1, PathNames
  <2> HIDE DEF c
  <2>2. G \in Table
    BY <1>3, OnTypes
  <2> QED BY <1>1, <1>3, <2>1, <2>2, SourceTableIs
<1>5. SourceAt(D, d, G, from, m)
  <2>1. SourceAt(D, d, E, from, m)
    BY <1>2 DEF SourceAt
  <2>2. E \in Table /\ F \in Table /\ Good(E, {}) /\ Good(F, {}) /\ Kept(E, F, {p}) /\ Kept(F, G, {q}) /\ from \in CallPaths
        /\ d \in Disks
    BY <1>1, <1>2, <1>3
  <2> HIDE DEF from, m
  <2>3. SourceAt(D, d, F, from, m)
    BY ONLY <2>1, <2>2, SourceAtStays
  <2> QED BY ONLY <2>2, <2>3, SourceAtStays
<1>6. At(z, c, m).name = name
  <2>1. InDirectories(SourceTable(D, d, G, c), from, m)
    BY <1>2, <1>5 DEF SourceAt
  <2>2. SourceTable(D, d, G, c)[m].name = Last(from)
    BY <2>1 DEF InDirectories
  <2> QED BY <1>2, <1>4, <2>2
<1>7. InDirectories(G, to, q) /\ IsDir(G[q])
  <2>1. InDirectories(G, to, q) /\ G[q].flags = F[q].flags
    BY <1>1, <1>3, StaysIn
  <2> QED BY <1>1, <2>1 DEF IsDir
<1>8. into \in CallPaths /\ DiskOf(into) = d /\ DirsTo(G, into, q)
  <2>1. into \in CallPaths /\ DiskOf(into) = d
    BY <1>1, <1>2, ChildPath
  <2>2. to \in CallPaths /\ InDirectories(G, to, q) /\ IsDir(G[q]) /\ name \in Names /\ into = Append(to, name)
    BY <1>1, <1>2, <1>7
  <2> HIDE DEF into, name
  <2>3. DirsTo(G, into, q)
    BY ONLY <2>2, IntoDirectory
  <2> QED BY <2>1, <2>3
<1>9. G[q].size \in Nat /\ F[q].size = 0 /\ C[n].size \in Nat /\ SFS_ENTRYREFS \in Nat /\ i \in Nat
  <2>1. n \in EntryIndex
    BY <1>1 DEF InDirectories, UsedIn
  <2> QED BY <1>1, <1>4, <2>1, Numbers DEF Table, Entry
<1>10. G[q].size < SFS_ENTRYREFS
  BY <1>1, <1>2, <1>3, <1>9
<1>11. CanCopy(z, D, d, G, from, into, q)
  BY <1>1, <1>2, <1>3, <1>5, <1>7, <1>8, <1>10 DEF CanCopy
<1> DEFINE y == copy[z][<<from, into>>]
<1>12. CopiedTo(y, D, d, G, q)
  BY <1>11 DEF Copies
<1>13. y = CopyChildOf(copy, z, c, src, to, e.ref[i])
  BY <1>1, <1>6 DEF CopyChildOf
<1> HIDE DEF y
<1>14. PICK H : On(y, D, d, H) /\ Good(H, {}) /\ Kept(G, H, {q}) /\ H[q].size <= G[q].size + 1
  BY <1>12 DEF CopiedTo, Into
<1>15. Kept(F, H, {q})
  <2>1. F \in Table /\ Good(F, {}) /\ Kept(F, G, {q}) /\ Kept(G, H, {q}) /\ {q} \subseteq {q}
    BY <1>1, <1>3, <1>14
  <2> QED BY ONLY <2>1, KeptAfter
<1>16. H[q].size <= more
  <2>1. H \in Table
    BY <1>14, OnTypes
  <2>2. H[q].size \in Nat
    BY <1>1, <2>1 DEF Table, Entry
  <2> QED BY <1>3, <1>9, <1>14, <2>2
<1> QED BY <1>13, <1>14, <1>15, <1>16 DEF HoldsCopies

\* What is in a new directory is in the one above it.
LEMMA CopiedIn ==
  ASSUME NEW d \in Disks, NEW D, NEW E \in Table, Good(E, {}), NEW F, NEW to, NEW p \in EntryIndex, IsDir(E[p]), NEW q, NEW src, NEW n,
         NewDirectory(D, d, E, F, to, p, q, src, n), NEW z, NEW i, HoldsCopies(z, D, d, F, q, i)
  PROVE  CopiedTo(z, D, d, E, p)
<1>1. /\ F \in Table /\ Good(F, {}) /\ Kept(E, F, {p}) /\ F[p].size = E[p].size + 1 /\ IsDir(F[p])
      /\ q \in EntryIndex /\ E[q].flags = FREE /\ q # p
  BY DEF NewDirectory
<1>2. PICK G : On(z, D, d, G) /\ Good(G, {}) /\ Kept(F, G, {q})
  BY DEF HoldsCopies
<1>3. Kept(E, G, {p})
  <2>1. \A m \in UsedIn(E) : m \in {q} => m \in {p}
    BY <1>1 DEF UsedIn
  <2>2. E \in Table /\ Good(E, {}) /\ Kept(E, F, {p}) /\ Kept(F, G, {q})
    BY <1>1, <1>2
  <2> QED BY ONLY <2>1, <2>2, KeptOn
<1>4. p \in UsedIn(F) /\ IsDir(F[F[p].parent])
  BY <1>1, DirInDir
<1>5. G[p].size = F[p].size
  BY <1>1, <1>2, <1>4 DEF Kept
<1>6. E[p].size \in Nat
  BY DEF Table, Entry
<1> QED BY <1>1, <1>2, <1>3, <1>5, <1>6 DEF CopiedTo, Into

\* The first step of copying a directory.
LEMMA MakesDirectory ==
  ASSUME NEW d \in Disks, NEW D, NEW E, NEW s, On(s, D, d, E), ~Failed(s.res), Good(E, {}), OthersGood(D, d),
         NEW to \in CallPaths, NEW p, Target(D, d, E, to, p), NEW src \in CallPaths, NEW n,
         SourceAt(D, d, E, src, n), IsDir(SourceTable(D, d, E, DiskOf(src))[n]),
         NEW t, t = fs_create_directory(s, to)
  PROVE  \/ Refused(t, D, d, E)
         \/ /\ ~Failed(t.res)
            /\ \E F, q : NewDirectory(D, d, E, F, to, p, q, src, n) /\ HoldsCopies(t, D, d, F, q, 0)
<1>1. /\ d = DiskOf(to) /\ DirsTo(E, to, p) /\ p \in EntryIndex /\ IsDir(E[p]) /\ E[p].size < SFS_ENTRYREFS
      /\ StoredName[Last(to)] = Last(to)
  BY DEF Target
<1>2. p = Destination(s.disk, to) /\ ~Failed(p)
  BY TargetDestination
<1>3. \/ Refused(t, D, d, E)
      \/ ~Failed(t.res) /\ \E q : Added(t, D, d, E, q, T_DIR, p, Last(to))
  <2>1. \/ Refused(fs_create_directory(s, to), D, d, E)
        \/ /\ ~Failed(p) /\ ~Failed(fs_create_directory(s, to).res)
           /\ \E q : Added(fs_create_directory(s, to), D, d, E, q, T_DIR, p, StoredName[Last(to)])
    BY <1>1, <1>2, CreatesDirectory
  <2> QED BY <1>1, <2>1
<1>4. CASE ~Failed(t.res) /\ \E q : Added(t, D, d, E, q, T_DIR, p, Last(to))
  <2>1. PICK q : Added(t, D, d, E, q, T_DIR, p, Last(to))
    BY <1>4
  <2> DEFINE F == Entered(E, q, T_DIR, p, Last(to))
  <2>2. /\ On(t, D, d, F) /\ Good(F, {}) /\ Kept(E, F, {p}) /\ q \in EntryIndex /\ E[q].flags = FREE /\ q # p
        /\ F[q] = Named(T_DIR, p, Last(to)) /\ F[p].size = E[p].size + 1 /\ IsDir(F[p])
    BY <2>1 DEF Added
  <2> HIDE DEF F
  <2>3. F \in Table /\ E \in Table
    BY <2>2, OnTypes
  <2>4. F[q].flags = T_DIR /\ F[q].parent = p /\ F[q].name = Last(to) /\ F[q].size = 0
    <3>1. Last(to) \in Names /\ T_DIR \in {T_DIR, T_FILE}
      BY PathNames
    <3> QED BY <1>1, <2>2, <3>1, Fresh
  <2>5. q \in UsedIn(F) \ {0}
    <3>1. E[0].flags # FREE
      BY DEF Good, RootIsRoot, T_DIR, FREE
    <3> QED BY <2>2, <2>4, <3>1 DEF UsedIn, T_DIR, FREE
  <2>6. DirsTo(F, to, p)
    BY <1>1, <2>2, <2>3, DirsStay
  <2>7. InDirectories(F, to, q)
    <3>1. to \in CallPaths /\ DirsTo(F, to, p) /\ q \in UsedIn(F) \ {0} /\ F[q].parent = p /\ F[q].name = Last(to)
      BY <2>4, <2>5, <2>6
    <3> QED BY ONLY <3>1, LastIn
  <2>8. NewDirectory(D, d, E, F, to, p, q, src, n)
    BY <1>1, <2>2, <2>3, <2>4, <2>7 DEF NewDirectory, IsDir
  <2>9. Kept(F, F, {q}) /\ F[q].size <= 0
    BY <2>4, KeptSame
  <2>10. HoldsCopies(t, D, d, F, q, 0)
    BY <2>2, <2>9 DEF HoldsCopies
  <2> QED BY <1>4, <2>8, <2>10
<1> QED BY <1>3, <1>4

-----------------------------------------------------------------------------
(* Copying at every depth. *)

\* The copying of a directory, entry by entry.
LEMMA CopiesEntries ==
  ASSUME NEW d \in Disks, NEW D, NEW E \in Table, Good(E, {}), NEW F, NEW to, NEW p \in EntryIndex, IsDir(E[p]), NEW q, NEW src, NEW n,
         NewDirectory(D, d, E, F, to, p, q, src, n), NEW copy, Copies(copy, D, d),
         NEW c, c = DiskOf(src), NEW C, C = SourceTable(D, d, E, c), C \in Table, Good(C, {}),
         NEW e, e = C[n], NEW size, size = e.size, size \in Nat, NEW v, HoldsCopies(v[0], D, d, F, q, 0),
         \A i \in 0 .. size - 1 :
           v[i + 1] = IF Failed(v[i].res) THEN v[i] ELSE CopyChildOf(copy, v[i], c, src, to, e.ref[i])
  PROVE  CopiedTo(v[size], D, d, E, p)
<1> DEFINE S == {i \in 0 .. size : HoldsCopies(v[i], D, d, F, q, i)}
<1>1. 0 \in S
  OBVIOUS
<1>2. ASSUME NEW i \in 0 .. size - 1, i \in S PROVE i + 1 \in S
  <2> DEFINE more == i + 1
             z == v[i]
  <2>1. more \in 0 .. size /\ HoldsCopies(z, D, d, F, q, i) /\ i \in Nat
        /\ v[more] = IF Failed(z.res) THEN z ELSE CopyChildOf(copy, z, c, src, to, e.ref[i])
    BY <1>2
  <2>2. more = i + 1
    OBVIOUS
  <2> HIDE DEF z
  <2>3. CASE Failed(z.res)
    <3>1. v[more] = z
      BY <2>1, <2>3
    <3>2. PICK G : On(z, D, d, G) /\ Good(G, {}) /\ Kept(F, G, {q}) /\ G[q].size <= i
      BY <2>1 DEF HoldsCopies
    <3>3. G \in Table /\ q \in EntryIndex
      BY <3>2, OnTypes DEF NewDirectory
    <3>4. G[q].size \in Nat
      BY <3>3 DEF Table, Entry
    <3>5. G[q].size <= more
      BY <2>1, <3>2, <3>4
    <3>6. HoldsCopies(z, D, d, F, q, more)
      BY <3>2, <3>5 DEF HoldsCopies
    <3> HIDE DEF more
    <3> QED BY <2>1, <2>2, <3>1, <3>6
  <2>4. CASE ~Failed(z.res)
    <3>1. e = SourceTable(D, d, E, DiskOf(src))[n] /\ SourceTable(D, d, E, DiskOf(src)) \in Table
          /\ Good(SourceTable(D, d, E, DiskOf(src)), {}) /\ i \in 0 .. e.size - 1
      BY <1>2
    <3> HIDE DEF more
    <3>2. HoldsCopies(CopyChildOf(copy, z, DiskOf(src), src, to, e.ref[i]), D, d, F, q, more)
      BY <2>1, <2>2, <2>4, <3>1, CopiesChild
    <3> QED BY <2>1, <2>2, <2>4, <3>2
  <2> QED BY <2>3, <2>4
<1>3. \A i \in 0 .. size : i \in S
  <2> HIDE DEF S
  <2> QED BY <1>1, <1>2, UpTo
<1>4. HoldsCopies(v[size], D, d, F, q, size)
  BY <1>3
<1> QED BY <1>4, CopiedIn

\* What fs_copy is called with.
LEMMA CopySource ==
  ASSUME NEW d \in Disks, NEW D, NEW E, NEW s, NEW src, NEW dst, NEW p, CanCopy(s, D, d, E, src, dst, p),
         NEW c, c = DiskOf(src), NEW C, C = SourceTable(D, d, E, c)
  PROVE  /\ c \in Disks /\ C \in Table /\ Good(C, {}) /\ (\A n : At(s, c, n) = C[n]) /\ E \in Table
         /\ \E n : /\ SourceAt(D, d, E, src, n) /\ n = fs_get_entry(s.disk, src) /\ n \in EntryIndex /\ ~Failed(n)
                   /\ C[n].size \in Nat /\ (IsFile(C[n]) \/ IsDir(C[n]))
<1>1. On(s, D, d, E) /\ Good(E, {}) /\ OthersGood(D, d) /\ src \in CallPaths /\ \E n : SourceAt(D, d, E, src, n)
  BY DEF CanCopy
<1>2. c \in Disks
  BY <1>1, PathNames
<1>3. OfTable(s.disk[c], C) /\ C \in Table /\ Good(C, {}) /\ \A n : At(s, c, n) = C[n]
  BY <1>1, <1>2, SourceTableIs
<1>4. PICK n : SourceAt(D, d, E, src, n)
  BY <1>1
<1>5. InDirectories(C, src, n)
  BY <1>4 DEF SourceAt
<1>6. n = fs_get_entry(s.disk, src)
  <2>1. OfTable(s.disk[DiskOf(src)], C)
    BY <1>3
  <2> QED BY <1>1, <1>3, <1>5, <2>1, IsFoundIn
<1>7. n \in UsedIn(C) /\ n \in EntryIndex
  BY <1>5 DEF InDirectories, UsedIn
<1>8. n \in Nat /\ ~Failed(n)
  BY <1>7, Numbers DEF Failed
<1>9. C[n] \in Entry
  BY <1>3, <1>7 DEF Table
<1>10. C[n].size \in Nat /\ (IsFile(C[n]) \/ IsDir(C[n]))
  BY <1>7, <1>9 DEF Entry, IsFile, IsDir, UsedIn
<1>11. E \in Table
  BY <1>1, OnTypes
<1> QED BY <1>2, <1>3, <1>4, <1>6, <1>7, <1>8, <1>10, <1>11

\* A copy of a file or a directory, if the copies of what the directory lists are right.
LEMMA CopiesWith ==
  ASSUME NEW d \in Disks, NEW D, NEW E, NEW s, NEW src, NEW dst, NEW p, CanCopy(s, D, d, E, src, dst, p),
         NEW copy, Copies(copy, D, d), NEW w, w = CopyWith(copy, s, src, dst)
  PROVE  CopiedTo(w, D, d, E, p)
<1> DEFINE c == DiskOf(src)
           C == SourceTable(D, d, E, c)
           q == Destination(s.disk, dst)
           to == Sanitised(dst)
           t == fs_create_directory(s, to)
<1>1. /\ On(s, D, d, E) /\ ~Failed(s.res) /\ Good(E, {}) /\ OthersGood(D, d) /\ d = DiskOf(dst)
      /\ src \in CallPaths /\ dst \in CallPaths
      /\ DirsTo(E, dst, p) /\ p \in EntryIndex /\ IsDir(E[p]) /\ E[p].size < SFS_ENTRYREFS
  BY DEF CanCopy
<1>2. /\ c \in Disks /\ C \in Table /\ Good(C, {}) /\ (\A x : At(s, c, x) = C[x]) /\ E \in Table
      /\ \E n : /\ SourceAt(D, d, E, src, n) /\ n = fs_get_entry(s.disk, src) /\ n \in EntryIndex /\ ~Failed(n)
                /\ C[n].size \in Nat /\ (IsFile(C[n]) \/ IsDir(C[n]))
  BY CopySource
<1>3. PICK n : /\ SourceAt(D, d, E, src, n) /\ n = fs_get_entry(s.disk, src) /\ n \in EntryIndex /\ ~Failed(n)
               /\ C[n].size \in Nat /\ (IsFile(C[n]) \/ IsDir(C[n]))
  BY <1>2
<1> DEFINE e == C[n]
<1>4. c = DiskOf(src) /\ C = SourceTable(D, d, E, c) /\ q = Destination(s.disk, dst) /\ to = Sanitised(dst)
      /\ t = fs_create_directory(s, to) /\ e = C[n] /\ e = At(s, c, n)
  BY <1>2
<1> HIDE DEF c, C, q, to, t, e
<1>5. /\ Failed(q) => w = Return(s, q)
      /\ ~Failed(q) /\ ~Failed(n) /\ e.flags = T_FILE => w = CopyBytes(s, src, to, e.size)
      /\ ~Failed(q) /\ ~Failed(n) /\ e.flags # T_FILE /\ Failed(t.res) => w = t
  BY <1>3, <1>4, CopyEnds
<1>6. CASE Failed(q)
  <2>1. q \in Int
    <3>1. OfTable(s.disk[DiskOf(dst)], E) /\ RootIsRoot(E)
      BY <1>1, <1>2 DEF On, OfTable, Good
    <3> QED BY <1>1, <1>4, <3>1, DestinationFails
  <2>2. CopiedTo(s, D, d, E, p)
    BY <1>1, CopiedNothing
  <2>3. CopiedTo(Return(s, q), D, d, E, p)
    BY <2>1, <2>2, CopiedReturn
  <2> QED BY <1>5, <1>6, <2>3
<1>7. CASE ~Failed(q)
  <2>1. q = p /\ to \in CallPaths /\ Target(D, d, E, to, p)
    BY <1>1, <1>4, <1>7, TargetIs
  <2>2. CASE IsFile(e)
    <3>1. w = CopyBytes(s, src, to, e.size)
      BY <1>3, <1>5, <1>7, <2>2 DEF IsFile
    <3> DEFINE size == e.size
    <3>2. size \in Nat /\ size = e.size
      BY <1>3, <1>4
    <3> HIDE DEF size
    <3>3. Source(D, d, E, src, n, size)
      BY <1>3, <1>4, <2>2, <3>2 DEF Source
    <3>4. CopiedTo(CopyBytes(s, src, to, size), D, d, E, p)
      BY <1>1, <1>2, <2>1, <3>2, <3>3, CopiesFile
    <3> QED BY <3>1, <3>2, <3>4
  <2>3. CASE IsDir(e)
    <3>1. e.flags # T_FILE /\ e.size \in Nat
      BY <1>3, <1>4, <2>3 DEF IsDir, T_DIR, T_FILE
    <3>2. \/ Refused(t, D, d, E)
          \/ /\ ~Failed(t.res)
             /\ \E F, x : NewDirectory(D, d, E, F, to, p, x, src, n) /\ HoldsCopies(t, D, d, F, x, 0)
      <4>1. IsDir(SourceTable(D, d, E, DiskOf(src))[n])
        BY <1>4, <2>3
      <4>2. /\ d \in Disks /\ On(s, D, d, E) /\ ~Failed(s.res) /\ Good(E, {}) /\ OthersGood(D, d)
            /\ to \in CallPaths /\ Target(D, d, E, to, p) /\ src \in CallPaths
            /\ SourceAt(D, d, E, src, n) /\ t = fs_create_directory(s, to)
        BY <1>1, <1>3, <1>4, <2>1
      <4> QED BY ONLY <4>1, <4>2, MakesDirectory
    <3>3. CASE Refused(t, D, d, E)
      <4>1. w = t
        BY <1>3, <1>5, <1>7, <3>1, <3>3 DEF Refused
      <4>2. On(t, D, d, E)
        BY <3>3 DEF Refused
      <4>3. CopiedTo(t, D, d, E, p)
        BY <1>1, <4>2, CopiedNothing
      <4> QED BY <4>1, <4>3
    <3>4. CASE ~Failed(t.res) /\ \E F, x : NewDirectory(D, d, E, F, to, p, x, src, n) /\ HoldsCopies(t, D, d, F, x, 0)
      <4>1. PICK F, x : NewDirectory(D, d, E, F, to, p, x, src, n) /\ HoldsCopies(t, D, d, F, x, 0)
        BY <3>4
      <4>2. PICK v : /\ v[0] = t
                     /\ \A i \in 0 .. e.size - 1 :
                          v[i + 1] = IF Failed(v[i].res) THEN v[i] ELSE CopyChildOf(copy, v[i], c, src, to, e.ref[i])
                     /\ w = IF Failed(v[e.size].res) THEN v[e.size] ELSE Return(v[e.size], NO_ERROR)
        BY <1>3, <1>4, <1>7, <3>1, <3>4, CopyEach
      <4> DEFINE size == e.size
      <4>3. size = e.size /\ size \in Nat /\ HoldsCopies(v[0], D, d, F, x, 0)
            /\ \A i \in 0 .. size - 1 :
                 v[i + 1] = IF Failed(v[i].res) THEN v[i] ELSE CopyChildOf(copy, v[i], c, src, to, e.ref[i])
        BY <3>1, <4>1, <4>2
      <4> DEFINE last == v[size]
      <4>4. w = IF Failed(last.res) THEN last ELSE Return(last, NO_ERROR)
        BY <4>2
      <4> HIDE DEF size
      <4>5. CopiedTo(v[size], D, d, E, p)
        BY <1>1, <1>2, <1>4, <4>1, <4>3, CopiesEntries
      <4>6. CopiedTo(last, D, d, E, p)
        BY <4>5
      <4> HIDE DEF last
      <4>7. CopiedTo(Return(last, NO_ERROR), D, d, E, p)
        <5>1. NO_ERROR \in Int
          BY DEF NO_ERROR
        <5> QED BY <4>6, <5>1, CopiedReturn
      <4> QED BY <4>4, <4>6, <4>7
    <3> QED BY <3>2, <3>3, <3>4
  <2> QED BY <1>3, <1>4, <2>2, <2>3
<1> QED BY <1>6, <1>7

\* The depths of fs_copy.
LEMMA CallPathsAre == CallPaths \subseteq AllPaths
BY DEF CallPaths

\* The calls that are nested too deep change nothing, so they are right.
LEMMA CopiesDeepest ==
  ASSUME NEW d \in Disks, NEW D
  PROVE  Copies(Deepest, D, d)
<1> SUFFICES ASSUME NEW s, NEW E, NEW src, NEW dst, NEW p, CanCopy(s, D, d, E, src, dst, p)
             PROVE  CopiedTo(Deepest[s][<<src, dst>>], D, d, E, p)
  BY DEF Copies
<1>1. On(s, D, d, E) /\ Good(E, {}) /\ src \in AllPaths /\ dst \in AllPaths /\ p \in EntryIndex /\ s \in CallStates
  BY CallPathsAre DEF CanCopy, On
<1>2. Deepest[s][<<src, dst>>] = Return(s, ERROR_IO)
  BY <1>1 DEF Deepest
<1>3. ERROR_IO \in Int
  BY DEF ERROR_IO
<1>4. CopiedTo(s, D, d, E, p)
  BY <1>1, CopiedNothing
<1> QED BY <1>2, <1>3, <1>4, CopiedReturn

\* One level up they stay right.
LEMMA CopiesLessDeep ==
  ASSUME NEW d \in Disks, NEW D, NEW copy, Copies(copy, D, d)
  PROVE  Copies(LessDeep(copy), D, d)
<1> SUFFICES ASSUME NEW s, NEW E, NEW src, NEW dst, NEW p, CanCopy(s, D, d, E, src, dst, p)
             PROVE  CopiedTo(LessDeep(copy)[s][<<src, dst>>], D, d, E, p)
  BY DEF Copies
<1>1. src \in AllPaths /\ dst \in AllPaths /\ s \in CallStates
  BY CallPathsAre DEF CanCopy, On
<1> DEFINE w == CopyWith(copy, s, src, dst)
<1>2. LessDeep(copy)[s][<<src, dst>>] = w
  BY <1>1 DEF LessDeep
<1>3. w = CopyWith(copy, s, src, dst)
  OBVIOUS
<1> HIDE DEF w
<1>4. CopiedTo(w, D, d, E, p)
  BY <1>3, CopiesWith
<1> QED BY <1>2, <1>4

\* fs_copy of something that is there into a directory.
LEMMA CopiesTree ==
  ASSUME NEW d \in Disks, NEW D, NEW E, NEW s, NEW src, NEW dst, NEW p, CanCopy(s, D, d, E, src, dst, p)
  PROVE  CopiedTo(fs_copy(s, src, dst), D, d, E, p)
<1>1. PICK v : DepthRuns(s, src, dst, v)
  BY DepthRunsExist
<1> DEFINE S == {i \in 0 .. NEntries : Copies(v[i], D, d)}
<1>2. NEntries \in Nat
  BY NSFSDiskAssumption
<1>3. 0 \in S
  BY <1>1, <1>2, CopiesDeepest DEF DepthRuns
<1>4. ASSUME NEW i \in 0 .. NEntries - 1, i \in S PROVE i + 1 \in S
  <2>1. Copies(v[i], D, d) /\ v[i + 1] = LessDeep(v[i]) /\ i + 1 \in 0 .. NEntries
    BY <1>1, <1>2, <1>4 DEF DepthRuns
  <2>2. Copies(LessDeep(v[i]), D, d)
    BY <2>1, CopiesLessDeep
  <2> QED BY <2>1, <2>2
<1>5. NEntries \in S
  <2> HIDE DEF S
  <2>1. \A i \in 0 .. NEntries : i \in S
    BY <1>2, <1>3, <1>4, UpTo
  <2> QED BY <1>2, <2>1
<1>6. CopiedTo(v[NEntries][s][<<src, dst>>], D, d, E, p)
  BY <1>5 DEF Copies
<1> QED BY <1>1, <1>6 DEF DepthRuns

-----------------------------------------------------------------------------
(* fs_copy. *)

\* A call at a point where every disk is in order.
Sane(s) ==
  /\ s \in CallStates /\ s.fuel < 0
  /\ \A c \in Disks : Good(s.disk[c].entry, {}) /\ s.disk[c].smashed = {}

\* What is known of any of the disks.
LEMMA SaneOn ==
  ASSUME NEW s, Sane(s), NEW d \in Disks, NEW D, D = s.disk, NEW E, E = s.disk[d].entry
  PROVE  On(s, D, d, E) /\ Good(E, {}) /\ OthersGood(D, d) /\ E \in Table /\ OfTable(s.disk[d], E) /\ RootIsRoot(E)
<1>1. On(s, D, d, E) /\ Good(E, {}) /\ OthersGood(D, d)
  BY DEF Sane, On, OthersGood
<1>2. E \in Table
  BY <1>1, OnTypes
<1> QED BY <1>1, <1>2 DEF OfTable, Good

\* A call that leaves its disk intact leaves all of them so.
LEMMA IntactIsSane ==
  ASSUME NEW s, Sane(s), NEW d \in Disks, NEW t, Intact(t, s.disk, d)
  PROVE  Sane(t) /\ \A c \in Disks \ {d} : t.disk[c] = s.disk[c]
<1>1. PICK F : On(t, s.disk, d, F) /\ Good(F, {})
  BY DEF Intact
<1>2. \A c \in Disks \ {d} : t.disk[c] = s.disk[c]
  BY <1>1 DEF On
<1>3. t \in CallStates /\ t.fuel < 0 /\ t.disk[d].entry = F /\ t.disk[d].smashed = {}
  BY <1>1 DEF On
<1> QED BY <1>1, <1>2, <1>3 DEF Sane

\* Setting the result changes no disk.
LEMMA SaneReturn ==
  ASSUME NEW s, Sane(s), NEW r \in Int
  PROVE  Sane(Return(s, r)) /\ Return(s, r).disk = s.disk /\ Return(s, r).res = r
<1> DEFINE t == [disk |-> s.disk, fuel |-> s.fuel, res |-> r]
<1>1. s = [disk |-> s.disk, fuel |-> s.fuel, res |-> s.res] /\ s.disk \in [Disks -> Image] /\ s.fuel \in Int
  BY DEF Sane, CallStates
<1>2. Return(s, r) = t
  BY <1>1 DEF Return
<1>3. t \in CallStates
  BY <1>1 DEF CallStates
<1>4. Sane(t)
  BY <1>3 DEF Sane
<1> QED BY <1>2, <1>4

\* fs_copy is what CopyWith says at the top.
LEMMA CopyTop ==
  ASSUME NEW s \in CallStates, NEW src \in AllPaths, NEW dst \in AllPaths
  PROVE  \E copy : fs_copy(s, src, dst) = CopyWith(copy, s, src, dst)
<1>1. PICK v : DepthRuns(s, src, dst, v)
  BY DepthRunsExist
<1> DEFINE k == NEntries - 1
<1>2. k \in 0 .. NEntries - 1 /\ k + 1 = NEntries
  BY NSFSDiskAssumption
<1>3. v[NEntries] = LessDeep(v[k])
  BY <1>1, <1>2 DEF DepthRuns
<1>4. LessDeep(v[k])[s][<<src, dst>>] = CopyWith(v[k], s, src, dst)
  BY DEF LessDeep
<1> QED BY <1>1, <1>3, <1>4 DEF DepthRuns

\* A copy that cannot begin.
LEMMA CopyRefused ==
  ASSUME NEW copy, NEW s, NEW src, NEW dst, NEW q, q = Destination(s.disk, dst),
         NEW n, n = fs_get_entry(s.disk, src), NEW w, w = CopyWith(copy, s, src, dst)
  PROVE  /\ Failed(q) => w = Return(s, q)
         /\ ~Failed(q) /\ Failed(n) => w = Return(s, n)
BY DEF CopyWith

\* fs_copy leaves the disk it writes to intact.
LEMMA CopiesEntry ==
  ASSUME NEW s, Sane(s), ~Failed(s.res), NEW src \in CallPaths, NEW dst \in CallPaths,
         InDirectory(s.disk, src), InDirectory(s.disk, dst), RoomInDirectory(s.disk, dst), NEW d, d = DiskOf(dst)
  PROVE  d \in Disks /\ Intact(fs_copy(s, src, dst), s.disk, d)
<1> DEFINE D == s.disk
           E == D[d].entry
           c == DiskOf(src)
           C == D[c].entry
           q == Destination(D, dst)
           n == fs_get_entry(D, src)
           w == fs_copy(s, src, dst)
<1>1. d \in Disks /\ c \in Disks /\ s \in CallStates /\ src \in AllPaths /\ dst \in AllPaths
  BY PathNames, CallPathsAre DEF Sane
<1>2. On(s, D, d, E) /\ Good(E, {}) /\ OthersGood(D, d) /\ E \in Table /\ OfTable(D[d], E) /\ RootIsRoot(E)
  BY <1>1, SaneOn
<1>3. Good(C, {}) /\ C \in Table /\ OfTable(D[c], C) /\ RootIsRoot(C)
  BY <1>1, SaneOn
<1>4. PICK copy : w = CopyWith(copy, s, src, dst)
  BY <1>1, CopyTop
<1>5. Failed(q) => w = Return(s, q)
  BY <1>4, CopyRefused
<1>6. ~Failed(q) /\ Failed(n) => w = Return(s, n)
  BY <1>4, CopyRefused
<1>7. \A r \in Int : Intact(Return(s, r), D, d)
  <2> SUFFICES ASSUME NEW r \in Int PROVE Intact(Return(s, r), D, d)
    OBVIOUS
  <2>1. On(Return(s, r), D, d, E)
    BY <1>1, <1>2, Returned
  <2> QED BY <1>2, <2>1 DEF Intact
<1>8. CASE Failed(q)
  <2>1. OfTable(D[DiskOf(dst)], E)
    BY <1>2
  <2>2. q \in Int
    BY <1>2, <2>1, DestinationFails
  <2> QED BY <1>1, <1>5, <1>7, <1>8, <2>2
<1>9. CASE ~Failed(q) /\ Failed(n)
  <2>1. n \in Int
    <3>1. n = ERROR_NOT_FOUND
      <4>1. n = fs_get_entry(D, src) /\ OfTable(D[DiskOf(src)], C) /\ RootIsRoot(C) /\ src \in CallPaths
        BY <1>3
      <4> HIDE DEF n, D, C
      <4> QED BY <1>9, <4>1, EntryIs
    <3> QED BY <3>1 DEF ERROR_NOT_FOUND
  <2> QED BY <1>1, <1>6, <1>7, <1>9, <2>1
<1>10. CASE ~Failed(q) /\ ~Failed(n)
  <2> DEFINE p == path_parse_parent(D[d], NamesOf(dst))
             ps == path_parse_parent(D[c], NamesOf(src))
  <2>1. p = q /\ p \in UsedIn(E)
    <3>1. OfTable(D[DiskOf(dst)], E) /\ RootIsRoot(E) /\ q = Destination(D, dst) /\ ~Failed(q) /\ dst \in CallPaths
      BY <1>2, <1>10
    <3>2. p = path_parse_parent(D[DiskOf(dst)], NamesOf(dst))
      OBVIOUS
    <3> HIDE DEF p, q, D, E
    <3>3. q = path_parse_parent(D[DiskOf(dst)], NamesOf(dst)) /\ q \in UsedIn(E)
      BY ONLY <3>1, DestinationIs
    <3> QED BY <3>2, <3>3
  <2>2. ~Failed(p) /\ p \in EntryIndex
    BY <1>10, <2>1 DEF UsedIn
  <2>3. IsDir(E[p]) /\ E[p].size < SFS_ENTRYREFS
    BY <2>2 DEF InDirectory, RoomInDirectory, IsDir
  <2>4. DirsTo(E, dst, p)
    <3>1. OfTable(D[d], E) /\ Good(E, {}) /\ dst \in CallPaths /\ p = path_parse_parent(D[d], NamesOf(dst)) /\ ~Failed(p) /\ IsDir(E[p])
      BY <1>2, <2>2, <2>3
    <3> HIDE DEF p, D, E
    <3> QED BY ONLY <3>1, ParentDirs
  <2>5. ~Failed(ps) /\ C[n].parent = ps
    <3>1. OfTable(D[c], C) /\ RootIsRoot(C) /\ c = DiskOf(src) /\ n = fs_get_entry(D, src) /\ ~Failed(n) /\ src \in CallPaths
      BY <1>3, <1>10
    <3>2. ps = path_parse_parent(D[c], NamesOf(src))
      OBVIOUS
    <3> HIDE DEF n, c, C, D, ps
    <3>3. ~Failed(path_parse_parent(D[c], NamesOf(src))) /\ C[n].parent = path_parse_parent(D[c], NamesOf(src))
      BY ONLY <3>1, EntryOf
    <3> QED BY <3>2, <3>3
  <2>6. IsDir(C[C[n].parent])
    BY <2>5 DEF InDirectory, IsDir
  <2>7. InDirectories(C, src, n)
    <3>1. OfTable(D[DiskOf(src)], C) /\ Good(C, {}) /\ n = fs_get_entry(D, src) /\ ~Failed(n) /\ src \in CallPaths /\ IsDir(C[C[n].parent])
      BY <1>3, <1>10, <2>6
    <3> HIDE DEF n, C, D
    <3> QED BY ONLY <3>1, FoundIsIn
  <2>8. SourceTable(D, d, E, DiskOf(src)) = C
    BY DEF SourceTable
  <2>9. SourceAt(D, d, E, src, n)
    BY <2>7, <2>8 DEF SourceAt
  <2>10. CanCopy(s, D, d, E, src, dst, p)
    BY <1>2, <2>2, <2>3, <2>4, <2>9 DEF CanCopy
  <2>11. CopiedTo(w, D, d, E, p)
    BY <1>1, <2>10, CopiesTree
  <2> QED BY <1>1, <2>11 DEF CopiedTo, Into, Intact
<1> QED BY <1>8, <1>9, <1>10

\* fs_move from a disk to another.
LEMMA AcrossSteps ==
  ASSUME NEW s, NEW src, NEW dst, NEW c, c = DiskOf(src), c # DiskOf(dst),
         NEW p, p = Destination(s.disk, dst), NEW n, n = fs_get_entry(s.disk, src), NEW v, v = fs_move(s, src, dst),
         NEW to, to = Sanitised(dst), NEW t, t = fs_copy(s, src, to), NEW u, u = delete_n(t, c, n)
  PROVE  /\ Failed(p) => v = Return(s, p)
         /\ ~Failed(p) /\ Failed(n) => v = Return(s, n)
         /\ ~Failed(p) /\ ~Failed(n) /\ Failed(t.res) => v = t
         /\ ~Failed(p) /\ ~Failed(n) /\ ~Failed(t.res) /\ t.res # NO_ERROR => v = Return(t, n)
         /\ ~Failed(p) /\ ~Failed(n) /\ t.res = NO_ERROR => v = IF Failed(u.res) THEN u ELSE Return(u, n)
<1>1. Failed(p) => v = Return(s, p)
  BY DEF fs_move
<1>2. ~Failed(p) /\ Failed(n) => v = Return(s, n)
  BY DEF fs_move
<1> DEFINE w == IF t.res # NO_ERROR THEN t ELSE u
<1>3. ASSUME ~Failed(p), ~Failed(n) PROVE v = IF Failed(w.res) THEN w ELSE Return(w, n)
  <2>1. CopyAndDelete(s, c, n, src, dst) = w
    BY DEF CopyAndDelete, AfterSuccess
  <2> HIDE DEF w
  <2> QED BY <1>3, <2>1 DEF fs_move, Then
<1>4. Failed(t.res) => t.res # NO_ERROR
  BY DEF Failed, NO_ERROR
<1> QED BY <1>1, <1>2, <1>3, <1>4

-----------------------------------------------------------------------------
(* fs_move to another disk. *)

\* A name goes into the same directory whichever way it is spelled.
LEMMA SanitisedWhere ==
  ASSUME NEW D, NEW dst \in CallPaths, NEW to, to = Sanitised(dst),
         InDirectory(D, dst), RoomInDirectory(D, dst)
  PROVE  to \in CallPaths /\ DiskOf(to) = DiskOf(dst) /\ InDirectory(D, to) /\ RoomInDirectory(D, to)
<1>1. /\ to \in CallPaths /\ Len(to) = Len(dst) /\ DiskOf(to) = DiskOf(dst)
      /\ \A i \in 1 .. Len(dst) - 1 : to[i] = dst[i]
  BY SanitisedPath
<1> DEFINE img == D[DiskOf(dst)]
<1>2. path_parse_parent(img, NamesOf(dst)) = path_parse_parent(img, NamesOf(to))
  <2>1. Len(dst) = Len(to) /\ \A i \in 1 .. Len(dst) - 1 : dst[i] = to[i]
    BY <1>1
  <2>2. to \in CallPaths /\ dst \in CallPaths
    BY <1>1
  <2> HIDE DEF img
  <2> QED BY ONLY <2>1, <2>2, SanitisedParent
<1> QED BY <1>1, <1>2 DEF InDirectory, RoomInDirectory

\* The second step of a move to another disk.
LEMMA DeletesFound ==
  ASSUME NEW s, Sane(s), ~Failed(s.res), NEW src \in CallPaths, NEW d, d = DiskOf(src), InDirectory(s.disk, src),
         NEW n, n = fs_get_entry(s.disk, src), ~Failed(n)
  PROVE  Sane(delete_n(s, d, n)) /\ delete_n(s, d, n).res = NO_ERROR /\ n \in Int
<1> DEFINE E == s.disk[d].entry
           p == path_parse_parent(s.disk[d], NamesOf(src))
           D == s.disk
<1>1. d \in Disks
  BY PathNames
<1>2. On(s, D, d, E) /\ Good(E, {}) /\ E \in Table /\ OfTable(D[d], E) /\ RootIsRoot(E)
  BY <1>1, SaneOn
<1>3. n \in UsedIn(E) \ {0} /\ ~Failed(p) /\ E[n].parent = p
  <2>1. OfTable(D[d], E) /\ RootIsRoot(E) /\ d = DiskOf(src) /\ n = fs_get_entry(D, src) /\ ~Failed(n) /\ src \in CallPaths
    BY <1>2
  <2>2. p = path_parse_parent(D[d], NamesOf(src))
    OBVIOUS
  <2> HIDE DEF p, D, E
  <2>3. n \in UsedIn(E) \ {0} /\ ~Failed(path_parse_parent(D[d], NamesOf(src)))
        /\ E[n].parent = path_parse_parent(D[d], NamesOf(src))
    BY ONLY <2>1, EntryOf
  <2> QED BY <2>2, <2>3
<1>4. IsDir(E[E[n].parent])
  BY <1>3 DEF InDirectory, IsDir
<1> DEFINE u == delete_n(s, d, n)
<1>5. After(u, D, d, E, {}, NotBelow(E, n), n)
  <2>1. On(s, D, d, E) /\ ~Failed(s.res) /\ Good(E, {}) /\ n \in UsedIn(E) \ {0} /\ IsDir(E[E[n].parent]) /\ d \in Disks
    BY <1>1, <1>2, <1>3, <1>4
  <2> HIDE DEF E, D
  <2> QED BY ONLY <2>1, DeleteEntry DEF u
<1> HIDE DEF u
<1>6. Intact(u, s.disk, d) /\ u.res = NO_ERROR
  BY <1>5 DEF After, Intact
<1>7. Sane(u)
  BY <1>1, <1>6, IntactIsSane
<1>8. n \in Int
  BY <1>3, Numbers DEF UsedIn
<1> QED BY <1>6, <1>7, <1>8 DEF u

\* fs_move to another disk.
LEMMA MovesAcross ==
  ASSUME NEW s, Sane(s), ~Failed(s.res), NEW src \in CallPaths, NEW dst \in CallPaths, DiskOf(src) # DiskOf(dst),
         InDirectory(s.disk, src), InDirectory(s.disk, dst), RoomInDirectory(s.disk, dst)
  PROVE  Sane(fs_move(s, src, dst))
<1> DEFINE c == DiskOf(src)
           d == DiskOf(dst)
           p == Destination(s.disk, dst)
           n == fs_get_entry(s.disk, src)
           v == fs_move(s, src, dst)
           to == Sanitised(dst)
           t == fs_copy(s, src, to)
           u == delete_n(t, c, n)
<1>1. c \in Disks /\ d \in Disks /\ c # d /\ c = DiskOf(src) /\ d = DiskOf(dst)
  BY PathNames
<1>2. to \in CallPaths /\ DiskOf(to) = d /\ InDirectory(s.disk, to) /\ RoomInDirectory(s.disk, to)
  BY SanitisedWhere
<1>3. Intact(t, s.disk, d)
  BY <1>2, CopiesEntry
<1>4. p = Destination(s.disk, dst) /\ n = fs_get_entry(s.disk, src) /\ v = fs_move(s, src, dst) /\ to = Sanitised(dst)
      /\ t = fs_copy(s, src, to) /\ u = delete_n(t, c, n)
  OBVIOUS
<1> HIDE DEF c, d, p, n, v, to, t, u
<1>5. Sane(t) /\ t.disk[c] = s.disk[c]
  BY <1>1, <1>3, IntactIsSane
<1>6. /\ Failed(p) => v = Return(s, p)
      /\ ~Failed(p) /\ Failed(n) => v = Return(s, n)
      /\ ~Failed(p) /\ ~Failed(n) /\ Failed(t.res) => v = t
      /\ ~Failed(p) /\ ~Failed(n) /\ ~Failed(t.res) /\ t.res # NO_ERROR => v = Return(t, n)
      /\ ~Failed(p) /\ ~Failed(n) /\ t.res = NO_ERROR => v = IF Failed(u.res) THEN u ELSE Return(u, n)
  BY <1>1, <1>4, AcrossSteps
<1>7. p \in Int
  <2>1. OfTable(s.disk[d], s.disk[d].entry) /\ RootIsRoot(s.disk[d].entry)
    BY <1>1, SaneOn
  <2> QED BY <1>1, <1>4, <2>1, DestinationFails
<1>8. n \in Int
  <2> DEFINE C == s.disk[c].entry
  <2>1. OfTable(s.disk[c], C) /\ RootIsRoot(C)
    BY <1>1, SaneOn
  <2> HIDE DEF C
  <2>2. OfTable(s.disk[DiskOf(src)], C) /\ RootIsRoot(C) /\ n = fs_get_entry(s.disk, src) /\ src \in CallPaths
    BY <1>1, <1>4, <2>1
  <2>3. n = ERROR_NOT_FOUND \/ n \in UsedIn(C)
    BY ONLY <2>2, EntryIs
  <2>4. UsedIn(C) \subseteq Int
    BY Numbers DEF UsedIn
  <2>5. ERROR_NOT_FOUND \in Int
    BY DEF ERROR_NOT_FOUND
  <2> QED BY <2>3, <2>4, <2>5
<1>9. CASE Failed(p)
  BY <1>4, <1>6, <1>7, <1>9, SaneReturn
<1>10. CASE ~Failed(p) /\ Failed(n)
  BY <1>4, <1>6, <1>8, <1>10, SaneReturn
<1>11. CASE ~Failed(p) /\ ~Failed(n) /\ t.res # NO_ERROR
  <2>1. v = t \/ v = Return(t, n)
    BY <1>6, <1>11
  <2> QED BY <1>4, <1>5, <1>8, <2>1, SaneReturn
<1>12. CASE ~Failed(p) /\ ~Failed(n) /\ t.res = NO_ERROR
  <2>1. ~Failed(t.res)
    BY <1>12 DEF Failed, NO_ERROR
  <2>2. path_parse_parent(t.disk[c], NamesOf(src)) = path_parse_parent(s.disk[c], NamesOf(src))
    BY <1>5
  <2>3. n = fs_get_entry(t.disk, src) /\ InDirectory(t.disk, src)
    BY <1>1, <1>4, <1>5, <2>2 DEF fs_get_entry, InDirectory
  <2>4. Sane(u) /\ u.res = NO_ERROR
    BY <1>1, <1>4, <1>5, <1>12, <2>1, <2>3, DeletesFound
  <2>5. v = Return(u, n)
    BY <1>6, <1>12, <2>4 DEF Failed, NO_ERROR
  <2> QED BY <1>4, <1>8, <2>4, <2>5, SaneReturn
<1> QED BY <1>9, <1>10, <1>11, <1>12

-----------------------------------------------------------------------------
(* Every call keeps every disk in order. *)

\* What a call is asked, when the rule about empty files is left out.
LEMMA RulesOf ==
  ASSUME NEW D, NEW r, AllBut(D, r, "empty")
  PROVE  /\ InDirectory(D, r.path) /\ (Moves(r) => InDirectory(D, r.to))
         /\ Creates(D, r) => RoomInDirectory(D, r.path)
         /\ Moves(r) /\ ~Renames(r) => RoomInDirectory(D, r.to)
         /\ r.op = "write" => NamedAsStored(r.path) /\ GrowsByOneBlock(D, r) /\ ResizesInFirstEntry(D, r)
         /\ Moves(r) => ~IsPrefix(r.path, Sanitised(r.to))
<1>1. \A rule \in {"directory", "room", "name", "growth", "resize", "subtree"} : Keeps(D, r, rule)
  BY DEF AllBut, Rules
<1>2. Keeps(D, r, "directory") /\ Keeps(D, r, "room") /\ Keeps(D, r, "name")
      /\ Keeps(D, r, "growth") /\ Keeps(D, r, "resize") /\ Keeps(D, r, "subtree")
  BY <1>1
<1> QED BY <1>2 DEF Keeps

\* The discipline of a write says that the file's size fits what the code can do.
LEMMA FitsOf ==
  ASSUME NEW D, NEW r, GrowsByOneBlock(D, r), ResizesInFirstEntry(D, r), NEW n, n = fs_get_entry(D, r.path),
         NEW E, E = D[DiskOf(r.path)].entry, NEW end, end = r.offset + Len(r.data), NEW truncate, truncate = r.truncate
  PROVE  /\ Failed(n) => Fits(0, end, truncate)
         /\ ~Failed(n) /\ IsFile(E[n]) => Fits(E[n].size, end, truncate)
<1> DEFINE old == IF Failed(n) THEN 0 ELSE E[n].size
<1>1. needed_blocks(0) = 0
  <2>1. BLOCK_SIZE \in Nat /\ BLOCK_SIZE > 0
    BY Numbers
  <2>2. 0 = BLOCK_SIZE * 0 + 0 /\ 0 \in Nat /\ 0 \in 0 .. BLOCK_SIZE - 1
    BY <2>1
  <2>3. 0 \div BLOCK_SIZE = 0 /\ 0 % BLOCK_SIZE = 0
    BY ONLY <2>1, <2>2, DivIs
  <2> QED BY <2>3 DEF needed_blocks
<1>2. ASSUME Failed(n) \/ IsFile(E[n]) PROVE Fits(old, end, truncate)
  <2> DEFINE before == needed_blocks(old)
             after == IF truncate \/ needed_blocks(end) > before THEN needed_blocks(end) ELSE before
  <2>1. BlocksBefore(D, r) = before
    <3>1. CASE Failed(n)
      BY <1>1, <3>1 DEF BlocksBefore
    <3>2. CASE ~Failed(n)
      <4>1. E[n].flags = T_FILE
        BY <1>2, <3>2 DEF IsFile
      <4>2. get_entry_refcount(E[n]) = needed_blocks(E[n].size)
        BY <4>1 DEF get_entry_refcount, T_FILE, T_DIR
      <4> QED BY <3>2, <4>2 DEF BlocksBefore
    <3> QED BY <3>1, <3>2
  <2>2. BlocksAfter(D, r) = after
    BY <2>1 DEF BlocksAfter
  <2>3. after <= before + 1
    BY <2>1, <2>2 DEF GrowsByOneBlock
  <2>4. end > old \/ (truncate /\ end < old) => after < SFS_ENTRYREFS \/ after = before + 1
    BY <2>1, <2>2 DEF ResizesInFirstEntry
  <2> QED BY <2>3, <2>4 DEF Fits
<1> QED BY <1>2

\* The calls.
LEMMA WriteKeeps ==
  ASSUME NEW s, Sane(s), ~Failed(s.res), NEW r, r.op = "write", AllBut(s.disk, r, "empty"),
         r.path \in CallPaths, r.offset \in Nat, r.data \in Seq(Bytes), r.create \in BOOLEAN
  PROVE  Sane(fs_write_file(s, r.path, r.offset, r.data, r.create, r.truncate))
<1> DEFINE path == r.path
           d == DiskOf(path)
           D == s.disk
           E == D[d].entry
           p == path_parse_parent(s.disk[d], NamesOf(path))
           n == fs_get_entry(s.disk, path)
           end == r.offset + Len(r.data)
           create == r.create
           truncate == r.truncate
           offset == r.offset
           data == r.data
<1>1. d \in Disks
  BY PathNames
<1>2. On(s, D, d, E) /\ Good(E, {})
  BY <1>1, SaneOn
<1>3. /\ InDirectory(D, path) /\ (Failed(n) => RoomInDirectory(D, path)) /\ NamedAsStored(path)
      /\ GrowsByOneBlock(D, r) /\ ResizesInFirstEntry(D, r)
  BY RulesOf DEF Creates
<1>4. Failed(p) \/ IsDir(E[p])
  BY <1>3 DEF InDirectory, IsDir
<1>5. ~Failed(n) \/ Failed(p) \/ (E[p].size < SFS_ENTRYREFS /\ StoredName[Last(path)] = Last(path))
  BY <1>3 DEF RoomInDirectory, NamedAsStored
<1>6. (Failed(n) => Fits(0, end, truncate)) /\ (~Failed(n) /\ IsFile(E[n]) => Fits(E[n].size, end, truncate))
  BY <1>3, FitsOf
<1>7. ~create \/ IsSet(create)
  BY DEF IsSet
<1>8. data \in Seq(AnyByte)
  <2>1. Bytes \subseteq AnyByte
    BY DEF AnyByte
  <2>2. data \in [1 .. Len(data) -> Bytes] /\ Len(data) \in Nat
    BY LenProperties
  <2>3. data \in [1 .. Len(data) -> AnyByte]
    BY <2>1, <2>2
  <2> QED BY <2>2, <2>3
<1> DEFINE w == fs_write_file(s, path, offset, data, create, truncate)
<1>9. path \in CallPaths /\ d = DiskOf(path) /\ p = path_parse_parent(s.disk[d], NamesOf(path)) /\ n = fs_get_entry(s.disk, path)
      /\ end = offset + Len(data) /\ offset \in Nat /\ D = s.disk
  OBVIOUS
<1>10. w = fs_write_file(s, path, offset, data, create, truncate)
  OBVIOUS
<1> HIDE DEF path, d, D, E, p, n, end, create, truncate, offset, data, w
<1>11. Intact(fs_write_file(s, path, offset, data, create, truncate), D, d)
  BY <1>1, <1>2, <1>4, <1>5, <1>6, <1>7, <1>8, <1>9, WritesEntry
<1>12. Intact(w, s.disk, d)
  BY <1>9, <1>10, <1>11
<1>13. Sane(w)
  BY <1>1, <1>12, IntactIsSane
<1> QED BY <1>13 DEF w, path, offset, data, create, truncate

\* fs_delete keeps every disk good.
LEMMA DeleteKeeps ==
  ASSUME NEW s, Sane(s), ~Failed(s.res), NEW path \in CallPaths, InDirectory(s.disk, path)
  PROVE  Sane(fs_delete(s, path))
<1> DEFINE d == DiskOf(path)
           D == s.disk
           E == D[d].entry
           p == path_parse_parent(s.disk[d], NamesOf(path))
<1>1. d \in Disks
  BY PathNames
<1>2. On(s, D, d, E) /\ Good(E, {})
  BY <1>1, SaneOn
<1>3. Failed(p) \/ IsDir(E[p])
  BY DEF InDirectory, IsDir
<1>4. d = DiskOf(path) /\ p = path_parse_parent(s.disk[d], NamesOf(path)) /\ D = s.disk
  OBVIOUS
<1> HIDE DEF d, D, E, p
<1>5. Intact(fs_delete(s, path), D, d)
  BY <1>1, <1>2, <1>3, <1>4, DeletesEntry
<1> QED BY <1>1, <1>4, <1>5, IntactIsSane

\* fs_create_directory keeps every disk good.
LEMMA MkdirKeeps ==
  ASSUME NEW s, Sane(s), NEW path \in CallPaths, InDirectory(s.disk, path), RoomInDirectory(s.disk, path)
  PROVE  Sane(fs_create_directory(s, path))
<1> DEFINE d == DiskOf(path)
           D == s.disk
           E == D[d].entry
           q == Destination(s.disk, path)
           name == StoredName[Last(path)]
           t == fs_create_directory(s, path)
<1>1. d \in Disks
  BY PathNames
<1>2. On(s, D, d, E) /\ Good(E, {}) /\ OfTable(D[d], E) /\ RootIsRoot(E)
  BY <1>1, SaneOn
<1>3. Failed(q) \/ (IsDir(E[q]) /\ E[q].size < SFS_ENTRYREFS)
  <2> SUFFICES ASSUME ~Failed(q) PROVE IsDir(E[q]) /\ E[q].size < SFS_ENTRYREFS
    OBVIOUS
  <2>1. OfTable(s.disk[DiskOf(path)], E)
    BY <1>2
  <2>2. q = path_parse_parent(s.disk[DiskOf(path)], NamesOf(path))
    BY <1>2, <2>1, DestinationIs
  <2> QED BY <2>2 DEF InDirectory, RoomInDirectory, IsDir
<1>4. d = DiskOf(path) /\ q = Destination(s.disk, path) /\ D = s.disk /\ t = fs_create_directory(s, path)
  OBVIOUS
<1> HIDE DEF d, D, E, q, t
<1>5. \/ Refused(t, D, d, E)
      \/ \E n : Added(t, D, d, E, n, T_DIR, q, name)
  <2>1. \/ Refused(fs_create_directory(s, path), D, d, E)
        \/ /\ ~Failed(q) /\ ~Failed(fs_create_directory(s, path).res)
           /\ \E n : Added(fs_create_directory(s, path), D, d, E, n, T_DIR, q, StoredName[Last(path)])
    BY <1>1, <1>2, <1>3, <1>4, CreatesDirectory
  <2> QED BY <1>4, <2>1
<1>6. Intact(t, D, d)
  <2>1. CASE Refused(t, D, d, E)
    BY <1>2, <2>1, IntactRefused
  <2>2. CASE \E n : Added(t, D, d, E, n, T_DIR, q, name)
    <3>1. PICK n : Added(t, D, d, E, n, T_DIR, q, name)
      BY <2>2
    <3> DEFINE F == Entered(E, n, T_DIR, q, name)
    <3>2. On(t, D, d, F) /\ Good(F, {})
      BY <3>1 DEF Added
    <3> HIDE DEF F
    <3> QED BY <3>2 DEF Intact
  <2> QED BY <1>5, <2>1, <2>2
<1> QED BY <1>1, <1>4, <1>6, IntactIsSane

\* fs_copy keeps every disk good.
LEMMA CopyKeeps ==
  ASSUME NEW s, Sane(s), ~Failed(s.res), NEW src \in CallPaths, NEW dst \in CallPaths,
         InDirectory(s.disk, src), InDirectory(s.disk, dst), RoomInDirectory(s.disk, dst)
  PROVE  Sane(fs_copy(s, src, dst))
<1> DEFINE d == DiskOf(dst)
           t == fs_copy(s, src, dst)
<1>1. d \in Disks /\ Intact(t, s.disk, d)
  BY CopiesEntry
<1> HIDE DEF d, t
<1>2. Sane(t)
  BY <1>1, IntactIsSane
<1> QED BY <1>2 DEF t

\* fs_move keeps every disk good.
LEMMA MoveKeeps ==
  ASSUME NEW s, Sane(s), ~Failed(s.res), NEW src \in CallPaths, NEW dst \in CallPaths,
         InDirectory(s.disk, src), InDirectory(s.disk, dst), RoomInDirectory(s.disk, dst) \/ Front(src) = Front(dst),
         ~IsPrefix(src, Sanitised(dst))
  PROVE  Sane(fs_move(s, src, dst))
<1>1. CASE DiskOf(src) # DiskOf(dst)
  <2>1. Front(src) # Front(dst)
    <3> SUFFICES ASSUME Front(src) = Front(dst) PROVE DiskOf(src) = DiskOf(dst)
      BY <1>1
    <3>1. Len(src) = Len(dst) /\ \A i \in 1 .. Len(src) - 1 : src[i] = dst[i]
      BY SameFront
    <3>2. Len(src) \in Nat /\ Len(src) > 1
      BY PathNames
    <3>3. src[1] = dst[1]
      BY <3>1, <3>2
    <3>4. src # <<>> /\ dst # <<>>
      BY <3>1, <3>2
    <3>5. DiskOf(src) = src[1] /\ DiskOf(dst) = dst[1]
      BY <3>4 DEF DiskOf
    <3> QED BY <3>3, <3>5
  <2> QED BY <1>1, <2>1, MovesAcross
<1>2. CASE DiskOf(src) = DiskOf(dst)
  <2> DEFINE d == DiskOf(src)
             D == s.disk
             E == D[d].entry
             ps == path_parse_parent(s.disk[d], NamesOf(src))
             pd == path_parse_parent(s.disk[d], NamesOf(dst))
             t == fs_move(s, src, dst)
  <2>1. d \in Disks
    BY PathNames
  <2>2. On(s, D, d, E) /\ Good(E, {})
    BY <2>1, SaneOn
  <2>3. Failed(ps) \/ IsDir(E[ps])
    BY DEF InDirectory, IsDir
  <2>4. Failed(pd) \/ IsDir(E[pd])
    BY <1>2 DEF InDirectory, IsDir
  <2>5. Failed(pd) \/ E[pd].size < SFS_ENTRYREFS \/ Front(src) = Front(dst)
    BY <1>2 DEF RoomInDirectory
  <2>6. d = DiskOf(src) /\ d = DiskOf(dst) /\ ps = path_parse_parent(s.disk[d], NamesOf(src))
        /\ pd = path_parse_parent(s.disk[d], NamesOf(dst)) /\ D = s.disk
    BY <1>2
  <2> HIDE DEF d, D, E, ps, pd
  <2>7. Intact(t, D, d)
    BY <2>1, <2>2, <2>3, <2>4, <2>5, <2>6, MovesEntry
  <2> HIDE DEF t
  <2>8. Sane(t)
    BY <2>1, <2>6, <2>7, IntactIsSane
  <2> QED BY <2>8 DEF t
<1> QED BY <1>1, <1>2

-----------------------------------------------------------------------------
(* The theorems. *)

\* What the theorems ask: no disk write fails, and programs keep the rules of the
\* discipline, but perhaps the one about empty files.
WritesSucceed == \A fuel \in Fuel : fuel < 0
Disciplined ==
  \A img_of \in [Disks -> Image], r \in Requests : Discipline(img_of, r) => AllBut(img_of, r, "empty")

\* A new file system is good.
LEMMA EmptyIsGood ==
  /\ EmptyImage \in Image /\ EmptyImage.smashed = {} /\ Good(EmptyImage.entry, {})
<1> DEFINE E == EmptyImage.entry
<1>1. /\ E = [n \in EntryIndex |-> IF n = 0 THEN RootEntry ELSE ZeroEntry] /\ EmptyImage.smashed = {}
      /\ EmptyImage.block = [b \in DataBlocks |-> [i \in 0 .. BLOCK_SIZE - 1 |-> Zero]]
  BY DEF EmptyImage
<1>2. /\ RootEntry \in Entry /\ RootEntry.flags = T_DIR /\ RootEntry.name = ROOT_DIR_NAME /\ RootEntry.parent = 0
      /\ RootEntry.next = 0 /\ RootEntry.size = 0 /\ \A i \in RefIndex : RootEntry.ref[i] = 0
  <2>1. 0 \in EntryIndex
    BY Numbers
  <2> QED BY <2>1 DEF RootEntry, ZeroEntry, NoRefs, Entry
<1>3. ZeroEntry \in Entry /\ ZeroEntry.flags = FREE /\ \A i \in RefIndex : ZeroEntry.ref[i] = 0
  BY ZeroIsEntry
<1>4. E \in Table
  BY <1>1, <1>2, <1>3 DEF Table
<1>5. EmptyImage \in Image
  <2>1. EmptyImage.block \in [DataBlocks -> [0 .. BLOCK_SIZE - 1 -> Bytes \cup {Zero, System}]]
    BY <1>1
  <2>2. EmptyImage = [entry |-> E, block |-> EmptyImage.block, smashed |-> {}]
    BY DEF EmptyImage
  <2>3. E \in [EntryIndex -> Entry]
    BY <1>4 DEF Table
  <2> HIDE DEF E
  <2> DEFINE b == EmptyImage.block
  <2>4. b \in [DataBlocks -> [0 .. BLOCK_SIZE - 1 -> Bytes \cup {Zero, System}]] /\ EmptyImage = [entry |-> E, block |-> b, smashed |-> {}]
    BY <2>1, <2>2
  <2> HIDE DEF b
  <2> QED BY <2>3, <2>4 DEF Image
<1>6. UsedIn(E) = {0} /\ E[0] = RootEntry /\ \A n \in EntryIndex : n # 0 => E[n] = ZeroEntry
  BY <1>1, <1>2, <1>3, Numbers DEF UsedIn, T_DIR, FREE
<1>7. \A n \in EntryIndex : IsDir(E[n]) => n = 0
  BY <1>3, <1>6 DEF IsDir, T_DIR, FREE
<1>8. \A n \in EntryIndex : ~IsFile(E[n])
  BY <1>2, <1>3, <1>6 DEF IsFile, T_FILE, T_DIR, FREE
<1>9. \A n \in EntryIndex, i \in RefIndex : E[n].ref[i] = 0
  BY <1>2, <1>3, <1>6
<1> HIDE DEF E
<1>10. SFS_ENTRYREFS \in Nat
  BY Numbers
<1>11. RootIsRoot(E) /\ FreeIsZero(E) /\ DirsFit(E) /\ StoredNames(E)
  <2>1. RootIsRoot(E)
    BY <1>2, <1>6 DEF RootIsRoot
  <2>2. FreeIsZero(E)
    BY <1>2, <1>6 DEF FreeIsZero, T_DIR, FREE
  <2>3. DirsFit(E)
    BY <1>2, <1>6, <1>7, <1>10 DEF DirsFit
  <2>4. StoredNames(E)
    BY <1>6 DEF StoredNames
  <2> QED BY <2>1, <2>2, <2>3, <2>4
<1>12. Chains(E) /\ Parents(E, {}) /\ DirNames(E) /\ Refs(E) /\ OneOwner(E)
  BY <1>6, <1>8, <1>9 DEF Chains, Parents, DirNames, Refs, OneOwner
<1>13. Listings(E, {})
  <2> SUFFICES ASSUME NEW p \in EntryIndex, IsDir(E[p]), NEW i \in 0 .. E[p].size - 1 PROVE FALSE
    BY DEF Listings
  <2>1. E[p].size = 0
    BY <1>2, <1>6, <1>7
  <2> QED BY <2>1
<1>14. Rooted(E)
  BY <1>6 DEF Rooted
<1> QED BY <1>1, <1>5, <1>11, <1>12, <1>13, <1>14 DEF Good, E

\* Where a call begins.
LEMMA SaneBegin ==
  ASSUME disk \in [Disks -> Image], IInv, NEW fuel \in Int, fuel < 0, NEW s, s = Begin(disk, fuel)
  PROVE  Sane(s) /\ ~Failed(s.res) /\ s.disk = disk
<1>1. s = [disk |-> disk, fuel |-> fuel, res |-> 0]
  BY DEF Begin, NO_ERROR
<1>2. s \in CallStates
  BY <1>1 DEF CallStates
<1> QED BY <1>1, <1>2 DEF Sane, IInv, Failed

\* The fields of what the programs ask for.
LEMMA RequestFields ==
  ASSUME NEW r \in Requests
  PROVE  /\ r.path \in CallPaths
         /\ r.op = "write" => r.offset \in Nat /\ r.data \in Seq(Bytes) /\ r.create \in BOOLEAN
         /\ r.op \in {"move", "copy"} => r.to \in CallPaths
<1>1. \/ r \in [op : {"write"}, path : CallPaths, offset : Nat, data : Seq(Bytes), create : BOOLEAN, truncate : BOOLEAN]
      \/ r \in [op : {"delete", "mkdir"}, path : CallPaths]
      \/ r \in [op : {"move", "copy"}, path : CallPaths, to : CallPaths]
  BY CallsAssumption
<1>2. CASE r \in [op : {"write"}, path : CallPaths, offset : Nat, data : Seq(Bytes), create : BOOLEAN, truncate : BOOLEAN]
  BY <1>2
<1>3. CASE r \in [op : {"delete", "mkdir"}, path : CallPaths]
  BY <1>3
<1>4. CASE r \in [op : {"move", "copy"}, path : CallPaths, to : CallPaths]
  BY <1>4
<1> QED BY <1>1, <1>2, <1>3, <1>4

\* What a call that leaves every disk in order answers with.
LEMMA Answered ==
  ASSUME NEW r \in Requests, NEW s, Sane(s), Answer(r, s)
  PROVE  (TypeOK /\ IInv)'
<1>1. disk' = s.disk /\ ret' = s.res /\ call' = r
  BY DEF Answer
<1>2. s.disk \in [Disks -> Image] /\ s.res \in Int
  BY DEF Sane, CallStates
<1> QED BY <1>1, <1>2 DEF TypeOK, IInv, Sane

\* Every call keeps the types and the invariant.
LEMMA CallKeeps ==
  ASSUME WritesSucceed, Disciplined, TypeOK, IInv, NEW r \in Requests, NEW fuel \in Fuel, Discipline(disk, r),
         WriteFile(r, fuel) \/ Delete(r, fuel) \/ CreateDirectory(r, fuel) \/ Move(r, fuel) \/ Copy(r, fuel)
  PROVE  (TypeOK /\ IInv)'
<1> DEFINE s == Begin(disk, fuel)
<1>1. disk \in [Disks -> Image] /\ fuel \in Int /\ fuel < 0
  BY CallsAssumption DEF TypeOK, WritesSucceed
<1>2. s = Begin(disk, fuel)
  OBVIOUS
<1> HIDE DEF s
<1>3. Sane(s) /\ ~Failed(s.res) /\ s.disk = disk
  BY <1>1, <1>2, SaneBegin
<1>4. AllBut(s.disk, r, "empty")
  BY <1>1, <1>3 DEF Disciplined
<1>5. /\ InDirectory(s.disk, r.path) /\ (Moves(r) => InDirectory(s.disk, r.to))
      /\ Creates(s.disk, r) => RoomInDirectory(s.disk, r.path)
      /\ Moves(r) /\ ~Renames(r) => RoomInDirectory(s.disk, r.to)
      /\ Moves(r) => ~IsPrefix(r.path, Sanitised(r.to))
  BY <1>4, RulesOf
<1>6. /\ r.path \in CallPaths
      /\ r.op = "write" => r.offset \in Nat /\ r.data \in Seq(Bytes) /\ r.create \in BOOLEAN
      /\ r.op \in {"move", "copy"} => r.to \in CallPaths
  BY RequestFields
<1>7. CASE WriteFile(r, fuel)
  <2>1. r.op = "write" /\ Answer(r, fs_write_file(s, r.path, r.offset, r.data, r.create, r.truncate))
    BY <1>2, <1>7 DEF WriteFile
  <2>2. Sane(fs_write_file(s, r.path, r.offset, r.data, r.create, r.truncate))
    BY <1>3, <1>4, <1>6, <2>1, WriteKeeps
  <2> QED BY <2>1, <2>2, Answered
<1>8. CASE Delete(r, fuel)
  <2>1. Answer(r, fs_delete(s, r.path))
    BY <1>2, <1>8 DEF Delete
  <2>2. Sane(fs_delete(s, r.path))
    BY <1>3, <1>5, <1>6, DeleteKeeps
  <2> QED BY <2>1, <2>2, Answered
<1>9. CASE CreateDirectory(r, fuel)
  <2>1. r.op = "mkdir" /\ Answer(r, fs_create_directory(s, r.path))
    BY <1>2, <1>9 DEF CreateDirectory
  <2>2. Sane(fs_create_directory(s, r.path))
    BY <1>3, <1>5, <1>6, <2>1, MkdirKeeps DEF Creates
  <2> QED BY <2>1, <2>2, Answered
<1>10. CASE Move(r, fuel)
  <2>1. r.op = "move" /\ Answer(r, fs_move(s, r.path, r.to))
    BY <1>2, <1>10 DEF Move
  <2>2. RoomInDirectory(s.disk, r.to) \/ Front(r.path) = Front(r.to)
    BY <1>5, <2>1 DEF Moves, Renames
  <2>3. Sane(fs_move(s, r.path, r.to))
    BY <1>3, <1>5, <1>6, <2>1, <2>2, MoveKeeps DEF Moves
  <2> QED BY <2>1, <2>3, Answered
<1>11. CASE Copy(r, fuel)
  <2>1. r.op = "copy" /\ Answer(r, fs_copy(s, r.path, r.to))
    BY <1>2, <1>11 DEF Copy
  <2>2. Sane(fs_copy(s, r.path, r.to))
    BY <1>3, <1>5, <1>6, <2>1, CopyKeeps DEF Moves, Renames
  <2> QED BY <2>1, <2>2, Answered
<1> QED BY <1>7, <1>8, <1>9, <1>10, <1>11

\* Every disk is in order all the time: the entries of a disk are what source/fs.h
\* says they are, when the writes of a call succeed and programs keep the rules.
THEOREM DisksStayInOrder ==
  ASSUME WritesSucceed, Disciplined
  PROVE  Spec => [](TypeOK /\ IInv)
<1>1. Init => TypeOK /\ IInv
  BY EmptyIsGood DEF Init, TypeOK, IInv, NO_ERROR
<1>2. TypeOK /\ IInv /\ [Next]_vars => (TypeOK /\ IInv)'
  <2> SUFFICES ASSUME TypeOK, IInv, [Next]_vars PROVE (TypeOK /\ IInv)'
    OBVIOUS
  <2>1. CASE Next
    <3>1. PICK r \in Requests, fuel \in Fuel :
             /\ Discipline(disk, r)
             /\ WriteFile(r, fuel) \/ Delete(r, fuel) \/ CreateDirectory(r, fuel) \/ Move(r, fuel) \/ Copy(r, fuel)
      BY <2>1 DEF Next
    <3> QED BY <3>1, CallKeeps
  <2>2. CASE UNCHANGED vars
    BY <2>2 DEF vars, TypeOK, IInv
  <2> QED BY <2>1, <2>2
<1> QED BY <1>1, <1>2, PTL DEF Spec

\* Results and entries have their types all the time (the results and error codes
\* that source/fs.c returns, and the fields that source/fs.h:60 gives an entry).
THEOREM TypesAreKept ==
  ASSUME WritesSucceed, Disciplined
  PROVE  Spec => []TypeOK
BY DisksStayInOrder, PTL

\* So every promise of source/fs.h about a disk holds all the time.
LEMMA PromisesHold ==
  ASSUME WritesSucceed, Disciplined
  PROVE  Spec => [](Sound /\ NoDataOverTable)
<1>1. TypeOK /\ IInv => Sound /\ NoDataOverTable
  BY GoodPromises DEF TypeOK
<1> QED BY <1>1, DisksStayInOrder, PTL

\* A block is at one place of one file: no call of source/fs.c gives a file a block
\* that a file has (find_free_block looks at the disk, the references that a call
\* has not written yet are in memory).
THEOREM NoBlockIsShared ==
  ASSUME WritesSucceed, Disciplined
  PROVE  Spec => []BlocksOwnedOnce
<1>1. Sound => BlocksOwnedOnce
  BY DEF Sound
<1> QED BY <1>1, PromisesHold, PTL

\* A reference that the size of an entry does not cover is 0, after set_entry_refcount
\* and remove_ref_in_entry have cut entries shorter.
THEOREM NothingIsLeftBehind ==
  ASSUME WritesSucceed, Disciplined
  PROVE  Spec => []DeadRefsAreZero
<1>1. Sound => DeadRefsAreZero
  BY DEF Sound
<1> QED BY <1>1, PromisesHold, PTL

\* The entries of a file are one chain, and each of them holds the size that did not
\* fit before it (set_entry_size and set_entry_refcount, called one after the other).
THEOREM ChainsAreWhole ==
  ASSUME WritesSucceed, Disciplined
  PROVE  Spec => []ChainsCarryTheSize
<1>1. Sound => ChainsCarryTheSize
  BY DEF Sound
<1> QED BY <1>1, PromisesHold, PTL

\* What fs_list walks, the references of a directory, is what fs_get_entry finds in the
\* table by parent and name.
THEOREM ListingsAreLookups ==
  ASSUME WritesSucceed, Disciplined
  PROVE  Spec => []ListingsMatchLookups
<1>1. Sound => ListingsMatchLookups
  BY DEF Sound
<1> QED BY <1>1, PromisesHold, PTL

\* No call leaves an entry that no path leads to: delete_n frees all that is below a
\* directory, and fs_move makes no cycle.
THEOREM NothingIsLost ==
  ASSUME WritesSucceed, Disciplined
  PROVE  Spec => []EveryEntryUnderRoot
<1>1. Sound => EveryEntryUnderRoot
  BY DEF Sound
<1> QED BY <1>1, PromisesHold, PTL

\* A path names one entry: fs_write_file, fs_create_directory, fs_move and fs_copy
\* look for the name before they make it.
THEOREM PathsNameOneEntry ==
  ASSUME WritesSucceed, Disciplined
  PROVE  Spec => []NamesAreUnique
<1>1. Sound => NamesAreUnique
  BY DEF Sound
<1> QED BY <1>1, PromisesHold, PTL

\* File data goes to data blocks only: every reference that fs_write_file writes
\* through is a block of the file, never 0 and never an entry.
THEOREM TablesAreNotOverwritten ==
  ASSUME WritesSucceed, Disciplined
  PROVE  Spec => []NoDataOverTable
BY PromisesHold, PTL
=============================================================================
