-------------------------- MODULE BlockTreeProofs --------------------------
(***************************************************************************)
(* Lemmas about walks along pprev, for every block tree, and about the     *)
(* search for a checkpoint (komodo_state::NotarizedData), for any number   *)
(* of checkpoints and any cached index.                                    *)
(***************************************************************************)
EXTENDS Checkpoints, WellFoundedInduction, TLAPS

----------------------------------------------------------------------------
(***************************************************************************)
(* Walks along pprev.                                                      *)
(***************************************************************************)

\* A walk along pprev (CBlockIndex::pprev) starts at its block and continues
\* with the walk of the parent.
LEMMA PathParent ==
    ASSUME NEW b \in Block
    PROVE  /\ b \in Path[b]
           /\ Path[b] \subseteq Block
           /\ b # Genesis => /\ Parent[b] \in Path[b]
                             /\ Path[b] = Path[Parent[b]] \cup {b}
                             /\ Height[b] = Height[Parent[b]] + 1
                             /\ Parent[b] \in Block
  <1>1. Path[b] \subseteq Block
    BY TypeAssumption
  <1>2. \A c \in Block : c \in Path[c]
    BY GenesisAssumption, PathAssumption
  <1>3. b # Genesis => Parent[b] \in Block /\ Height[b] = Height[Parent[b]] + 1
    BY TypeAssumption, TreeAssumption
  <1>. QED
    BY <1>1, <1>2, <1>3, PathAssumption

\* A walk along pprev, by induction on the height: it passes one block of each
\* height, from any of its blocks on it is the walk of that block, and the work
\* grows along it.
IsWalk(b) ==
    /\ \A h \in 0 .. Height[b] : \E a \in Path[b] : Height[a] = h
    /\ \A a, c \in Path[b] : Height[a] = Height[c] => a = c
    /\ \A a \in Path[b] : Height[a] <= Height[b] /\ Path[a] \subseteq Path[b]
    /\ \A a \in Path[b] \ {b} : ChainWork[a] < ChainWork[b]

\* The walk of a block is that of its parent and one block more.
LEMMA WalkExtends ==
    ASSUME NEW b \in Block, b # Genesis => IsWalk(Parent[b])
    PROVE  IsWalk(b)
  <1>1. CASE b = Genesis
    <2>1. Path[b] = {b} /\ Height[b] = 0
      BY <1>1, PathAssumption, TreeAssumption
    <2>. QED
      BY <2>1 DEF IsWalk
  <1>2. CASE b # Genesis
    <2>. DEFINE p == Parent[b]
    <2>1. IsWalk(p) /\ p \in Block /\ Path[b] = Path[p] \cup {b} /\ Height[b] = Height[p] + 1
      BY <1>2, PathParent
    <2>2. ChainWork[p] < ChainWork[b]
      <3>1. ChainWork[b] > ChainWork[p] /\ ChainWork[b] \in Nat /\ ChainWork[p] \in Nat
        BY <1>2, <2>1, TreeAssumption, TypeAssumption
      <3>. QED
        BY <3>1
    <2>3. /\ Height[p] \in Nat /\ Height[b] \in Nat
          /\ \A a \in Path[b] : Height[a] \in Nat
          /\ \A a \in Path[b] \cup {p} : ChainWork[a] \in Nat
      BY <2>1, PathParent, TypeAssumption
    <2>. HIDE DEF p
    <2>4. ASSUME NEW h \in 0 .. Height[b] PROVE \E a \in Path[b] : Height[a] = h
      <3>1. CASE h = Height[b]
        BY <2>1, <3>1
      <3>2. CASE h # Height[b]
        <4>1. h \in 0 .. Height[p]
          BY <2>1, <2>3, <3>2
        <4>. QED
          BY <2>1, <4>1 DEF IsWalk
      <3>. QED
        BY <3>1, <3>2
    <2>5. \A a \in Path[p] : Height[a] <= Height[p]
      BY <2>1 DEF IsWalk
    <2>6. \A a \in Path[p] : Height[a] < Height[b]
      BY <2>1, <2>3, <2>5
    <2>7. \A a, c \in Path[b] : Height[a] = Height[c] => a = c
      BY <2>1, <2>3, <2>6 DEF IsWalk
    <2>8. \A a \in Path[b] : Height[a] <= Height[b]
      BY <2>1, <2>3, <2>6
    <2>9. \A a \in Path[b] : Path[a] \subseteq Path[b]
      BY <2>1, ZenonT(60) DEF IsWalk
    <2>10. ASSUME NEW a \in Path[b] \ {b} PROVE ChainWork[a] < ChainWork[b]
      <3>1. a \in Path[p]
        BY <2>1
      <3>2. a = p \/ ChainWork[a] < ChainWork[p]
        BY <2>1, <3>1 DEF IsWalk
      <3>3. ChainWork[a] \in Nat /\ ChainWork[b] \in Nat /\ ChainWork[p] \in Nat
        BY <2>1, <2>3
      <3>. QED
        BY <2>2, <3>2, <3>3
    <2>. QED
      BY <2>4, <2>7, <2>8, <2>9, <2>10 DEF IsWalk
  <1>. QED
    BY <1>1, <1>2

\* So every walk is one (CBlockIndex::GetAncestor).
LEMMA EveryWalk == \A b \in Block : IsWalk(b)
  <1>. DEFINE Odd == {b \in Block : ~IsWalk(b)}
              H == {Height[b] : b \in Odd}
  <1>. SUFFICES ASSUME Odd # {} PROVE FALSE
    OBVIOUS
  <1>1. H \subseteq Nat /\ H # {}
    BY TypeAssumption
  <1>2. PICK h \in H : \A k \in H : ~(<<k, h>> \in OpToRel(<, Nat))
    BY <1>1, NatLessThanWellFounded, WFMin, ZenonT(60)
  <1>3. PICK b \in Odd : h = Height[b]
    OBVIOUS
  <1>4. b # Genesis
    BY WalkExtends
  <1>5. Parent[b] \in Block /\ Height[b] = Height[Parent[b]] + 1
    BY <1>4, PathParent
  <1>6. Height[Parent[b]] < h /\ Height[Parent[b]] \in Nat /\ h \in Nat
    BY <1>3, <1>5, TypeAssumption
  <1>7. <<Height[Parent[b]], h>> \in OpToRel(<, Nat)
    BY <1>6, Zenon DEF OpToRel
  <1>8. Height[Parent[b]] \notin H
    BY <1>2, <1>7, Zenon
  <1>9. IsWalk(Parent[b])
    BY <1>5, <1>8
  <1>. QED
    BY <1>3, <1>9, WalkExtends

\* The first three facts about walks (GetAncestor, CChain::Contains).
LEMMA Ancestry ==
    \A b \in Block :
        /\ \A h \in 0 .. Height[b] : \E a \in Path[b] : Height[a] = h
        /\ \A a, c \in Path[b] : Height[a] = Height[c] => a = c
        /\ \A a \in Path[b] : Height[a] <= Height[b] /\ Path[a] \subseteq Path[b]
  BY EveryWalk DEF IsWalk

\* nChainWork grows along every walk.
LEMMA WorkGrows == \A b \in Block : \A a \in Path[b] \ {b} : ChainWork[a] < ChainWork[b]
  BY EveryWalk DEF IsWalk

\* Of two blocks on one walk, the lower is on the walk of the higher
\* (CChain::Contains and GetAncestor rely on it).
LEMMA PathOrder ==
    ASSUME NEW b \in Block, NEW a \in Path[b], NEW c \in Path[b], Height[a] <= Height[c]
    PROVE  a \in Path[c]
  <1>1. a \in Block /\ c \in Block
    BY PathParent
  <1>2. Height[a] \in 0 .. Height[c]
    BY <1>1, TypeAssumption
  <1>3. PICK d \in Path[c] : Height[d] = Height[a]
    BY <1>1, <1>2, Ancestry
  <1>4. d \in Path[b]
    BY <1>1, Ancestry
  <1>. QED
    BY <1>3, <1>4, Ancestry

\* The ancestor of x one above a proper ancestor p of x is a child of p: the
\* block ActivateBestChainStep connects next.
LEMMA NextIsChild ==
    ASSUME NEW x \in Block, NEW p \in Path[x], p # x
    PROVE  LET n == GetAncestor(x, Height[p] + 1)
           IN  n \in Path[x] /\ n # Genesis /\ Parent[n] = p
  <1>. DEFINE n == GetAncestor(x, Height[p] + 1)
  <1>1. p \in Block /\ x \in Path[x]
    BY PathParent
  <1>2. Height[p] \in Nat /\ Height[x] \in Nat
    BY <1>1, TypeAssumption
  <1>3. Height[p] <= Height[x] /\ Height[p] # Height[x]
    BY <1>1, Ancestry
  <1>4. Height[p] + 1 \in 0 .. Height[x]
    BY <1>2, <1>3
  <1>5. n \in Path[x] /\ Height[n] = Height[p] + 1
    BY <1>4, Ancestry DEF GetAncestor
  <1>6. n \in Block /\ n # Genesis
    BY <1>2, <1>5, PathParent, TreeAssumption
  <1>7. Parent[n] \in Path[x] /\ Height[Parent[n]] + 1 = Height[p] + 1 /\ Parent[n] \in Block
    BY <1>5, <1>6, PathParent, Ancestry
  <1>8. Height[Parent[n]] = Height[p]
    BY <1>2, <1>7, TypeAssumption
  <1>9. Parent[n] = p
    BY <1>7, <1>8, Ancestry
  <1>. QED
    BY <1>5, <1>6, <1>9

\* A proper ancestor of a block is on the walk of its parent: disconnecting
\* the tip keeps every other block of the active chain.
LEMMA ProperAncestor ==
    ASSUME NEW b \in Block, NEW a \in Path[b], a # b
    PROVE  b # Genesis /\ a \in Path[Parent[b]]
  <1>1. b # Genesis
    BY PathAssumption
  <1>. QED
    BY <1>1, PathParent

\* Every walk along pprev ends at the genesis block.
LEMMA GenesisOnPath ==
    ASSUME NEW b \in Block
    PROVE  Genesis \in Path[b]
  <1>1. 0 \in 0 .. Height[b]
    BY TypeAssumption
  <1>2. PICK a \in Path[b] : Height[a] = 0
    BY <1>1, Ancestry
  <1>3. a \in Block
    BY PathParent
  <1>4. a # Genesis => Height[a] = Height[Parent[a]] + 1 /\ Height[Parent[a]] \in Nat
    BY <1>3, PathParent, TypeAssumption
  <1>. QED
    BY <1>2, <1>4

\* CChain::FindFork finds the highest common block of two walks.
LEMMA ForkFacts ==
    ASSUME NEW t \in Block, NEW b \in Block
    PROVE  /\ FindFork(t, b) \in Path[b] \cap Path[t]
           /\ \A a \in Path[b] \cap Path[t] : Height[a] <= Height[FindFork(t, b)]
  <1>. DEFINE S == Path[b] \cap Path[t]
              D == {Height[t] - Height[a] : a \in S}
  <1>1. Height[t] \in Nat /\ \A a \in S : Height[a] \in Nat /\ Height[a] <= Height[t]
    BY TypeAssumption, Ancestry
  <1>2. D \subseteq Nat
    BY <1>1
  <1>3. D # {}
    BY GenesisOnPath
  <1>4. PICK d \in D : \A e \in D : ~(<<e, d>> \in OpToRel(<, Nat))
    BY <1>2, <1>3, NatLessThanWellFounded, WFMin, ZenonT(60)
  <1>5. \A e \in D : d <= e
    <2>1. ASSUME NEW e \in D, e < d PROVE FALSE
      <3>1. d \in Nat /\ e \in Nat
        BY <1>2, <2>1
      <3>2. <<e, d>> \in OpToRel(<, Nat)
        BY <2>1, <3>1, Zenon DEF OpToRel
      <3>. QED
        BY <1>4, <2>1, <3>2, Zenon
    <2>2. \A e \in D : d \in Nat /\ e \in Nat
      BY <1>2
    <2>. HIDE DEF D
    <2>. QED
      BY <2>1, <2>2
  <1>6. PICK f \in S : d = Height[t] - Height[f]
    OBVIOUS
  <1>7. ASSUME NEW a \in S PROVE Height[a] <= Height[f]
    <2>1. d <= Height[t] - Height[a]
      BY <1>5
    <2>. HIDE DEF S, D
    <2>. QED
      BY <1>1, <1>6, <2>1
  <1>8. \E g \in S : \A a \in S : Height[a] <= Height[g]
    BY <1>7
  <1>. QED
    BY <1>8, ZenonT(60) DEF FindFork

\* Two walks part at p and q: siblings, each on one walk only.
Part(a, c, p, q) ==
    p \in Path[a] \ Path[c] /\ q \in Path[c] \ Path[a] /\ Parent[p] = Parent[q]

\* What the siblings where two walks part (pprev) have in common.
LEMMA PartFacts ==
    ASSUME NEW a \in Block, NEW c \in Block, NEW p, NEW q, Part(a, c, p, q)
    PROVE  /\ p \in Block \ {Genesis} /\ q \in Block \ {Genesis}
           /\ Height[p] = Height[q] /\ Height[p] \in Nat
           /\ Path[Parent[p]] \subseteq Path[a] \cap Path[c]
  <1>1. p \in Block \ {Genesis} /\ q \in Block \ {Genesis}
    BY PathParent, GenesisOnPath DEF Part
  <1>2. Height[p] = Height[q]
    BY <1>1, PathParent DEF Part
  <1>3. Height[p] \in Nat
    BY <1>1, TypeAssumption
  <1>4. Path[Parent[p]] \subseteq Path[p] /\ Path[Parent[q]] \subseteq Path[q]
    BY <1>1, PathParent
  <1>5. Path[p] \subseteq Path[a] /\ Path[q] \subseteq Path[c]
    BY Ancestry DEF Part
  <1>. QED
    BY <1>1, <1>2, <1>3, <1>4, <1>5 DEF Part

\* Two walks part in one place.
LEMMA PartUnique ==
    ASSUME NEW a \in Block, NEW c \in Block, NEW p, NEW q, Part(a, c, p, q),
           NEW r, NEW s, Part(a, c, r, s)
    PROVE  p = r /\ q = s
  <1>1. ASSUME NEW x \in Path[a] \ Path[c], NEW y \in Path[a] \ Path[c],
               x \in Block, y \in Block, y # Genesis,
               Path[Parent[y]] \subseteq Path[c], Height[x] <= Height[y]
        PROVE  Height[x] = Height[y]
    <2>1. x \in Path[y]
      BY <1>1, PathOrder
    <2>2. x = y
      BY <1>1, <2>1, ProperAncestor
    <2>. QED
      BY <2>2
  <1>2. /\ p \in Block /\ p # Genesis /\ r \in Block /\ r # Genesis
        /\ Path[Parent[p]] \subseteq Path[c] /\ Path[Parent[r]] \subseteq Path[c]
        /\ Height[p] \in Nat /\ Height[r] \in Nat
        /\ Height[p] = Height[q] /\ Height[r] = Height[s]
    BY PartFacts
  <1>3. Height[p] <= Height[r] \/ Height[r] <= Height[p]
    BY <1>2
  <1>4. Height[p] = Height[r]
    BY <1>1, <1>2, <1>3 DEF Part
  <1>5. p \in Path[a] /\ r \in Path[a] /\ q \in Path[c] /\ s \in Path[c]
    BY DEF Part
  <1>6. p = r
    BY <1>4, <1>5, Ancestry
  <1>7. q = s
    BY <1>2, <1>4, <1>5, Ancestry
  <1>. QED
    BY <1>6, <1>7

\* Two walks part unless one holds the other.
LEMMA PartExists ==
    ASSUME NEW a \in Block, NEW c \in Block, a \notin Path[c], c \notin Path[a]
    PROVE  \E p \in Path[a], q \in Path[c] : Part(a, c, p, q)
  <1>. DEFINE f == FindFork(a, c)
              p == GetAncestor(a, Height[f] + 1)
              q == GetAncestor(c, Height[f] + 1)
  <1>1. /\ f \in Path[c] /\ f \in Path[a] /\ f \in Block /\ f # a /\ f # c
        /\ \A x \in Path[c] \cap Path[a] : Height[x] <= Height[f]
    <2>1. /\ f \in Path[c] /\ f \in Path[a]
          /\ \A x \in Path[c] \cap Path[a] : Height[x] <= Height[f]
      BY ForkFacts
    <2>. HIDE DEF f
    <2>2. f \in Block
      BY <2>1, PathParent
    <2>. QED
      BY <2>1, <2>2
  <1>2. p \in Path[a] /\ p # Genesis /\ Parent[p] = f
    BY <1>1, NextIsChild
  <1>3. q \in Path[c] /\ q # Genesis /\ Parent[q] = f
    BY <1>1, NextIsChild
  <1>. HIDE DEF f, p, q
  <1>4. Height[p] = Height[f] + 1 /\ Height[q] = Height[f] + 1 /\ Height[f] \in Nat
    <2>1. p \in Block /\ q \in Block
      BY <1>2, <1>3, PathParent
    <2>2. Height[f] \in Nat
      BY <1>1, TypeAssumption
    <2>. QED
      BY <1>2, <1>3, <2>1, <2>2, PathParent
  <1>5. ~(Height[p] <= Height[f]) /\ ~(Height[q] <= Height[f])
    BY <1>4
  <1>6. p \notin Path[c] /\ q \notin Path[a]
    BY <1>1, <1>2, <1>3, <1>5
  <1>. QED
    BY <1>2, <1>3, <1>6 DEF Part

\* Where x and z part, given where x and y, and y and z part.
LEMMA PartTrans ==
    ASSUME NEW x \in Block, NEW y \in Block, NEW z \in Block,
           NEW p, NEW q, Part(x, y, p, q), NEW r, NEW s, Part(y, z, r, s)
    PROVE  \/ Part(x, z, p, q)
           \/ Part(x, z, r, s)
           \/ q = r /\ (p = s \/ Part(x, z, p, s))
  <1>1. /\ {p, q, r, s} \subseteq Block \ {Genesis}
        /\ Height[p] = Height[q] /\ Height[p] \in Nat
        /\ Height[r] = Height[s] /\ Height[r] \in Nat
        /\ Path[Parent[p]] \subseteq Path[x] /\ Path[Parent[s]] \subseteq Path[z]
        /\ Parent[p] = Parent[q] /\ Parent[r] = Parent[s]
    <2>1. /\ {p, q} \subseteq Block \ {Genesis} /\ Height[p] = Height[q] /\ Height[p] \in Nat
          /\ Path[Parent[p]] \subseteq Path[x]
      BY PartFacts
    <2>2. /\ {r, s} \subseteq Block \ {Genesis} /\ Height[r] = Height[s] /\ Height[r] \in Nat
          /\ Path[Parent[r]] \subseteq Path[z]
      BY PartFacts
    <2>. QED
      BY <2>1, <2>2 DEF Part
  <1>2. CASE Height[q] < Height[r]
    <2>1. q \in Path[r] /\ q # r
      BY <1>1, <1>2, PathOrder DEF Part
    <2>2. q \in Path[z]
      BY <1>1, <2>1, ProperAncestor
    <2>3. p \notin Path[z]
      BY <1>1, <2>2, Ancestry DEF Part
    <2>. QED
      BY <2>2, <2>3 DEF Part
  <1>3. CASE Height[r] < Height[q]
    <2>1. r \in Path[q] /\ q # r
      BY <1>1, <1>3, PathOrder DEF Part
    <2>2. r \in Path[x]
      BY <1>1, <2>1, ProperAncestor
    <2>3. s \notin Path[x]
      BY <1>1, <2>2, Ancestry DEF Part
    <2>. QED
      BY <2>2, <2>3 DEF Part
  <1>4. CASE Height[r] = Height[q]
    <2>1. q \in Path[y] /\ r \in Path[y] /\ p \in Path[x] /\ s \in Path[z]
      BY DEF Part
    <2>2. q = r
      BY <1>4, <2>1, Ancestry
    <2>3. Height[p] = Height[s]
      BY <1>1, <1>4
    <2>4. p \in Path[z] => p = s
      BY <2>1, <2>3, Ancestry
    <2>5. s \in Path[x] => p = s
      BY <2>1, <2>3, Ancestry
    <2>. QED
      BY <2>2, <2>4, <2>5 DEF Part
  <1>. QED
    BY <1>1, <1>2, <1>3, <1>4
----------------------------------------------------------------------------
(***************************************************************************)
(* The search for a checkpoint.                                            *)
(***************************************************************************)
\* The checkpoints record the height of the block that carried them.
Heights(Points) == \A p \in Points : p.nHeight \in Nat

\* A search from an index stops at i.
IsStop(N, from, h, i) ==
    /\ i \in from .. Len(N)
    /\ i = Len(N) \/ N[i + 1].nHeight >= h
    /\ \A j \in from .. i - 1 : N[j + 1].nHeight < h

\* A search from an index up to the end stops where SearchStop says: the place
\* exists and is unique.
LEMMA SearchStopExists ==
    ASSUME NEW Points, Heights(Points), NEW N \in Seq(Points), NEW from \in 0 .. Len(N), NEW h \in Nat
    PROVE  IsStop(N, from, h, SearchStop(N, from, h))
<1> DEFINE Stops(i) == i = Len(N) \/ N[i + 1].nHeight >= h
           S == {k \in Nat : from + k <= Len(N) /\ Stops(from + k)}
<1>1. Len(N) - from \in S
  OBVIOUS
<1>2. PICK k \in S : \A m \in S : k <= m
  <2>1. S \subseteq Nat /\ S # {}
    BY <1>1, ZenonT(60)
  <2>2. PICK k \in S : \A m \in S : ~(<<m, k>> \in OpToRel(<, Nat))
    BY <2>1, NatLessThanWellFounded, WFMin, ZenonT(60)
  <2>3. ASSUME NEW m \in S PROVE k <= m
    <3>1. k \in Nat /\ m \in Nat
      OBVIOUS
    <3>2. ~(m < k)
      <4>1. (m < k) => <<m, k>> \in OpToRel(<, Nat)
        BY <3>1, Zenon DEF OpToRel
      <4>2. QED
        BY <4>1, <2>2, ZenonT(60)
    <3>3. QED
      BY <3>1, <3>2
  <2>4. QED
    BY <2>3, Zenon
<1>3. from + k \in from .. Len(N)
  OBVIOUS
<1>4. ASSUME NEW j \in from .. (from + k) - 1
      PROVE  N[j + 1].nHeight < h
  <2>1. j - from \in Nat /\ j - from < k /\ from + (j - from) = j
    BY <1>2
  <2> DEFINE m == j - from
  <2>2. m \notin S
    <3>1. m \in Nat /\ m < k /\ k \in Nat
      BY <2>1, <1>2
    <3> HIDE DEF m, S
    <3>2. QED
      BY <3>1, <1>2
  <2>3. ~Stops(j)
    <3>1. from + m <= Len(N)
      BY <2>1, <1>3
    <3>2. m \in Nat /\ from + m = j
      BY <2>1
    <3> HIDE DEF m, Stops
    <3>3. ~Stops(from + m)
      BY <3>1, <3>2, <2>2
    <3>4. QED
      BY <3>2, <3>3
  <2>4. j + 1 \in 1 .. Len(N)
    BY <2>3, <1>3, <2>1
  <2>5. N[j + 1] \in Points
    BY <2>4
  <2> DEFINE x == N[j + 1].nHeight
  <2>6. x \in Nat
    BY <2>5 DEF Heights
  <2>7. ~(x >= h)
    BY <2>3
  <2> HIDE DEF x
  <2>8. x < h
    BY <2>6, <2>7
  <2>9. QED
    BY <2>8 DEF x
<1>5. Stops(from + k)
  BY <1>2
<1>6. \E i \in from .. Len(N) : Stops(i) /\ \A j \in from .. i - 1 : N[j + 1].nHeight < h
  BY <1>3, <1>4, <1>5, Zenon
<1>7. QED
  BY <1>6, Zenon DEF SearchStop, IsStop

\* A search that has only points below h behind it stops behind the newest
\* checkpoint below h, when the carriers are in order.
LEMMA StopIsNewest ==
    ASSUME NEW Points, Heights(Points), NEW N \in Seq(Points), NEW from \in 0 .. Len(N), NEW h \in Nat, NEW s \in Nat,
           IsStop(N, from, h, s),
           CarriersInOrder(N),
           \A i \in 1 .. from : N[i].nHeight < h
    PROVE  (IF s = 0 THEN NoPoint ELSE N[s]) = NewestBelow(N, h)
<1> DEFINE below == {i \in DOMAIN N : N[i].nHeight < h}
<1>1. /\ s \in from .. Len(N)
      /\ s = Len(N) \/ N[s + 1].nHeight >= h
      /\ \A j \in from .. s - 1 : N[j + 1].nHeight < h
  BY DEF IsStop
<1>2. DOMAIN N = 1 .. Len(N) /\ Len(N) \in Nat
  OBVIOUS
<1>3. s <= Len(N) /\ (s < Len(N) => N[s + 1].nHeight >= h)
  <2>1. s \in from .. Len(N)
    BY DEF IsStop
  <2>2. s = Len(N) \/ N[s + 1].nHeight >= h
    BY DEF IsStop
  <2>3. s <= Len(N)
    BY <2>1, <1>2
  <2>4. ASSUME s < Len(N) PROVE N[s + 1].nHeight >= h
    <3> DEFINE n == Len(N)
    <3>0. n \in Nat /\ s < n
      BY <2>4
    <3> HIDE DEF n
    <3>1. s # n
      BY <3>0
    <3>2. QED
      BY <3>1, <2>2 DEF n
  <2>5. QED
    BY <2>3, <2>4
<1>4. \A i \in 1 .. Len(N) : N[i].nHeight \in Nat
  <2>1. \A i \in 1 .. Len(N) : N[i] \in Points
    OBVIOUS
  <2>2. \A p \in Points : p.nHeight \in Nat
    BY DEF Heights
  <2>3. QED
    BY <2>1, <2>2
<1>5. ASSUME NEW i \in 1 .. s PROVE i \in below
  <2> SUFFICES N[i].nHeight < h
    <3>1. i \in 1 .. Len(N)
      BY <1>3, <1>2
    <3>2. QED
      BY <3>1, <1>2
  <2>1. CASE i <= from
    <3>1. i \in 1 .. from
      BY <2>1
    <3>2. QED
      BY <3>1
  <2>2. CASE i > from
    <3>1. i - 1 \in from .. s - 1 /\ (i - 1) + 1 = i
      BY <2>2, <1>1
    <3>2. N[(i - 1) + 1].nHeight < h
      BY <3>1, <1>1
    <3>3. QED
      BY <3>1, <3>2
  <2>3. QED
    BY <2>1, <2>2
<1>6. ASSUME NEW i \in below PROVE i \in 1 .. s
  <2>0. i \in 1 .. Len(N) /\ N[i].nHeight < h
    BY <1>2
  <2> HIDE DEF below
  <2>1. SUFFICES ASSUME i > s PROVE FALSE
    BY <2>0
  <2>2. s + 1 \in 1 .. Len(N) /\ N[s + 1].nHeight >= h
    BY <2>0, <2>1, <1>3, <1>2
  <2>3. N[s + 1].nHeight <= N[i].nHeight
    <3>1. CASE s + 1 = i
      BY <3>1, <2>0, <1>4
    <3>2. CASE s + 1 < i
      BY <3>2, <2>0, <2>2, <1>2 DEF CarriersInOrder
    <3>3. QED
      BY <3>1, <3>2, <2>0, <2>1
  <2>4. QED
    BY <2>0, <2>2, <2>3, <1>4
<1>7. below = 1 .. s
  BY <1>5, <1>6
<1>8. CASE s = 0
  BY <1>7, <1>8 DEF NewestBelow
<1>9. CASE s # 0
  <2>1. s \in below /\ \A j \in below : j <= s
    BY <1>7, <1>9, <1>1
  <2>2. (CHOOSE i \in below : \A j \in below : j <= i) = s
    BY <2>1, <1>7, <1>1
  <2>3. QED
    BY <2>1, <2>2, <1>9 DEF NewestBelow
<1>10. QED
  BY <1>8, <1>9

\* NotarizedData gives the newest checkpoint below h, whatever index the last
\* search left behind.
LEMMA NotarizedDataExact ==
    ASSUME NEW Points, Heights(Points), NEW N \in Seq(Points), NEW last_index \in Nat, NEW h \in Nat,
           CarriersInOrder(N)
    PROVE  NotarizedData(N, last_index, h).np = NewestBelow(N, h)
<1> DEFINE near == SearchStop(N, last_index, h)
           far == SearchStop(N, 0, h)
           cached == CacheUsable(N, last_index, h)
           found == cached /\ near < Len(N)
<1>1. (IF far = 0 THEN NoPoint ELSE N[far]) = NewestBelow(N, h)
  <2>1. 0 \in 0 .. Len(N)
    OBVIOUS
  <2>2. IsStop(N, 0, h, far)
    BY <2>1, SearchStopExists
  <2>3. far \in Nat
    BY <2>2 DEF IsStop
  <2> HIDE DEF far
  <2>4. \A i \in 1 .. 0 : N[i].nHeight < h
    OBVIOUS
  <2>5. QED
    BY <2>1, <2>2, <2>3, <2>4, StopIsNewest
<1>2. ASSUME cached
      PROVE  (IF near = 0 THEN NoPoint ELSE N[near]) = NewestBelow(N, h)
  <2>1. last_index \in 1 .. Len(N) /\ N[last_index].nHeight < h
    BY <1>2 DEF CacheUsable
  <2>2. ASSUME NEW i \in 1 .. last_index PROVE N[i].nHeight < h
    <3>1. i \in DOMAIN N /\ last_index \in DOMAIN N
      BY <2>1
    <3>2. N[i].nHeight \in Nat /\ N[last_index].nHeight \in Nat
      <4>1. N[i] \in Points /\ N[last_index] \in Points
        BY <3>1
      <4>2. QED
        BY <4>1 DEF Heights
    <3>3. N[i].nHeight <= N[last_index].nHeight
      BY <3>1, <3>2 DEF CarriersInOrder
    <3>4. QED
      BY <3>2, <3>3, <2>1
  <2>3. IsStop(N, last_index, h, near)
    BY <2>1, SearchStopExists
  <2>4. near \in Nat
    BY <2>1, <2>3 DEF IsStop
  <2> HIDE DEF near
  <2>5. QED
    BY <2>1, <2>2, <2>3, <2>4, StopIsNewest
<1>3. NotarizedData(N, last_index, h).np =
          (LET stop == IF found THEN near ELSE far
           IN  IF stop = 0 THEN NoPoint ELSE N[stop])
  BY DEF NotarizedData
<1> HIDE DEF near, far, cached
<1>4. QED
  BY <1>1, <1>2, <1>3

\* NotarizedData caches an index, never a negative number.
LEMMA CachedIndexType ==
    ASSUME NEW Points, Heights(Points), NEW pts \in Seq(Points), NEW li \in Nat, NEW h \in Nat
    PROVE  NotarizedData(pts, li, h).last_index \in Nat
  <1>1. Len(pts) \in Nat
    OBVIOUS
  <1>2. SearchStop(pts, 0, h) \in 0 .. Len(pts)
    <2>1. 0 \in 0 .. Len(pts)
      BY <1>1
    <2>. QED
      BY <2>1, SearchStopExists, ZenonT(60) DEF IsStop
  <1>3. CacheUsable(pts, li, h) => SearchStop(pts, li, h) \in li .. Len(pts)
    <2>1. CacheUsable(pts, li, h) => li \in 0 .. Len(pts)
      BY <1>1 DEF CacheUsable
    <2>. QED
      BY <2>1, SearchStopExists DEF IsStop
  <1>. QED
    BY <1>1, <1>2, <1>3 DEF NotarizedData
=============================================================================
