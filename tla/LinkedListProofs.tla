-------------------------- MODULE LinkedListProofs --------------------------
(***************************************************************************)
(* The double linked list.  Its nodes are a ring: numbered from the        *)
(* sentinel along the right links they are met again, backwards, along the *)
(* left links.  The numbering is what the loops over the list compute, and *)
(* what the assignments to links in an insertion and a removal preserve.   *)
(***************************************************************************)
EXTENDS LinkedList, WellFoundedInduction, FunctionTheorems, FiniteSetTheorems,
        SequenceTheorems, TLAPS

-----------------------------------------------------------------------------
(* Least elements, and the walk as the recursive function it is.           *)

LEMMA LeastNat ==
  ASSUME NEW T, T \subseteq Nat, T # {}
  PROVE  \E x \in T : \A y \in T : x <= y
<1>1. IsWellFoundedOn(OpToRel(<, Nat), Nat)
  BY NatLessThanWellFounded
<1>2. PICK x \in T : \A y \in T : ~(<<y, x>> \in OpToRel(<, Nat))
  BY <1>1, WFMin
<1>3. \A y \in T : ~(y < x)
  BY <1>2 DEF OpToRel
<1>4. QED
  BY <1>3

\* Node number k of a walk that meets the n nodes r[1], ..., r[n].
Met(n, r, k) == IF k <= n THEN r[k] ELSE Sentinel

\* l is a ring of n nodes, numbered by r; the sentinel is number 0 and n + 1.
Numbers(l, n, r) ==
  /\ r \in [0..n + 1 -> Places]
  /\ r[0] = Sentinel /\ r[n + 1] = Sentinel
  /\ \A i, j \in 0..n : r[i] = r[j] => i = j
  /\ \A k \in 0..n : l[r[k]][Right] = r[k + 1] /\ l[r[k + 1]][Left] = r[k]

LEMMA NumberedNodes ==
  ASSUME NEW l, NEW n \in Nat, NEW r, Numbers(l, n, r)
  PROVE  \A k \in 1..n : r[k] \in Nodes /\ r[k] # Sentinel
BY DEF Numbers, Places

LEMMA NoMoreThanNodes ==
  ASSUME NEW l, NEW n \in Nat, NEW r, Numbers(l, n, r)
  PROVE  n <= Cardinality(Nodes) /\ Cardinality(Nodes) \in Nat
<1> DEFINE g == [k \in 1..n |-> r[k]]
<1>1. g \in [1..n -> Nodes]
  BY NumberedNodes
<1>2. \A i, j \in 1..n : g[i] = g[j] => i = j
  BY DEF Numbers
<1>3. g \in Injection(1..n, Nodes)
  BY <1>1, <1>2, Fun_IsInj
<1>4. Cardinality(1..n) <= Cardinality(Nodes)
  BY <1>3, FS_Injection, NodesAssumption
<1>5. Cardinality(1..n) = n
  BY FS_Interval
<1>6. QED
  BY <1>4, <1>5, FS_CardinalityType, NodesAssumption

LEMMA WalkMeets ==
  ASSUME NEW l, NEW n \in Nat, NEW r, Numbers(l, n, r)
  PROVE  /\ DOMAIN Walk(l) = 1..Cardinality(Nodes)
         /\ \A k \in 1..Cardinality(Nodes) : Walk(l)[k] = Met(n, r, k)
<1> DEFINE D == 1..Cardinality(Nodes)
           Next1(f) == [k \in D |-> IF k = 1 THEN l[Sentinel][Right]
                                    ELSE IF f[k - 1] = Sentinel THEN Sentinel
                                    ELSE l[f[k - 1]][Right]]
           m == [k \in D |-> Met(n, r, k)]
<1>1. Cardinality(Nodes) \in Nat
  BY NoMoreThanNodes
<1>2. m = Next1(m)
  <2>1. ASSUME NEW k \in D
        PROVE  m[k] = Next1(m)[k]
    <3>1. CASE k = 1
      BY <1>1, <3>1 DEF Met, Numbers
    <3>2. CASE k # 1 /\ k <= n + 1
      <4>1. k - 1 \in D /\ m[k - 1] = r[k - 1] /\ k - 1 \in 1..n
        BY <1>1, <3>2 DEF Met
      <4>2. m[k - 1] # Sentinel
        BY <4>1, NumberedNodes
      <4>3. l[r[k - 1]][Right] = r[k]
        BY <4>1 DEF Numbers
      <4>4. m[k] = r[k]
        BY <1>1, <3>2 DEF Met, Numbers
      <4>5. QED
        BY <4>1, <4>2, <4>3, <4>4, <3>2
    <3>3. CASE k # 1 /\ ~(k <= n + 1)
      <4>1. k - 1 \in D /\ m[k - 1] = Sentinel /\ m[k] = Sentinel
        BY <1>1, <3>3 DEF Met
      <4>2. QED
        BY <4>1, <3>3
    <3>4. QED
      BY <3>1, <3>2, <3>3
  <2>2. QED
    BY <2>1
<1>3. ASSUME NEW g, g = Next1(g)
      PROVE  g = m
  <2> DEFINE T == {k \in D : g[k] # m[k]}
  <2>1. SUFFICES ASSUME T # {} PROVE FALSE
    BY <1>3
  <2>2. PICK k \in T : \A j \in T : k <= j
    <3>1. T \subseteq Nat
      BY <1>1
    <3> HIDE DEF T
    <3>2. QED
      BY <3>1, <2>1, LeastNat
  <2>3. k = 1 \/ (k - 1 \in D /\ k - 1 \notin T)
    BY <1>1, <2>2
  <2>4. g[k] = Next1(g)[k] /\ m[k] = Next1(m)[k]
    BY <1>2, <1>3
  <2>5. Next1(g)[k] = Next1(m)[k]
    <3>1. k \in D
      OBVIOUS
    <3>2. CASE k = 1
      BY <3>1, <3>2
    <3>3. CASE k # 1
      <4>1. g[k - 1] = m[k - 1]
        BY <3>3, <2>3
      <4> HIDE DEF m
      <4>2. QED
        BY <4>1, <3>1
    <3>4. QED
      BY <3>2, <3>3
  <2>6. QED
    BY <2>2, <2>4, <2>5
<1>4. Walk(l) = CHOOSE f : f = Next1(f)
  BY DEF Walk
<1>5. Walk(l) = m
  <2> HIDE DEF Next1, m
  <2>1. QED
    BY <1>2, <1>3, <1>4
<1>6. QED
  BY <1>5

\* What Reached says of the links l.
WalkOf(l) == [k \in {j \in DOMAIN Walk(l) : Walk(l)[j] # Sentinel} |-> Walk(l)[k]]

LEMMA WalkNumbered ==
  ASSUME NEW l, NEW n \in Nat, NEW r, Numbers(l, n, r)
  PROVE  WalkOf(l) = [k \in 1..n |-> r[k]]
<1>1. n <= Cardinality(Nodes) /\ Cardinality(Nodes) \in Nat
  BY NoMoreThanNodes
<1>2. {j \in DOMAIN Walk(l) : Walk(l)[j] # Sentinel} = 1..n
  <2>1. ASSUME NEW j
        PROVE  (j \in DOMAIN Walk(l) /\ Walk(l)[j] # Sentinel) <=> j \in 1..n
    <3>1. CASE j \in 1..n
      <4>1. j \in 1..Cardinality(Nodes) /\ j <= n
        BY <1>1, <3>1
      <4>2. j \in DOMAIN Walk(l) /\ Walk(l)[j] = r[j]
        BY <4>1, WalkMeets DEF Met
      <4>3. r[j] # Sentinel
        BY <3>1, NumberedNodes
      <4>4. QED
        BY <3>1, <4>2, <4>3
    <3>2. CASE j \notin 1..n
      BY <1>1, <3>2, WalkMeets DEF Met
    <3>3. QED
      BY <3>1, <3>2
  <2>2. QED
    BY <2>1
<1>3. \A k \in 1..n : Walk(l)[k] = r[k]
  BY <1>1, WalkMeets DEF Met
<1>4. QED
  BY <1>2, <1>3 DEF WalkOf

-----------------------------------------------------------------------------
(* The links after an insertion between a and b, and after a removal of m  *)
(* from between them.                                                      *)

Links == [Places -> [Dirs -> Places]]

Spliced(l, a, m, b) ==
  [q \in Places |-> [d \in Dirs |->
     IF q = m THEN (IF d = Left THEN a ELSE b)
     ELSE IF q = a /\ d = Right THEN m
     ELSE IF q = b /\ d = Left THEN m
     ELSE l[q][d]]]

Unlinked(l, a, m, b) ==
  [q \in Places |-> [d \in Dirs |->
     IF q = m THEN Sentinel
     ELSE IF q = a /\ d = Right THEN b
     ELSE IF q = b /\ d = Left THEN a
     ELSE l[q][d]]]

\* The numbers of the nodes after that.
Shifted(n, r, p, m) ==
  [k \in 0..n + 2 |-> IF k <= p THEN r[k] ELSE IF k = p + 1 THEN m ELSE r[k - 1]]
Closed(n, r, p) == [k \in 0..n |-> IF k < p THEN r[k] ELSE r[k + 1]]

LEMMA SameLinks ==
  ASSUME NEW l \in Links, NEW k \in Links,
         \A q \in Places : \A d \in Dirs : l[q][d] = k[q][d]
  PROVE  l = k
<1>1. \A q \in Places : l[q] \in [Dirs -> Places] /\ k[q] \in [Dirs -> Places]
  BY DEF Links
<1>2. \A q \in Places : l[q] = k[q]
  BY <1>1
<1>3. QED
  BY <1>2 DEF Links

LEMMA InsertBefore ==
  ASSUME link \in Links, NEW a \in Places, NEW b \in Places, NEW m \in Nodes,
         m # a, m # b, link[b][Left] = a
  PROVE  InsertLinks(m, b, Left) = Spliced(link, a, m, b)
<1> USE DEF Left, Right, Dirs, Opposite
<1> DEFINE l1 == [link EXCEPT ![m] = [d \in Dirs |-> IF d = Left THEN link[b][Left] ELSE b]]
           l2 == [l1 EXCEPT ![l1[b][Left]][Opposite(Left)] = m]
           l3 == [l2 EXCEPT ![b][Left] = m]
<1>1. InsertLinks(m, b, Left) = l3
  BY DEF InsertLinks
<1>2. m \in Places
  BY DEF Places
<1>3. l1 \in Links /\ l1[m] = [d \in Dirs |-> IF d = Left THEN a ELSE b]
      /\ \A q \in Places : q # m => l1[q] = link[q]
  BY <1>2 DEF Links
<1>4. l1[b][Left] = a
  BY <1>3
<1> HIDE DEF l1
<1>5. l2 \in Links /\ l2[a] = [l1[a] EXCEPT ![Right] = m]
      /\ \A q \in Places : q # a => l2[q] = l1[q]
  BY <1>2, <1>3, <1>4 DEF Links
<1> HIDE DEF l2
<1>6. l3 \in Links /\ l3[b] = [l2[b] EXCEPT ![Left] = m]
      /\ \A q \in Places : q # b => l3[q] = l2[q]
  BY <1>2, <1>5 DEF Links
<1> HIDE DEF l3
<1>7. ASSUME NEW q \in Places, NEW d \in Dirs
      PROVE  l3[q][d] = Spliced(link, a, m, b)[q][d]
  <2>1. CASE q = m
    BY <1>3, <1>5, <1>6, <2>1 DEF Spliced
  <2>2. CASE q # m /\ q = b
    BY <1>3, <1>5, <1>6, <2>2 DEF Spliced, Links
  <2>3. CASE q # m /\ q # b
    BY <1>3, <1>5, <1>6, <2>3 DEF Spliced, Links
  <2>4. QED
    BY <2>1, <2>2, <2>3
<1>8. Spliced(link, a, m, b) \in Links
  BY <1>2 DEF Spliced, Links
<1>9. QED
  BY <1>1, <1>6, <1>7, <1>8, SameLinks

LEMMA InsertAfter ==
  ASSUME link \in Links, NEW a \in Places, NEW b \in Places, NEW m \in Nodes,
         m # a, m # b, link[a][Right] = b
  PROVE  InsertLinks(m, a, Right) = Spliced(link, a, m, b)
<1> USE DEF Left, Right, Dirs, Opposite
<1> DEFINE l1 == [link EXCEPT ![m] = [d \in Dirs |-> IF d = Right THEN link[a][Right] ELSE a]]
           l2 == [l1 EXCEPT ![l1[a][Right]][Opposite(Right)] = m]
           l3 == [l2 EXCEPT ![a][Right] = m]
<1>1. InsertLinks(m, a, Right) = l3
  BY DEF InsertLinks
<1>2. m \in Places
  BY DEF Places
<1>3. l1 \in Links /\ l1[m] = [d \in Dirs |-> IF d = Right THEN b ELSE a]
      /\ \A q \in Places : q # m => l1[q] = link[q]
  BY <1>2 DEF Links
<1>4. l1[a][Right] = b
  BY <1>3
<1> HIDE DEF l1
<1>5. l2 \in Links /\ l2[b] = [l1[b] EXCEPT ![Left] = m]
      /\ \A q \in Places : q # b => l2[q] = l1[q]
  BY <1>2, <1>3, <1>4 DEF Links
<1> HIDE DEF l2
<1>6. l3 \in Links /\ l3[a] = [l2[a] EXCEPT ![Right] = m]
      /\ \A q \in Places : q # a => l3[q] = l2[q]
  BY <1>2, <1>5 DEF Links
<1> HIDE DEF l3
<1>7. ASSUME NEW q \in Places, NEW d \in Dirs
      PROVE  l3[q][d] = Spliced(link, a, m, b)[q][d]
  <2>1. CASE q = m
    BY <1>3, <1>5, <1>6, <2>1 DEF Spliced
  <2>2. CASE q # m /\ q = a
    BY <1>3, <1>5, <1>6, <2>2 DEF Spliced, Links
  <2>3. CASE q # m /\ q # a
    BY <1>3, <1>5, <1>6, <2>3 DEF Spliced, Links
  <2>4. QED
    BY <2>1, <2>2, <2>3
<1>8. Spliced(link, a, m, b) \in Links
  BY <1>2 DEF Spliced, Links
<1>9. QED
  BY <1>1, <1>6, <1>7, <1>8, SameLinks

LEMMA RemoveUnlinks ==
  ASSUME link \in Links, NEW a \in Places, NEW b \in Places, NEW m \in Nodes,
         m # a, m # b, link[m][Left] = a, link[m][Right] = b
  PROVE  [RemoveLinks(m) EXCEPT ![m] = Ring[m]] = Unlinked(link, a, m, b)
<1> USE DEF Left, Right, Dirs
<1> DEFINE l1 == [link EXCEPT ![link[m][Right]][Left] = link[m][Left]]
           l2 == [l1 EXCEPT ![l1[m][Left]][Right] = l1[m][Right]]
           l3 == [l2 EXCEPT ![m] = Ring[m]]
<1>1. [RemoveLinks(m) EXCEPT ![m] = Ring[m]] = l3
  BY DEF RemoveLinks
<1>2. m \in Places /\ Sentinel \in Places
  BY DEF Places
<1>3. l1 \in Links /\ l1[b] = [link[b] EXCEPT ![Left] = a]
      /\ \A q \in Places : q # b => l1[q] = link[q]
  BY <1>2 DEF Links
<1>4. l1[m][Left] = a /\ l1[m][Right] = b
  BY <1>2, <1>3
<1> HIDE DEF l1
<1>5. l2 \in Links /\ l2[a] = [l1[a] EXCEPT ![Right] = b]
      /\ \A q \in Places : q # a => l2[q] = l1[q]
  BY <1>2, <1>3, <1>4 DEF Links
<1> HIDE DEF l2
<1>6. l3 \in Links /\ l3[m] = [d \in Dirs |-> Sentinel]
      /\ \A q \in Places : q # m => l3[q] = l2[q]
  BY <1>2, <1>5 DEF Links, Ring
<1> HIDE DEF l3
<1>7. ASSUME NEW q \in Places, NEW d \in Dirs
      PROVE  l3[q][d] = Unlinked(link, a, m, b)[q][d]
  <2>1. CASE q = m
    BY <1>6, <2>1 DEF Unlinked
  <2>2. CASE q # m /\ q = a
    BY <1>3, <1>5, <1>6, <2>2 DEF Unlinked, Links
  <2>3. CASE q # m /\ q # a
    BY <1>3, <1>5, <1>6, <2>3 DEF Unlinked, Links
  <2>4. QED
    BY <2>1, <2>2, <2>3
<1>8. Unlinked(link, a, m, b) \in Links
  BY <1>2 DEF Unlinked, Links
<1>9. QED
  BY <1>1, <1>6, <1>7, <1>8, SameLinks

-----------------------------------------------------------------------------
(* The ring after an insertion and a removal is numbered again.            *)

LEMMA SplicedIsNumbered ==
  ASSUME NEW l, NEW n \in Nat, NEW r, Numbers(l, n, r), NEW p \in 0..n,
         NEW m \in Nodes, \A k \in 1..n : r[k] # m
  PROVE  Numbers(Spliced(l, r[p], m, r[p + 1]), n + 1, Shifted(n, r, p, m))
<1> DEFINE s == Shifted(n, r, p, m)
           l2 == Spliced(l, r[p], m, r[p + 1])
<1>1. \A k \in 0..n + 1 : r[k] # m /\ r[k] \in Places
  BY NodesAssumption DEF Numbers
<1>2. \A k \in 0..n + 2 : s[k] = IF k <= p THEN r[k] ELSE IF k = p + 1 THEN m ELSE r[k - 1]
  BY DEF Shifted
<1>3. m \in Places
  BY DEF Places
<1>4. s \in [0..n + 1 + 1 -> Places]
  <2>1. \A k \in 0..n + 2 : s[k] \in Places
    BY <1>1, <1>2, <1>3
  <2>2. QED
    BY <2>1 DEF Shifted
<1>5. s[0] = Sentinel /\ s[n + 1 + 1] = Sentinel
  BY <1>2 DEF Numbers
<1>6. ASSUME NEW i \in 0..n + 1, NEW j \in 0..n + 1, s[i] = s[j]
      PROVE  i = j
  <2> HIDE DEF s
  <2>1. CASE i = p + 1
    BY <1>1, <1>2, <1>6, <2>1
  <2>2. CASE j = p + 1
    BY <1>1, <1>2, <1>6, <2>2
  <2>3. CASE i # p + 1 /\ j # p + 1
    BY <1>2, <1>6, <2>3 DEF Numbers
  <2>4. QED
    BY <2>1, <2>2, <2>3
<1>7. \A q \in Places : \A d \in Dirs : l2[q][d] =
        IF q = m THEN (IF d = Left THEN r[p] ELSE r[p + 1])
        ELSE IF q = r[p] /\ d = Right THEN m
        ELSE IF q = r[p + 1] /\ d = Left THEN m
        ELSE l[q][d]
  BY DEF Spliced
<1>8. Left \in Dirs /\ Right \in Dirs /\ Left # Right
  BY DEF Left, Right, Dirs
<1>9. ASSUME NEW k \in 0..n + 1
      PROVE  l2[s[k]][Right] = s[k + 1] /\ l2[s[k + 1]][Left] = s[k]
  <2> HIDE DEF s, l2
  <2>1. CASE k < p
    <3>1. s[k] = r[k] /\ s[k + 1] = r[k + 1] /\ k \in 0..n
      BY <1>2, <2>1
    <3>2. r[k] # r[p] /\ r[k + 1] # r[p + 1]
      <4>1. k # p /\ k \in 0..n
        BY <2>1
      <4>2. r[k] # r[p]
        BY <4>1 DEF Numbers
      <4>3. r[k + 1] # r[p + 1]
        BY <4>1, <3>1, <4>2 DEF Numbers
      <4>4. QED
        BY <4>2, <4>3
    <3>3. QED
      BY <1>1, <1>7, <1>8, <3>1, <3>2 DEF Numbers
  <2>2. CASE k = p
    BY <1>1, <1>2, <1>3, <1>7, <1>8, <2>2
  <2>3. CASE k = p + 1
    BY <1>1, <1>2, <1>3, <1>7, <1>8, <2>3
  <2>4. CASE k > p + 1
    <3>1. s[k] = r[k - 1] /\ s[k + 1] = r[k - 1 + 1] /\ k - 1 \in 0..n
      BY <1>2, <2>4
    <3>2. r[k - 1] # r[p] /\ r[k - 1 + 1] # r[p + 1]
      <4>1. k - 1 # p /\ k - 1 \in 0..n
        BY <2>4
      <4>2. r[k - 1] # r[p]
        BY <4>1 DEF Numbers
      <4>3. r[k - 1 + 1] # r[p + 1]
        BY <4>1, <3>1, <4>2 DEF Numbers
      <4>4. QED
        BY <4>2, <4>3
    <3>3. QED
      BY <1>1, <1>7, <1>8, <3>1, <3>2 DEF Numbers
  <2>5. QED
    BY <2>1, <2>2, <2>3, <2>4
<1>10. QED
  BY <1>4, <1>5, <1>6, <1>9 DEF Numbers

\* The nodes a numbering r gives numbers to.
NodesOf(n, r) == {r[k] : k \in 1..n}

LEMMA SplicedNodes ==
  ASSUME NEW n \in Nat, NEW r, NEW p \in 0..n, NEW m
  PROVE  NodesOf(n + 1, Shifted(n, r, p, m)) = NodesOf(n, r) \cup {m}
<1> DEFINE s == Shifted(n, r, p, m)
<1>1. \A k \in 0..n + 2 : s[k] = IF k <= p THEN r[k] ELSE IF k = p + 1 THEN m ELSE r[k - 1]
  BY DEF Shifted
<1> HIDE DEF s
<1>2. \A k \in 1..n + 1 : s[k] \in {r[i] : i \in 1..n} \cup {m}
  BY <1>1
<1>3. m \in {s[k] : k \in 1..n + 1}
  BY <1>1
<1>4. ASSUME NEW i \in 1..n
      PROVE  r[i] \in {s[k] : k \in 1..n + 1}
  <2>1. CASE i <= p
    BY <1>1, <2>1
  <2>2. CASE ~(i <= p)
    <3>1. i + 1 \in 1..n + 1 /\ s[i + 1] = r[i + 1 - 1]
      BY <1>1, <2>2
    <3>2. QED
      BY <3>1
  <2>3. QED
    BY <2>1, <2>2
<1>5. QED
  BY <1>2, <1>3, <1>4 DEF s, NodesOf

LEMMA UnlinkedIsNumbered ==
  ASSUME NEW l, NEW n \in Nat, NEW r, Numbers(l, n, r), NEW p \in 1..n
  PROVE  Numbers(Unlinked(l, r[p - 1], r[p], r[p + 1]), n - 1, Closed(n, r, p))
<1> DEFINE s == Closed(n, r, p)
           l2 == Unlinked(l, r[p - 1], r[p], r[p + 1])
<1>1. \A k \in 0..n + 1 : r[k] \in Places
  BY DEF Numbers
<1>2. \A k \in 0..n : s[k] = IF k < p THEN r[k] ELSE r[k + 1]
  BY DEF Closed
<1>3. s \in [0..n - 1 + 1 -> Places]
  <2>1. \A k \in 0..n : s[k] \in Places
    BY <1>1, <1>2
  <2>2. QED
    BY <2>1 DEF Closed
<1>4. s[0] = Sentinel /\ s[n - 1 + 1] = Sentinel
  BY <1>2 DEF Numbers
<1>5. ASSUME NEW i \in 0..n - 1, NEW j \in 0..n - 1, s[i] = s[j]
      PROVE  i = j
  <2> HIDE DEF s
  <2>1. QED
    BY <1>2, <1>5 DEF Numbers
<1>6. \A q \in Places : \A d \in Dirs : l2[q][d] =
        IF q = r[p] THEN Sentinel
        ELSE IF q = r[p - 1] /\ d = Right THEN r[p + 1]
        ELSE IF q = r[p + 1] /\ d = Left THEN r[p - 1]
        ELSE l[q][d]
  BY DEF Unlinked
<1>7. Left \in Dirs /\ Right \in Dirs /\ Left # Right
  BY DEF Left, Right, Dirs
<1>8. r[p] # Sentinel /\ \A i, j \in 0..n : i # j => r[i] # r[j]
  BY NumberedNodes DEF Numbers
<1>9. \A i, j \in 1..n + 1 : i # j => r[i] # r[j]
  <2>1. ASSUME NEW i \in 1..n + 1, NEW j \in 1..n + 1, r[i] = r[j]
        PROVE  i = j
    <3>1. i - 1 \in 0..n /\ j - 1 \in 0..n /\ i - 1 + 1 = i /\ j - 1 + 1 = j
      OBVIOUS
    <3>2. l[r[i - 1 + 1]][Left] = r[i - 1] /\ l[r[j - 1 + 1]][Left] = r[j - 1]
      BY <3>1 DEF Numbers
    <3>3. r[i - 1] = r[j - 1]
      BY <3>1, <3>2, <2>1
    <3>4. i - 1 = j - 1
      BY <3>1, <3>3 DEF Numbers
    <3>5. QED
      BY <3>4
  <2>2. QED
    BY <2>1
<1>10. ASSUME NEW k \in 0..n - 1
       PROVE  l2[s[k]][Right] = s[k + 1] /\ l2[s[k + 1]][Left] = s[k]
  <2> HIDE DEF s, l2
  <2>1. CASE k < p - 1
    <3>1. s[k] = r[k] /\ s[k + 1] = r[k + 1] /\ k \in 0..n /\ k + 1 \in 0..n
      BY <1>2, <2>1
    <3>2. r[k] # r[p - 1] /\ r[k] # r[p]
      BY <1>8, <2>1
    <3>3. r[k + 1] # r[p + 1] /\ r[k + 1] # r[p]
      BY <1>9, <2>1
    <3>4. QED
      BY <1>1, <1>6, <1>7, <3>1, <3>2, <3>3 DEF Numbers
  <2>2. CASE k = p - 1
    <3>1. s[k] = r[p - 1] /\ s[k + 1] = r[p + 1]
      BY <1>2, <2>2
    <3>2. r[p - 1] # r[p] /\ r[p + 1] # r[p]
      BY <1>8, <1>9
    <3>3. r[p - 1] \in Places /\ r[p + 1] \in Places
      BY <1>1
    <3>4. QED
      BY <1>6, <1>7, <3>1, <3>2, <3>3
  <2>3. CASE k > p - 1
    <3>1. s[k] = r[k + 1] /\ s[k + 1] = r[k + 1 + 1] /\ k + 1 \in 0..n /\ k + 1 + 1 \in 1..n + 1
      BY <1>2, <2>3
    <3>2. r[k + 1] # r[p - 1] /\ r[k + 1] # r[p]
      BY <1>8, <3>1, <2>3
    <3>3. r[k + 1 + 1] # r[p + 1] /\ r[k + 1 + 1] # r[p]
      BY <1>9, <3>1, <2>3
    <3>4. QED
      BY <1>1, <1>6, <1>7, <3>1, <3>2, <3>3 DEF Numbers
  <2>4. QED
    BY <2>1, <2>2, <2>3
<1>11. QED
  BY <1>3, <1>4, <1>5, <1>10 DEF Numbers

LEMMA UnlinkedNodes ==
  ASSUME NEW l, NEW n \in Nat, NEW r, Numbers(l, n, r), NEW p \in 1..n
  PROVE  NodesOf(n - 1, Closed(n, r, p)) = NodesOf(n, r) \ {r[p]}
<1> DEFINE s == Closed(n, r, p)
<1>1. \A k \in 0..n : s[k] = IF k < p THEN r[k] ELSE r[k + 1]
  BY DEF Closed
<1>2. \A i \in 1..n : i # p => r[i] # r[p]
  BY DEF Numbers
<1> HIDE DEF s
<1>3. \A k \in 1..n - 1 : s[k] \in {r[i] : i \in 1..n} \ {r[p]}
  <2>1. ASSUME NEW k \in 1..n - 1
        PROVE  \E i \in 1..n : i # p /\ s[k] = r[i]
    BY <1>1
  <2>2. QED
    BY <2>1, <1>2
<1>4. ASSUME NEW i \in 1..n, i # p
      PROVE  r[i] \in {s[k] : k \in 1..n - 1}
  <2>1. CASE i < p
    BY <1>1, <2>1
  <2>2. CASE i > p
    <3>1. i - 1 \in 1..n - 1 /\ s[i - 1] = r[i - 1 + 1]
      BY <1>1, <2>2
    <3>2. QED
      BY <3>1
  <2>3. QED
    BY <1>4, <2>1, <2>2
<1>5. QED
  BY <1>3, <1>4 DEF s, NodesOf
-----------------------------------------------------------------------------
(* What each function does to the numbering.                               *)

Numbered(r) == Numbers(link, items, r) /\ used = NodesOf(items, r)

\* The inductive invariant.  While there is no list no node is left over.
ListInv ==
  /\ open \in BOOLEAN /\ items \in Nat
  /\ used \subseteq Nodes
  /\ link \in Links
  /\ data \in [Nodes -> Items \cup {NULL}]
  /\ \A n \in used : data[n] \in Items
  /\ ~open => items = 0
  /\ \E r : Numbered(r)

\* A node with the item x is put behind number p; number p is taken out.
Inserted(r, p, x) ==
  \E m \in Nodes \ used :
    /\ used' = used \cup {m} /\ data' = [data EXCEPT ![m] = x]
    /\ items' = items + 1 /\ link' \in Links
    /\ Numbers(link', items + 1, Shifted(items, r, p, m))

Removed(r, p) ==
  /\ used' = used \ {r[p]} /\ data' = [data EXCEPT ![r[p]] = NULL]
  /\ items' = items - 1 /\ link' \in Links
  /\ Numbers(link', items - 1, Closed(items, r, p))

Kept == UNCHANGED <<used, data, link, items>>

LEMMA EmptyRing ==
  /\ Ring \in Links
  /\ Numbers(Ring, 0, [k \in 0..1 |-> Sentinel])
<1>1. Sentinel \in Places
  BY DEF Places
<1>2. Ring \in Links
  BY <1>1 DEF Ring, Links
<1>3. Ring[Sentinel][Right] = Sentinel /\ Ring[Sentinel][Left] = Sentinel
  BY <1>1 DEF Ring, Dirs, Left, Right
<1>4. Numbers(Ring, 0, [k \in 0..1 |-> Sentinel])
  BY <1>1, <1>3 DEF Numbers
<1>5. QED
  BY <1>2, <1>4

LEMMA RingEnds ==
  ASSUME ListInv, NEW r, Numbered(r)
  PROVE  /\ items \in Nat
         /\ \A k \in 0..items + 1 : r[k] \in Places
         /\ r[0] = Sentinel /\ r[items + 1] = Sentinel
         /\ link[Sentinel][Right] = r[1] /\ link[Sentinel][Left] = r[items]
         /\ \A k \in 1..items : r[k] \in used /\ r[k] \in Nodes /\ r[k] # Sentinel
         /\ \A k \in 1..items : link[r[k]][Left] = r[k - 1] /\ link[r[k]][Right] = r[k + 1]
<1>1. items \in Nat /\ Numbers(link, items, r) /\ used = {r[k] : k \in 1..items}
  BY DEF ListInv, Numbered, NodesOf
<1>2. \A k \in 1..items : r[k] \in Nodes /\ r[k] # Sentinel
  BY <1>1, NumberedNodes
<1>3. link[r[0]][Right] = r[0 + 1] /\ link[r[items + 1]][Left] = r[items]
  BY <1>1 DEF Numbers
<1>4. \A k \in 0..items : link[r[k]][Right] = r[k + 1] /\ link[r[k + 1]][Left] = r[k]
  BY <1>1 DEF Numbers
<1>5. ASSUME NEW k \in 1..items
      PROVE  link[r[k]][Left] = r[k - 1] /\ link[r[k]][Right] = r[k + 1]
  <2>1. k - 1 \in 0..items /\ k - 1 + 1 = k /\ k \in 0..items
    BY <1>1
  <2>2. link[r[k - 1 + 1]][Left] = r[k - 1]
    BY <2>1, <1>4
  <2>3. QED
    BY <2>1, <2>2, <1>4
<1>6. QED
  BY <1>1, <1>2, <1>3, <1>5 DEF Numbers

LEMMA FreshNode ==
  ASSUME ListInv, NEW r, Numbered(r), NEW m \in Nodes \ used
  PROVE  /\ \A k \in 1..items : r[k] # m
         /\ \A k \in 0..items + 1 : r[k] # m
<1>1. m # Sentinel
  BY NodesAssumption
<1>2. \A k \in 1..items : r[k] # m
  BY RingEnds
<1>3. QED
  BY <1>1, <1>2, RingEnds

LEMMA SplicedType ==
  ASSUME NEW l \in Links, NEW a \in Places, NEW b \in Places, NEW m \in Places
  PROVE  Spliced(l, a, m, b) \in Links /\ Unlinked(l, a, m, b) \in Links
<1>1. Sentinel \in Places
  BY DEF Places
<1>2. QED
  BY <1>1 DEF Links, Spliced, Unlinked

LEMMA HeadPush ==
  ASSUME ListInv, NEW r, Numbered(r), NEW x, NEW op,
         Insert(op, x, link[Sentinel][Right], Left)
  PROVE  (Inserted(r, 0, x) /\ Did(op, x)) \/ (Kept /\ Did(op, NULL))
<1>1. CASE Did(op, NULL) /\ UNCHANGED <<used, data, link, items>>
  BY <1>1 DEF Kept
<1>2. ASSUME NEW m \in Nodes \ used,
             used' = used \cup {m}, data' = [data EXCEPT ![m] = x],
             link' = InsertLinks(m, link[Sentinel][Right], Left),
             items' = items + 1, Did(op, x)
      PROVE  Inserted(r, 0, x) /\ Did(op, x)
  <2>1. link \in Links /\ items \in Nat /\ Numbers(link, items, r)
    BY DEF ListInv, Numbered
  <2>2. r[0] \in Places /\ r[1] \in Places /\ r[0] # m /\ r[1] # m
    BY RingEnds, FreshNode
  <2>3. link[Sentinel][Right] = r[1] /\ link[r[1]][Left] = r[0]
    BY <2>1, RingEnds DEF Numbers
  <2>4. link' = Spliced(link, r[0], m, r[1])
    BY <1>2, <2>1, <2>2, <2>3, InsertBefore
  <2>5. Numbers(Spliced(link, r[0], m, r[1]), items + 1, Shifted(items, r, 0, m))
    <3>1. 0 \in 0..items /\ r[0 + 1] = r[1]
      BY <2>1
    <3>2. Numbers(Spliced(link, r[0], m, r[0 + 1]), items + 1, Shifted(items, r, 0, m))
      BY <2>1, <3>1, FreshNode, SplicedIsNumbered
    <3>3. QED
      BY <3>1, <3>2
  <2>6. link' \in Links
    BY <2>1, <2>2, <2>4, SplicedType DEF Places
  <2>7. QED
    BY <1>2, <2>4, <2>5, <2>6 DEF Inserted
<1>3. QED
  BY <1>1, <1>2 DEF Insert

LEMMA TailPush ==
  ASSUME ListInv, NEW r, Numbered(r), NEW x, NEW op,
         Insert(op, x, link[Sentinel][Left], Right)
  PROVE  (Inserted(r, items, x) /\ Did(op, x)) \/ (Kept /\ Did(op, NULL))
<1>1. CASE Did(op, NULL) /\ UNCHANGED <<used, data, link, items>>
  BY <1>1 DEF Kept
<1>2. ASSUME NEW m \in Nodes \ used,
             used' = used \cup {m}, data' = [data EXCEPT ![m] = x],
             link' = InsertLinks(m, link[Sentinel][Left], Right),
             items' = items + 1, Did(op, x)
      PROVE  Inserted(r, items, x) /\ Did(op, x)
  <2>1. link \in Links /\ items \in Nat /\ Numbers(link, items, r)
    BY DEF ListInv, Numbered
  <2>2. r[items] \in Places /\ r[items + 1] \in Places /\ r[items] # m /\ r[items + 1] # m
    BY <2>1, RingEnds, FreshNode
  <2>3. link[Sentinel][Left] = r[items] /\ link[r[items]][Right] = r[items + 1]
    BY <2>1, RingEnds DEF Numbers
  <2>4. link' = Spliced(link, r[items], m, r[items + 1])
    BY <1>2, <2>1, <2>2, <2>3, InsertAfter
  <2>5. Numbers(Spliced(link, r[items], m, r[items + 1]), items + 1, Shifted(items, r, items, m))
    BY <2>1, FreshNode, SplicedIsNumbered
  <2>6. link' \in Links
    BY <2>1, <2>2, <2>4, SplicedType DEF Places
  <2>7. QED
    BY <1>2, <2>4, <2>5, <2>6 DEF Inserted
<1>3. QED
  BY <1>1, <1>2 DEF Insert

LEMMA NodeRemoval ==
  ASSUME ListInv, NEW r, Numbered(r), NEW p \in 1..items, NEW op, RemoveNode(op, r[p])
  PROVE  Removed(r, p) /\ Did(op, data[r[p]])
<1>1. link \in Links /\ items \in Nat /\ Numbers(link, items, r)
  BY DEF ListInv, Numbered
<1>2. /\ r[p] \in Nodes /\ r[p - 1] \in Places /\ r[p + 1] \in Places
      /\ link[r[p]][Left] = r[p - 1] /\ link[r[p]][Right] = r[p + 1]
  BY <1>1, RingEnds
<1>3. r[p] # r[p - 1]
  BY <1>1 DEF Numbers
<1>4. r[p] # r[p + 1]
  <2>1. CASE p = items
    BY <2>1, RingEnds
  <2>2. CASE p # items
    BY <1>1, <2>2 DEF Numbers
  <2>3. QED
    BY <2>1, <2>2
<1>5. link' = Unlinked(link, r[p - 1], r[p], r[p + 1])
  BY <1>1, <1>2, <1>3, <1>4, RemoveUnlinks DEF RemoveNode
<1>6. Numbers(Unlinked(link, r[p - 1], r[p], r[p + 1]), items - 1, Closed(items, r, p))
  BY <1>1, UnlinkedIsNumbered
<1>7. link' \in Links
  BY <1>1, <1>2, <1>5, SplicedType DEF Places
<1>8. QED
  BY <1>5, <1>6, <1>7 DEF RemoveNode, Release, Removed

-----------------------------------------------------------------------------
(* What the loops over the list find.                                      *)

LEMMA ReachedIsNumbered ==
  ASSUME ListInv, NEW r, Numbered(r)
  PROVE  Reached = [k \in 1..items |-> r[k]]
<1>1. items \in Nat /\ Numbers(link, items, r)
  BY DEF ListInv, Numbered
<1>2. Reached = WalkOf(link)
  BY DEF Reached, WalkOf
<1>3. QED
  BY <1>1, <1>2, WalkNumbered

Hits(r, x) == {k \in 1..items : Key[data[r[k]]] = Key[x]}

LEMMA FirstHit ==
  ASSUME ListInv, NEW r, Numbered(r), NEW x
  PROVE  \/ Hits(r, x) = {} /\ FirstLike(x) = Sentinel
         \/ \E p \in Hits(r, x) : /\ \A j \in Hits(r, x) : p <= j
                                  /\ FirstLike(x) = r[p] /\ r[p] # Sentinel
<1> DEFINE H == {k \in DOMAIN Reached : Key[data[Reached[k]]] = Key[x]}
<1>1. items \in Nat
  BY DEF ListInv
<1>2. DOMAIN Reached = 1..items /\ \A k \in 1..items : Reached[k] = r[k]
  BY ReachedIsNumbered
<1>3. H = Hits(r, x) /\ H \subseteq 1..items /\ H \subseteq Nat
  BY <1>1, <1>2 DEF Hits
<1>4. FirstLike(x) = IF H = {} THEN Sentinel
                     ELSE Reached[CHOOSE k \in H : \A j \in H : k <= j]
  BY DEF FirstLike
<1> HIDE DEF H
<1>5. CASE H = {}
  BY <1>3, <1>4, <1>5
<1>6. CASE H # {}
  <2> DEFINE p == CHOOSE k \in H : \A j \in H : k <= j
  <2>1. p \in H /\ \A j \in H : p <= j
    BY <1>3, <1>6, LeastNat
  <2>2. FirstLike(x) = Reached[p]
    BY <1>4, <1>6
  <2> HIDE DEF p
  <2>3. p \in 1..items /\ Reached[p] = r[p] /\ r[p] # Sentinel
    BY <1>2, <1>3, <2>1, RingEnds
  <2>4. QED
    BY <1>3, <2>1, <2>2, <2>3
<1>7. QED
  BY <1>5, <1>6

LEMMA HeadPop ==
  ASSUME ListInv, NEW r, Numbered(r), dlist_pop_head
  PROVE  /\ open /\ open' = open
         /\ \/ items = 0 /\ Kept /\ Did("pop_head", NULL)
            \/ items # 0 /\ Removed(r, 1) /\ Did("pop_head", data[r[1]])
<1>1. items \in Nat /\ link[Sentinel][Right] = r[1]
  BY RingEnds
<1>2. CASE items = 0
  <2>1. link[Sentinel][Right] = Sentinel
    BY <1>1, <1>2, RingEnds
  <2>2. QED
    BY <1>2, <2>1 DEF dlist_pop_head, PopAt, Kept
<1>3. CASE items # 0
  <2>1. 1 \in 1..items
    BY <1>1, <1>3
  <2>2. r[1] # Sentinel
    BY <2>1, RingEnds
  <2>3. RemoveNode("pop_head", r[1])
    BY <1>1, <2>2 DEF dlist_pop_head, PopAt
  <2>4. QED
    BY <1>3, <2>1, <2>3, NodeRemoval DEF dlist_pop_head, PopAt
<1>4. QED
  BY <1>2, <1>3

LEMMA TailPop ==
  ASSUME ListInv, NEW r, Numbered(r), dlist_pop_tail
  PROVE  /\ open /\ open' = open
         /\ \/ items = 0 /\ Kept /\ Did("pop_tail", NULL)
            \/ items # 0 /\ Removed(r, items) /\ Did("pop_tail", data[r[items]])
<1>1. items \in Nat /\ link[Sentinel][Left] = r[items]
  BY RingEnds
<1>2. CASE items = 0
  <2>1. link[Sentinel][Left] = Sentinel
    BY <1>1, <1>2, RingEnds
  <2>2. QED
    BY <1>2, <2>1 DEF dlist_pop_tail, PopAt, Kept
<1>3. CASE items # 0
  <2>1. items \in 1..items
    BY <1>1, <1>3
  <2>2. r[items] # Sentinel
    BY <2>1, RingEnds
  <2>3. RemoveNode("pop_tail", r[items])
    BY <1>1, <2>2 DEF dlist_pop_tail, PopAt
  <2>4. QED
    BY <1>3, <2>1, <2>3, NodeRemoval DEF dlist_pop_tail, PopAt
<1>4. QED
  BY <1>2, <1>3

LEMMA ItemRemoval ==
  ASSUME ListInv, NEW r, Numbered(r), NEW x, dlist_remove_item(x)
  PROVE  /\ open /\ open' = open
         /\ \/ Hits(r, x) = {} /\ Kept /\ Did("remove_item", NULL)
            \/ \E p \in Hits(r, x) :
                 /\ \A j \in Hits(r, x) : p <= j
                 /\ Removed(r, p) /\ Did("remove_item", data[r[p]])
<1>1. CASE Hits(r, x) = {} /\ FirstLike(x) = Sentinel
  BY <1>1 DEF dlist_remove_item, Kept
<1>2. ASSUME NEW p \in Hits(r, x), \A j \in Hits(r, x) : p <= j,
             FirstLike(x) = r[p], r[p] # Sentinel
      PROVE  Removed(r, p) /\ Did("remove_item", data[r[p]])
  <2>1. p \in 1..items
    BY DEF Hits
  <2>2. RemoveNode("remove_item", r[p])
    BY <1>2 DEF dlist_remove_item
  <2>3. QED
    BY <2>1, <2>2, NodeRemoval
<1>3. open /\ open' = open
  BY DEF dlist_remove_item
<1>4. QED
  BY <1>1, <1>2, <1>3, FirstHit

LEMMA Destruction ==
  ASSUME ListInv, NEW r, Numbered(r), dlist_destroy
  PROVE  used' = {}
<1>1. Reached = [k \in 1..items |-> r[k]]
  BY ReachedIsNumbered
<1>2. {Reached[k] : k \in DOMAIN Reached} = {r[k] : k \in 1..items}
  BY <1>1
<1>3. QED
  BY <1>2 DEF dlist_destroy, Numbered, NodesOf

-----------------------------------------------------------------------------
(* The invariant holds initially and is kept by every function.            *)

LEMMA EmptyState ==
  ASSUME open' \in BOOLEAN, link' = Ring, items' = 0, used' = {},
         data' \in [Nodes -> Items \cup {NULL}]
  PROVE  ListInv'
<1> DEFINE r == [k \in 0..1 |-> Sentinel]
<1>1. Numbers(link', items', r)
  BY EmptyRing
<1>2. used' = NodesOf(items', r)
  BY DEF NodesOf
<1> HIDE DEF r
<1>3. Numbered(r)'
  BY <1>1, <1>2 DEF Numbered
<1>4. \E q : Numbered(q)'
  BY <1>3
<1>5. link' \in Links
  BY EmptyRing
<1>6. QED
  BY <1>4, <1>5 DEF ListInv

LEMMA InsertedInv ==
  ASSUME ListInv, NEW r, Numbered(r), NEW p \in 0..items, NEW x \in Items,
         Inserted(r, p, x), open, open' = open
  PROVE  ListInv'
<1>1. PICK m \in Nodes \ used :
        /\ used' = used \cup {m} /\ data' = [data EXCEPT ![m] = x]
        /\ items' = items + 1 /\ link' \in Links
        /\ Numbers(link', items + 1, Shifted(items, r, p, m))
  BY DEF Inserted
<1>2. items \in Nat /\ used = NodesOf(items, r)
  BY DEF ListInv, Numbered
<1>3. PICK s : s = Shifted(items, r, p, m)
  OBVIOUS
<1>4. NodesOf(items + 1, s) = NodesOf(items, r) \cup {m}
  BY <1>2, <1>3, SplicedNodes
<1>5. Numbers(link', items', s) /\ used' = NodesOf(items', s)
  BY <1>1, <1>2, <1>3, <1>4
<1>6. \E q : Numbered(q)'
  BY <1>5 DEF Numbered
<1>7. used' \subseteq Nodes /\ items' \in Nat /\ open' \in BOOLEAN /\ open'
  BY <1>1, <1>2 DEF ListInv
<1>8. data' \in [Nodes -> Items \cup {NULL}] /\ \A n \in used' : data'[n] \in Items
  BY <1>1 DEF ListInv
<1>9. QED
  BY <1>1, <1>6, <1>7, <1>8 DEF ListInv

LEMMA RemovedInv ==
  ASSUME ListInv, NEW r, Numbered(r), NEW p \in 1..items, Removed(r, p), open, open' = open
  PROVE  ListInv'
<1>1. items \in Nat /\ Numbers(link, items, r) /\ used = NodesOf(items, r)
  BY DEF ListInv, Numbered
<1>2. PICK s : s = Closed(items, r, p)
  OBVIOUS
<1>3. NodesOf(items - 1, s) = NodesOf(items, r) \ {r[p]}
  BY <1>1, <1>2, UnlinkedNodes
<1>4. Numbers(link', items', s) /\ used' = NodesOf(items', s)
  BY <1>1, <1>2, <1>3 DEF Removed
<1>5. \E q : Numbered(q)'
  BY <1>4 DEF Numbered
<1>6. used' \subseteq Nodes /\ items' \in Nat /\ open' \in BOOLEAN /\ open' /\ link' \in Links
  BY <1>1 DEF ListInv, Removed
<1>7. data' \in [Nodes -> Items \cup {NULL}] /\ \A n \in used' : data'[n] \in Items
  <2>1. \A n \in used' : n \in used /\ n # r[p] /\ n \in Nodes
    BY DEF ListInv, Removed
  <2>2. data' = [data EXCEPT ![r[p]] = NULL]
    BY DEF Removed
  <2>3. QED
    BY <2>1, <2>2 DEF ListInv
<1>8. QED
  BY <1>5, <1>6, <1>7 DEF ListInv

LEMMA KeptInv ==
  ASSUME ListInv, Kept, open' \in BOOLEAN, open' \/ ~open
  PROVE  ListInv'
<1>1. PICK r : Numbered(r)
  BY DEF ListInv
<1>2. \E q : Numbered(q)'
  BY <1>1 DEF Numbered, Kept
<1>3. QED
  BY <1>2 DEF ListInv, Kept

LEMMA InitList == Init => ListInv
<1> SUFFICES ASSUME Init PROVE ListInv
  OBVIOUS
<1> DEFINE r == [k \in 0..1 |-> Sentinel]
<1>1. Numbers(link, items, r) /\ link \in Links
  BY EmptyRing DEF Init
<1>2. used = NodesOf(items, r)
  BY DEF Init, NodesOf
<1> HIDE DEF r
<1>3. \E q : Numbered(q)
  BY <1>1, <1>2 DEF Numbered
<1>4. QED
  BY <1>1, <1>3 DEF ListInv, Init

LEMMA NextList == ListInv /\ [Next]_vars => ListInv'
<1> SUFFICES ASSUME ListInv, [Next]_vars PROVE ListInv'
  OBVIOUS
<1>1. PICK r : Numbered(r)
  BY DEF ListInv
<1>2. items \in Nat /\ open \in BOOLEAN
  BY DEF ListInv
<1>3. CASE dlist_create
  <2>1. items = 0 /\ used = {r[k] : k \in 1..items}
    BY <1>1, <1>3 DEF ListInv, Numbered, NodesOf, dlist_create
  <2>2. used' = {}
    BY <1>3, <2>1 DEF dlist_create
  <2>3. QED
    BY <1>3, <2>2, EmptyState DEF dlist_create, ListInv
<1>4. CASE dlist_destroy
  BY <1>1, <1>4, Destruction, EmptyState DEF dlist_destroy
<1>5. CASE dlist_pop_head
  <2>1. CASE Kept
    BY <1>1, <1>2, <1>5, <2>1, HeadPop, KeptInv
  <2>2. CASE items # 0 /\ Removed(r, 1)
    <3>1. 1 \in 1..items
      BY <1>2, <2>2
    <3>2. QED
      BY <1>1, <1>5, <2>2, <3>1, HeadPop, RemovedInv
  <2>3. QED
    BY <1>1, <1>5, <2>1, <2>2, HeadPop
<1>6. CASE dlist_pop_tail
  <2>1. CASE Kept
    BY <1>1, <1>2, <1>6, <2>1, TailPop, KeptInv
  <2>2. CASE items # 0 /\ Removed(r, items)
    <3>1. items \in 1..items
      BY <1>2, <2>2
    <3>2. QED
      BY <1>1, <1>6, <2>2, <3>1, TailPop, RemovedInv
  <2>3. QED
    BY <1>1, <1>6, <2>1, <2>2, TailPop
<1>7. ASSUME NEW x \in Items, dlist_push_head(x)
      PROVE  ListInv'
  <2>1. open /\ open' = open /\ Insert("push_head", x, link[Sentinel][Right], Left)
    BY <1>7 DEF dlist_push_head
  <2>2. Inserted(r, 0, x) \/ Kept
    BY <1>1, <2>1, HeadPush
  <2>3. 0 \in 0..items
    BY <1>2
  <2>4. QED
    BY <1>1, <1>2, <2>1, <2>2, <2>3, InsertedInv, KeptInv
<1>8. ASSUME NEW x \in Items, dlist_push_tail(x)
      PROVE  ListInv'
  <2>1. open /\ open' = open /\ Insert("push_tail", x, link[Sentinel][Left], Right)
    BY <1>8 DEF dlist_push_tail
  <2>2. Inserted(r, items, x) \/ Kept
    BY <1>1, <2>1, TailPush
  <2>3. items \in 0..items
    BY <1>2
  <2>4. QED
    BY <1>1, <1>2, <2>1, <2>2, <2>3, InsertedInv, KeptInv
<1>9. ASSUME NEW x \in Items, dlist_find(x)
      PROVE  ListInv'
  BY <1>2, <1>9, KeptInv DEF dlist_find, Kept
<1>10. ASSUME NEW x \in Items, dlist_remove_item(x)
       PROVE  ListInv'
  <2>1. open /\ open' = open
    BY <1>10 DEF dlist_remove_item
  <2>2. Kept \/ \E p \in Hits(r, x) : Removed(r, p)
    BY <1>1, <1>10, ItemRemoval
  <2>3. Hits(r, x) \subseteq 1..items
    BY DEF Hits
  <2>4. QED
    BY <1>1, <1>2, <2>1, <2>2, <2>3, RemovedInv, KeptInv
<1>11. CASE UNCHANGED vars
  BY <1>2, <1>11, KeptInv DEF vars, Kept
<1>12. QED
  BY <1>3, <1>4, <1>5, <1>6, <1>7, <1>8, <1>9, <1>10, <1>11 DEF Next

LEMMA ListInvariant == Spec => []ListInv
BY InitList, NextList, PTL DEF Spec

-----------------------------------------------------------------------------
(* The properties of the list.                                             *)

LEMMA ListGivesCount == ListInv => CountMatches
<1> SUFFICES ASSUME ListInv PROVE CountMatches
  OBVIOUS
<1>1. PICK r : Numbered(r)
  BY DEF ListInv
<1>2. items \in Nat /\ Numbers(link, items, r) /\ used = {r[k] : k \in 1..items}
  BY <1>1 DEF ListInv, Numbered, NodesOf
<1>3. Reached = [k \in 1..items |-> r[k]]
  BY <1>1, ReachedIsNumbered
<1>4. {Reached[k] : k \in DOMAIN Reached} = used
  BY <1>2, <1>3
<1>5. items = Cardinality(used)
  <2> DEFINE g == [k \in 1..items |-> r[k]]
  <2>1. g \in [1..items -> used] /\ \A i, j \in 1..items : g[i] = g[j] => i = j
    BY <1>2 DEF Numbers
  <2>2. \A m \in used : \E k \in 1..items : g[k] = m
    BY <1>2
  <2>3. g \in Injection(1..items, used) /\ g \in Surjection(1..items, used)
    BY <2>1, <2>2, Fun_IsInj, Fun_IsSurj
  <2>4. IsFiniteSet(1..items) /\ Cardinality(1..items) = items
    BY <1>2, FS_Interval
  <2>5. QED
    BY <2>3, <2>4, FS_Surjection
<1>6. QED
  BY <1>4, <1>5 DEF CountMatches

LEMMA ListGivesRing == ListInv => RingCloses
<1> SUFFICES ASSUME ListInv, NEW p \in used \cup {Sentinel}, NEW d \in Dirs
             PROVE  link[link[p][d]][Opposite(d)] = p
  BY DEF RingCloses
<1> USE DEF Left, Right, Dirs, Opposite
<1>1. PICK r : Numbered(r)
  BY DEF ListInv
<1>2. items \in Nat /\ Numbers(link, items, r) /\ used = {r[k] : k \in 1..items}
  BY <1>1 DEF ListInv, Numbered, NodesOf
<1>3. PICK k \in 0..items : r[k] = p
  BY <1>2 DEF Numbers
<1>4. PICK i \in 0..items : r[i + 1] = p
  <2>1. CASE k = 0
    BY <1>2, <1>3, <2>1 DEF Numbers
  <2>2. CASE k # 0
    <3>1. k - 1 \in 0..items /\ k - 1 + 1 = k
      BY <1>2, <2>2
    <3>2. QED
      BY <1>3, <3>1
  <2>3. QED
    BY <2>1, <2>2
<1>5. CASE d = Right
  BY <1>2, <1>3, <1>5 DEF Numbers
<1>6. CASE d = Left
  BY <1>2, <1>4, <1>6 DEF Numbers
<1>7. QED
  BY <1>5, <1>6

\* The count of dl_items is the number of nodes the loops over the list reach,
\* and these are all the nodes that are allocated, for a list of any length.
THEOREM CountIsTheLength == Spec => []CountMatches
BY ListInvariant, ListGivesCount, PTL

\* The left links undo the right links at every node and at the sentinel, so
\* that dlist_pop_tail() and dlist_push_tail() see the list the others see.
THEOREM RingIsClosed == Spec => []RingCloses
BY ListInvariant, ListGivesRing, PTL

-----------------------------------------------------------------------------
(* The ring implements the list of ListSeq.                                *)

LEMMA FcnIsSeq ==
  ASSUME NEW S, NEW n \in Nat, NEW f \in [1..n -> S]
  PROVE  f \in Seq(S) /\ Len(f) = n
<1>1. \E m \in Nat : f \in [1..m -> S]
  OBVIOUS
<1>2. f \in Seq(S)
  BY <1>1, SeqDef
<1>3. DOMAIN f = 1..Len(f) /\ Len(f) \in Nat
  BY <1>2, LenProperties
<1>4. QED
  BY <1>2, <1>3

\* What Contents says of the links l and the data e.
ContentsOf(l, e) == [k \in DOMAIN WalkOf(l) |-> e[WalkOf(l)[k]]]

LEMMA ContentsNumbered ==
  ASSUME NEW l, NEW e, NEW n \in Nat, NEW r, Numbers(l, n, r), \A k \in 1..n : e[r[k]] \in Items
  PROVE  /\ ContentsOf(l, e) \in Seq(Items) /\ Len(ContentsOf(l, e)) = n
         /\ \A k \in 1..n : ContentsOf(l, e)[k] = e[r[k]]
<1>1. DOMAIN WalkOf(l) = 1..n /\ \A k \in 1..n : WalkOf(l)[k] = r[k]
  BY WalkNumbered
<1>2. ContentsOf(l, e) \in [1..n -> Items] /\ \A k \in 1..n : ContentsOf(l, e)[k] = e[r[k]]
  BY <1>1 DEF ContentsOf
<1>3. QED
  BY <1>2, FcnIsSeq

LEMMA ContentsAre ==
  /\ Contents = ContentsOf(link, data)
  /\ Contents' = ContentsOf(link', data')
<1>1. Reached = WalkOf(link) /\ Reached' = WalkOf(link')
  BY DEF Reached, WalkOf
<1>2. QED
  BY <1>1 DEF Contents, ContentsOf

LEMMA ContentsNow ==
  ASSUME ListInv, NEW r, Numbered(r)
  PROVE  /\ Contents \in Seq(Items) /\ Len(Contents) = items
         /\ \A k \in 1..items : Contents[k] = data[r[k]]
<1>1. items \in Nat /\ Numbers(link, items, r) /\ \A k \in 1..items : data[r[k]] \in Items
  BY RingEnds DEF ListInv, Numbered
<1>2. QED
  BY <1>1, ContentsNumbered, ContentsAre

LEMMA EmptyContents ==
  ASSUME NEW l, NEW e, l = Ring
  PROVE  ContentsOf(l, e) = <<>>
<1>1. ContentsOf(l, e) \in Seq(Items) /\ Len(ContentsOf(l, e)) = 0
  BY EmptyRing, ContentsNumbered
<1>2. QED
  BY <1>1, EmptySeq

LEMMA KeptContents == Kept => Contents' = Contents
BY ContentsAre DEF Kept

LEMMA InsertedContents ==
  ASSUME ListInv, NEW r, Numbered(r), NEW p \in 0..items, NEW x \in Items, Inserted(r, p, x)
  PROVE  /\ Contents' \in Seq(Items) /\ Len(Contents') = items + 1
         /\ \A k \in 1..items + 1 :
              Contents'[k] = IF k <= p THEN Contents[k]
                             ELSE IF k = p + 1 THEN x ELSE Contents[k - 1]
<1>1. PICK m \in Nodes \ used :
        /\ used' = used \cup {m} /\ data' = [data EXCEPT ![m] = x]
        /\ items' = items + 1 /\ link' \in Links
        /\ Numbers(link', items + 1, Shifted(items, r, p, m))
  BY DEF Inserted
<1>2. items \in Nat /\ data \in [Nodes -> Items \cup {NULL}]
  BY DEF ListInv
<1>3. PICK s : s = Shifted(items, r, p, m)
  OBVIOUS
<1>4. \A k \in 1..items + 1 :
        s[k] = IF k <= p THEN r[k] ELSE IF k = p + 1 THEN m ELSE r[k - 1]
  BY <1>2, <1>3 DEF Shifted
<1>5. \A k \in 1..items : r[k] # m /\ r[k] \in Nodes /\ data[r[k]] \in Items
                        /\ Contents[k] = data[r[k]]
  BY <1>1, FreshNode, RingEnds, ContentsNow DEF ListInv
<1>6. data'[m] = x /\ \A k \in 1..items : data'[r[k]] = Contents[k] /\ data'[r[k]] \in Items
  BY <1>1, <1>2, <1>5
<1>7. \A k \in 1..items + 1 :
        /\ data'[s[k]] = IF k <= p THEN Contents[k]
                         ELSE IF k = p + 1 THEN x ELSE Contents[k - 1]
        /\ data'[s[k]] \in Items
  BY <1>2, <1>4, <1>6
<1>8. ContentsOf(link', data') \in Seq(Items) /\ Len(ContentsOf(link', data')) = items + 1
      /\ \A k \in 1..items + 1 : ContentsOf(link', data')[k] = data'[s[k]]
  <2>1. items + 1 \in Nat /\ Numbers(link', items + 1, s)
    BY <1>1, <1>3, <1>2
  <2>2. \A k \in 1..items + 1 : data'[s[k]] \in Items
    BY <1>7
  <2>3. PICK n \in Nat : n = items + 1
    BY <2>1
  <2>4. QED
    BY <2>1, <2>2, <2>3, ContentsNumbered
<1>9. QED
  BY <1>7, <1>8, ContentsAre

LEMMA RemovedContents ==
  ASSUME ListInv, NEW r, Numbered(r), NEW p \in 1..items, Removed(r, p)
  PROVE  /\ Contents' \in Seq(Items) /\ Len(Contents') = items - 1
         /\ \A k \in 1..items - 1 :
              Contents'[k] = IF k < p THEN Contents[k] ELSE Contents[k + 1]
<1>1. items \in Nat /\ items - 1 \in Nat /\ data \in [Nodes -> Items \cup {NULL}]
      /\ Numbers(link, items, r)
  BY DEF ListInv, Numbered
<1>2. PICK s : s = Closed(items, r, p)
  OBVIOUS
<1>3. \A k \in 1..items - 1 : s[k] = IF k < p THEN r[k] ELSE r[k + 1]
  BY <1>1, <1>2 DEF Closed
<1>4. \A k \in 1..items : r[k] \in Nodes /\ data[r[k]] \in Items /\ Contents[k] = data[r[k]]
  BY RingEnds, ContentsNow DEF ListInv
<1>5. \A k \in 1..items : k # p => r[k] # r[p]
  BY <1>1 DEF Numbers
<1>6. data' = [data EXCEPT ![r[p]] = NULL] /\ Numbers(link', items - 1, s)
  BY <1>2 DEF Removed
<1>7. \A k \in 1..items : k # p => data'[r[k]] = Contents[k] /\ data'[r[k]] \in Items
  BY <1>1, <1>4, <1>5, <1>6
<1>8. \A k \in 1..items - 1 :
        /\ data'[s[k]] = IF k < p THEN Contents[k] ELSE Contents[k + 1]
        /\ data'[s[k]] \in Items
  BY <1>1, <1>3, <1>7
<1>9. ContentsOf(link', data') \in Seq(Items) /\ Len(ContentsOf(link', data')) = items - 1
      /\ \A k \in 1..items - 1 : ContentsOf(link', data')[k] = data'[s[k]]
  <2>1. items - 1 \in Nat /\ Numbers(link', items - 1, s)
    BY <1>6, <1>1
  <2>2. \A k \in 1..items - 1 : data'[s[k]] \in Items
    BY <1>8
  <2>3. PICK n \in Nat : n = items - 1
    BY <2>1
  <2>4. QED
    BY <2>1, <2>2, <2>3, ContentsNumbered
<1>10. QED
  BY <1>8, <1>9, ContentsAre

\* The sequences that ListSeq writes, item by item.
LEMMA InFront ==
  ASSUME NEW S, NEW L \in Seq(S), NEW M \in Seq(S), NEW x \in S, Len(M) = Len(L) + 1,
         \A k \in 1..Len(L) + 1 : M[k] = IF k = 1 THEN x ELSE L[k - 1]
  PROVE  M = <<x>> \o L
<1>1. <<x>> \in Seq(S) /\ Len(<<x>>) = 1 /\ <<x>>[1] = x /\ Len(L) \in Nat
  OBVIOUS
<1>2. /\ <<x>> \o L \in Seq(S) /\ Len(<<x>> \o L) = 1 + Len(L)
      /\ \A k \in 1..1 + Len(L) : (<<x>> \o L)[k] = IF k <= 1 THEN <<x>>[k] ELSE L[k - 1]
  BY <1>1, ConcatProperties
<1>3. \A k \in 1..Len(M) : M[k] = (<<x>> \o L)[k]
  BY <1>1, <1>2
<1>4. QED
  BY <1>1, <1>2, <1>3, SeqEqual

LEMMA AtTheEnd ==
  ASSUME NEW S, NEW L \in Seq(S), NEW M \in Seq(S), NEW x \in S, Len(M) = Len(L) + 1,
         \A k \in 1..Len(L) + 1 : M[k] = IF k <= Len(L) THEN L[k] ELSE x
  PROVE  M = L \o <<x>>
<1>1. <<x>> \in Seq(S) /\ Len(<<x>>) = 1 /\ <<x>>[1] = x /\ Len(L) \in Nat
  OBVIOUS
<1>2. /\ L \o <<x>> \in Seq(S) /\ Len(L \o <<x>>) = Len(L) + 1
      /\ \A k \in 1..Len(L) + 1 :
           (L \o <<x>>)[k] = IF k <= Len(L) THEN L[k] ELSE <<x>>[k - Len(L)]
  BY <1>1, ConcatProperties
<1>3. \A k \in 1..Len(M) : M[k] = (L \o <<x>>)[k]
  BY <1>1, <1>2
<1>4. QED
  BY <1>1, <1>2, <1>3, SeqEqual

LEMMA WithoutOne ==
  ASSUME NEW S, NEW L \in Seq(S), NEW M \in Seq(S), NEW p \in 1..Len(L), Len(M) = Len(L) - 1,
         \A k \in 1..Len(L) - 1 : M[k] = IF k < p THEN L[k] ELSE L[k + 1]
  PROVE  M = SubSeq(L, 1, p - 1) \o SubSeq(L, p + 1, Len(L))
<1> DEFINE A == SubSeq(L, 1, p - 1)
           B == SubSeq(L, p + 1, Len(L))
<1>1. Len(L) \in Nat /\ \A i \in 1..Len(L) : L[i] \in S
  BY LenProperties, ElementOfSeq
<1>2. \A i \in 1..p - 1 : L[i] \in S
  BY <1>1
<1>3. A \in Seq(S) /\ Len(A) = p - 1 /\ \A i \in 1..p - 1 : A[i] = L[i]
  <2>1. A \in Seq(S) /\ Len(A) = (IF 1 <= p - 1 THEN p - 1 - 1 + 1 ELSE 0)
        /\ \A i \in 1..p - 1 - 1 + 1 : A[i] = L[1 + i - 1]
    BY <1>1, <1>2, SubSeqProperties
  <2> HIDE DEF A
  <2>2. QED
    BY <1>1, <2>1
<1>4. \A i \in p + 1..Len(L) : L[i] \in S
  BY <1>1
<1>5. B \in Seq(S) /\ Len(B) = Len(L) - p /\ \A i \in 1..Len(L) - p : B[i] = L[p + i]
  <2>1. B \in Seq(S) /\ Len(B) = (IF p + 1 <= Len(L) THEN Len(L) - (p + 1) + 1 ELSE 0)
        /\ \A i \in 1..Len(L) - (p + 1) + 1 : B[i] = L[p + 1 + i - 1]
    BY <1>1, <1>4, SubSeqProperties
  <2> HIDE DEF B
  <2>2. QED
    BY <1>1, <2>1
<1> HIDE DEF A, B
<1>6. /\ A \o B \in Seq(S) /\ Len(A \o B) = Len(A) + Len(B)
      /\ \A k \in 1..Len(A) + Len(B) : (A \o B)[k] = IF k <= Len(A) THEN A[k] ELSE B[k - Len(A)]
  BY <1>3, <1>5, ConcatProperties
<1>7. Len(A) + Len(B) = Len(M)
  BY <1>1, <1>3, <1>5
<1>8. ASSUME NEW k \in 1..Len(M)
      PROVE  M[k] = (A \o B)[k]
  <2>1. CASE k < p
    <3>1. (A \o B)[k] = A[k]
      BY <1>1, <1>3, <1>6, <1>7, <2>1
    <3>2. A[k] = L[k] /\ M[k] = L[k]
      BY <1>1, <1>3, <2>1
    <3>3. QED
      BY <3>1, <3>2
  <2>2. CASE ~(k < p)
    <3>1. (A \o B)[k] = B[k - (p - 1)]
      BY <1>1, <1>3, <1>6, <1>7, <2>2
    <3>2. k - (p - 1) \in 1..Len(L) - p /\ p + (k - (p - 1)) = k + 1
      BY <1>1, <2>2
    <3>3. B[k - (p - 1)] = L[p + (k - (p - 1))]
      BY <1>5, <3>2
    <3>4. M[k] = L[k + 1]
      BY <1>1, <2>2
    <3>5. QED
      BY <3>1, <3>2, <3>3, <3>4
  <2>3. QED
    BY <2>1, <2>2
<1>9. M = A \o B
  BY <1>6, <1>7, <1>8, SeqEqual
<1>10. QED
  BY <1>9 DEF A, B

LEMMA WithoutFirst ==
  ASSUME NEW S, NEW L \in Seq(S), NEW M \in Seq(S), Len(L) # 0, Len(M) = Len(L) - 1,
         \A k \in 1..Len(L) - 1 : M[k] = L[k + 1]
  PROVE  L # <<>> /\ M = Tail(L) /\ Head(L) = L[1]
<1>1. L # <<>> /\ Head(L) = L[1]
  OBVIOUS
<1>2. Tail(L) \in Seq(S) /\ Len(Tail(L)) = Len(L) - 1
      /\ \A i \in 1..Len(Tail(L)) : Tail(L)[i] = L[i + 1]
  BY <1>1, HeadTailProperties
<1>3. QED
  BY <1>1, <1>2, SeqEqual

LEMMA WithoutLast ==
  ASSUME NEW S, NEW L \in Seq(S), NEW M \in Seq(S), Len(L) # 0, Len(M) = Len(L) - 1,
         \A k \in 1..Len(L) - 1 : M[k] = L[k]
  PROVE  L # <<>> /\ M = SubSeq(L, 1, Len(L) - 1)
<1>1. Len(L) \in Nat /\ L # <<>>
  OBVIOUS
<1>2. \A i \in 1..Len(L) - 1 : L[i] \in S
  BY <1>1, ElementOfSeq
<1>3. SubSeq(L, 1, Len(L) - 1) \in Seq(S)
      /\ Len(SubSeq(L, 1, Len(L) - 1)) = (IF 1 <= Len(L) - 1 THEN Len(L) - 1 - 1 + 1 ELSE 0)
      /\ \A i \in 1..Len(L) - 1 - 1 + 1 : SubSeq(L, 1, Len(L) - 1)[i] = L[1 + i - 1]
  BY <1>1, <1>2, SubSeqProperties
<1>4. Len(SubSeq(L, 1, Len(L) - 1)) = Len(M)
  BY <1>1, <1>3
<1>5. \A k \in 1..Len(M) : M[k] = SubSeq(L, 1, Len(L) - 1)[k]
  BY <1>1, <1>3
<1>6. QED
  BY <1>1, <1>3, <1>4, <1>5, SeqEqual

-----------------------------------------------------------------------------
(* Every function does to the contents what ListSeq says.                  *)

LEMMA InitAbstract == Init => Abstract!Init
<1>1. Init => Contents = <<>>
  BY EmptyContents, ContentsAre DEF Init
<1>2. QED
  BY <1>1 DEF Init, Abstract!Init

LEMMA CreateAbstract ==
  ASSUME dlist_create
  PROVE  Abstract!Create
<1>1. Contents' = <<>>
  BY EmptyContents, ContentsAre DEF dlist_create
<1>2. QED
  BY <1>1 DEF dlist_create, Did, Abstract!Create, Abstract!Did

LEMMA DestroyAbstract ==
  ASSUME dlist_destroy
  PROVE  Abstract!Destroy
<1>1. Contents' = <<>>
  BY EmptyContents, ContentsAre DEF dlist_destroy
<1>2. QED
  BY <1>1 DEF dlist_destroy, Did, Abstract!Destroy, Abstract!Did

LEMMA HeadPushAbstract ==
  ASSUME ListInv, NEW x \in Items, dlist_push_head(x)
  PROVE  Abstract!PushHead(x)
<1>1. PICK r : Numbered(r)
  BY DEF ListInv
<1>2. items \in Nat /\ open /\ open' = open /\ Insert("push_head", x, link[Sentinel][Right], Left)
  BY DEF ListInv, dlist_push_head
<1>3. CASE Inserted(r, 0, x) /\ Did("push_head", x)
  <2>1. 0 \in 0..items
    BY <1>2
  <2>2. /\ Contents' \in Seq(Items) /\ Len(Contents') = items + 1
        /\ \A k \in 1..items + 1 :
             Contents'[k] = IF k <= 0 THEN Contents[k]
                            ELSE IF k = 0 + 1 THEN x ELSE Contents[k - 1]
    BY <1>1, <1>3, <2>1, InsertedContents
  <2>3. Contents \in Seq(Items) /\ Len(Contents) = items
    BY <1>1, ContentsNow
  <2>4. \A k \in 1..Len(Contents) + 1 : Contents'[k] = IF k = 1 THEN x ELSE Contents[k - 1]
    BY <1>2, <2>2, <2>3
  <2>5. Contents' = <<x>> \o Contents
    BY <2>2, <2>3, <2>4, InFront
  <2>6. QED
    BY <1>2, <1>3, <2>5 DEF Abstract!PushHead, Abstract!Did, Did
<1>4. CASE Kept /\ Did("push_head", NULL)
  BY <1>2, <1>4, KeptContents DEF Abstract!PushHead, Abstract!Did, Did
<1>5. QED
  BY <1>1, <1>2, <1>3, <1>4, HeadPush

LEMMA TailPushAbstract ==
  ASSUME ListInv, NEW x \in Items, dlist_push_tail(x)
  PROVE  Abstract!PushTail(x)
<1>1. PICK r : Numbered(r)
  BY DEF ListInv
<1>2. items \in Nat /\ open /\ open' = open /\ Insert("push_tail", x, link[Sentinel][Left], Right)
  BY DEF ListInv, dlist_push_tail
<1>3. CASE Inserted(r, items, x) /\ Did("push_tail", x)
  <2>1. items \in 0..items
    BY <1>2
  <2>2. /\ Contents' \in Seq(Items) /\ Len(Contents') = items + 1
        /\ \A k \in 1..items + 1 :
             Contents'[k] = IF k <= items THEN Contents[k]
                            ELSE IF k = items + 1 THEN x ELSE Contents[k - 1]
    BY <1>1, <1>3, <2>1, InsertedContents
  <2>3. Contents \in Seq(Items) /\ Len(Contents) = items
    BY <1>1, ContentsNow
  <2>4. \A k \in 1..Len(Contents) + 1 :
          Contents'[k] = IF k <= Len(Contents) THEN Contents[k] ELSE x
    BY <1>2, <2>2, <2>3
  <2>5. Contents' = Contents \o <<x>>
    BY <2>2, <2>3, <2>4, AtTheEnd
  <2>6. QED
    BY <1>2, <1>3, <2>5 DEF Abstract!PushTail, Abstract!Did, Did
<1>4. CASE Kept /\ Did("push_tail", NULL)
  BY <1>2, <1>4, KeptContents DEF Abstract!PushTail, Abstract!Did, Did
<1>5. QED
  BY <1>1, <1>2, <1>3, <1>4, TailPush

LEMMA HeadPopAbstract ==
  ASSUME ListInv, dlist_pop_head
  PROVE  Abstract!PopHead
<1>1. PICK r : Numbered(r)
  BY DEF ListInv
<1>2. items \in Nat /\ open /\ open' = open
  BY <1>1, HeadPop DEF ListInv
<1>3. Contents \in Seq(Items) /\ Len(Contents) = items
      /\ \A k \in 1..items : Contents[k] = data[r[k]]
  BY <1>1, ContentsNow
<1>4. CASE items = 0 /\ Kept /\ Did("pop_head", NULL)
  <2>1. Contents = <<>>
    BY <1>3, <1>4, EmptySeq
  <2>2. QED
    BY <1>2, <1>4, <2>1, KeptContents DEF Abstract!PopHead, Abstract!Did, Did
<1>5. CASE items # 0 /\ Removed(r, 1) /\ Did("pop_head", data[r[1]])
  <2>1. 1 \in 1..items
    BY <1>2, <1>5
  <2>2. /\ Contents' \in Seq(Items) /\ Len(Contents') = items - 1
        /\ \A k \in 1..items - 1 :
             Contents'[k] = IF k < 1 THEN Contents[k] ELSE Contents[k + 1]
    BY <1>1, <1>5, <2>1, RemovedContents
  <2>3. \A k \in 1..Len(Contents) - 1 : Contents'[k] = Contents[k + 1]
    BY <1>2, <1>3, <2>2
  <2>4. Contents # <<>> /\ Contents' = Tail(Contents) /\ Head(Contents) = Contents[1]
    BY <1>3, <1>5, <2>2, <2>3, WithoutFirst
  <2>5. Did("pop_head", Head(Contents))
    BY <1>3, <1>5, <2>1, <2>4
  <2>6. QED
    BY <1>2, <2>4, <2>5 DEF Abstract!PopHead, Abstract!Did, Did
<1>6. QED
  BY <1>1, <1>4, <1>5, HeadPop

LEMMA TailPopAbstract ==
  ASSUME ListInv, dlist_pop_tail
  PROVE  Abstract!PopTail
<1>1. PICK r : Numbered(r)
  BY DEF ListInv
<1>2. items \in Nat /\ open /\ open' = open
  BY <1>1, TailPop DEF ListInv
<1>3. Contents \in Seq(Items) /\ Len(Contents) = items
      /\ \A k \in 1..items : Contents[k] = data[r[k]]
  BY <1>1, ContentsNow
<1>4. CASE items = 0 /\ Kept /\ Did("pop_tail", NULL)
  <2>1. Contents = <<>>
    BY <1>3, <1>4, EmptySeq
  <2>2. QED
    BY <1>2, <1>4, <2>1, KeptContents DEF Abstract!PopTail, Abstract!Did, Did
<1>5. CASE items # 0 /\ Removed(r, items) /\ Did("pop_tail", data[r[items]])
  <2>1. items \in 1..items
    BY <1>2, <1>5
  <2>2. /\ Contents' \in Seq(Items) /\ Len(Contents') = items - 1
        /\ \A k \in 1..items - 1 :
             Contents'[k] = IF k < items THEN Contents[k] ELSE Contents[k + 1]
    BY <1>1, <1>5, <2>1, RemovedContents
  <2>3. \A k \in 1..Len(Contents) - 1 : Contents'[k] = Contents[k]
    BY <1>2, <1>3, <2>2
  <2>4. Contents # <<>> /\ Contents' = SubSeq(Contents, 1, Len(Contents) - 1)
    BY <1>3, <1>5, <2>2, <2>3, WithoutLast
  <2>5. Did("pop_tail", Contents[Len(Contents)])
    BY <1>3, <1>5, <2>1
  <2>6. QED
    BY <1>2, <2>4, <2>5 DEF Abstract!PopTail, Abstract!Did, Did, Abstract!Front, Abstract!Last
<1>6. QED
  BY <1>1, <1>4, <1>5, TailPop

\* The search of ListSeq stops at the same place.
LEMMA SameSearch ==
  ASSUME ListInv, NEW r, Numbered(r), NEW x
  PROVE  /\ Hits(r, x) = {} => Abstract!FirstLike(x) = 0
         /\ \A p \in Hits(r, x) : (\A j \in Hits(r, x) : p <= j) =>
              p \in 1..items /\ Abstract!FirstLike(x) = p
<1> DEFINE I == {i \in 1..Len(Contents) : Key[Contents[i]] = Key[x]}
<1>1. items \in Nat /\ Len(Contents) = items /\ \A k \in 1..items : Contents[k] = data[r[k]]
  BY ContentsNow DEF ListInv
<1>2. I = Hits(r, x)
  BY <1>1 DEF Hits
<1>3. Abstract!FirstLike(x) = IF I # {} THEN CHOOSE p \in I : \A j \in I : p <= j ELSE 0
  BY DEF Abstract!FirstLike, Abstract!SelectInSeq, Abstract!Min
<1>4. I \subseteq 1..items
  BY <1>1
<1> HIDE DEF I
<1>5. ASSUME NEW p \in I, \A j \in I : p <= j
      PROVE  p \in 1..items /\ Abstract!FirstLike(x) = p
  <2>1. \A q \in I : (\A j \in I : q <= j) => q = p
    BY <1>1, <1>4, <1>5
  <2>2. (CHOOSE q \in I : \A j \in I : q <= j) = p
    BY <2>1, <1>5
  <2>3. QED
    BY <1>3, <1>4, <2>2
<1>6. QED
  BY <1>2, <1>3, <1>5

LEMMA FindAbstract ==
  ASSUME ListInv, NEW x \in Items, dlist_find(x)
  PROVE  Abstract!Find(x)
<1>1. PICK r : Numbered(r)
  BY DEF ListInv
<1>2. items \in Nat /\ Contents \in Seq(Items) /\ Len(Contents) = items
      /\ \A k \in 1..items : Contents[k] = data[r[k]]
  BY <1>1, ContentsNow DEF ListInv
<1>3. open /\ UNCHANGED open /\ Contents' = Contents
  BY KeptContents DEF dlist_find, Kept
<1>4. Did("find", IF Abstract!FirstLike(x) = 0 THEN NULL ELSE Contents[Abstract!FirstLike(x)])
  <2>1. CASE Hits(r, x) = {} /\ FirstLike(x) = Sentinel
    BY <1>1, <2>1, SameSearch DEF dlist_find
  <2>2. ASSUME NEW p \in Hits(r, x), \A j \in Hits(r, x) : p <= j,
               FirstLike(x) = r[p], r[p] # Sentinel
        PROVE  Did("find", IF Abstract!FirstLike(x) = 0 THEN NULL
                           ELSE Contents[Abstract!FirstLike(x)])
    <3>1. p \in 1..items /\ Abstract!FirstLike(x) = p
      BY <1>1, <2>2, SameSearch
    <3>2. p # 0 /\ Contents[p] = data[r[p]]
      BY <1>2, <3>1
    <3>3. Did("find", data[r[p]])
      BY <2>2 DEF dlist_find
    <3>4. QED
      BY <3>1, <3>2, <3>3
  <2>3. QED
    BY <1>1, <2>1, <2>2, FirstHit
<1>5. QED
  BY <1>3, <1>4 DEF Abstract!Find, Abstract!Did, Did

LEMMA RemovalAbstract ==
  ASSUME ListInv, NEW x \in Items, dlist_remove_item(x)
  PROVE  Abstract!RemoveItem(x)
<1>1. PICK r : Numbered(r)
  BY DEF ListInv
<1>2. items \in Nat /\ Contents \in Seq(Items) /\ Len(Contents) = items
      /\ \A k \in 1..items : Contents[k] = data[r[k]]
  BY <1>1, ContentsNow DEF ListInv
<1>3. open /\ open' = open
  BY DEF dlist_remove_item
<1>4. CASE Hits(r, x) = {} /\ Kept /\ Did("remove_item", NULL)
  <2>1. Abstract!FirstLike(x) = 0
    BY <1>1, <1>4, SameSearch
  <2>2. QED
    BY <1>3, <1>4, <2>1, KeptContents DEF Abstract!RemoveItem, Abstract!Did, Did
<1>5. ASSUME NEW p \in Hits(r, x), \A j \in Hits(r, x) : p <= j,
             Removed(r, p), Did("remove_item", data[r[p]])
      PROVE  Abstract!RemoveItem(x)
  <2>1. p \in 1..items /\ p # 0 /\ Abstract!FirstLike(x) = p
    BY <1>1, <1>5, SameSearch
  <2>2. /\ Contents' \in Seq(Items) /\ Len(Contents') = items - 1
        /\ \A k \in 1..items - 1 :
             Contents'[k] = IF k < p THEN Contents[k] ELSE Contents[k + 1]
    BY <1>1, <1>5, <2>1, RemovedContents
  <2>3. Contents' = SubSeq(Contents, 1, p - 1) \o SubSeq(Contents, p + 1, Len(Contents))
    BY <1>2, <2>1, <2>2, WithoutOne
  <2>4. Did("remove_item", Contents[p])
    BY <1>2, <1>5, <2>1
  <2>5. QED
    BY <1>3, <2>1, <2>3, <2>4 DEF Abstract!RemoveItem, Abstract!Did, Did, Abstract!RemoveAt
<1>6. QED
  BY <1>1, <1>4, <1>5, ItemRemoval

LEMMA NextAbstract == ListInv /\ [Next]_vars => [Abstract!Next]_Abstract!vars
<1> SUFFICES ASSUME ListInv, [Next]_vars PROVE [Abstract!Next]_Abstract!vars
  OBVIOUS
<1>1. CASE dlist_create
  BY <1>1, CreateAbstract DEF Abstract!Next
<1>2. CASE dlist_destroy
  BY <1>2, DestroyAbstract DEF Abstract!Next
<1>3. CASE dlist_pop_head
  BY <1>3, HeadPopAbstract DEF Abstract!Next
<1>4. CASE dlist_pop_tail
  BY <1>4, TailPopAbstract DEF Abstract!Next
<1>5. ASSUME NEW x \in Items, dlist_push_head(x)
      PROVE  Abstract!Next
  BY <1>5, HeadPushAbstract DEF Abstract!Next
<1>6. ASSUME NEW x \in Items, dlist_push_tail(x)
      PROVE  Abstract!Next
  BY <1>6, TailPushAbstract DEF Abstract!Next
<1>7. ASSUME NEW x \in Items, dlist_find(x)
      PROVE  Abstract!Next
  BY <1>7, FindAbstract DEF Abstract!Next
<1>8. ASSUME NEW x \in Items, dlist_remove_item(x)
      PROVE  Abstract!Next
  BY <1>8, RemovalAbstract DEF Abstract!Next
<1>9. CASE UNCHANGED vars
  BY <1>9, KeptContents DEF vars, Kept, Abstract!vars
<1>10. QED
  BY <1>1, <1>2, <1>3, <1>4, <1>5, <1>6, <1>7, <1>8, <1>9 DEF Next

\* The ring of nodes is the list linked_list.h promises: every function of
\* linked_list.c returns, and leaves behind head first, what that function of
\* a sequence does, for any number of nodes and items and any comparator.
THEOREM RingImplementsList == Spec => IsAList
BY InitAbstract, NextAbstract, ListInvariant, PTL DEF Spec, IsAList, Abstract!Spec
=============================================================================
