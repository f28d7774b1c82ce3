-------------------------- MODULE SkipTableProofs --------------------------
(***************************************************************************)
(* SkipTable for every finite set of keys, every number of levels and      *)
(* whatever heights rand() chooses.                                        *)
(*                                                                         *)
(* A level is a chain of pointers through the nodes that have it.  The     *)
(* search of a key turns down at the last smaller node of each chain; that *)
(* its loops end and end there is proved without induction: the chain      *)
(* itself shows which function the loop computes, and of the nodes from    *)
(* which it would go wrong there would have to be a last one.  Linking a   *)
(* node behind these places, and unlinking it there, keeps the chains.     *)
(***************************************************************************)
EXTENDS SkipTable, CommonLemmas

-----------------------------------------------------------------------------
(***************************************************************************)
(* One level: f leads from the header and from each node of S to the next  *)
(* greater node of S.                                                      *)
(***************************************************************************)
Chain(f, S) == \A n \in S \cup {header} :
    /\ f[n] \in S \cup {NULL}
    /\ f[n] # NULL /\ n # header => n < f[n]
    /\ \A q \in S : (n = header \/ n < q) => f[n] # NULL /\ f[n] <= q

\* p is the last node of S before k, or the header when there is none.
IsPred(p, k, S) ==
    /\ p = header \/ (p \in S /\ p < k)
    /\ \A q \in S : q < k => p # header /\ q <= p

LEMMA KeysAreInts ==
    /\ Key \subseteq Int /\ IsFiniteSet(Key) /\ NULL \notin Key /\ header \notin Key
    /\ header # NULL /\ NULL \notin Value
BY SkipAssumption

\* There is such a node, and only one.
LEMMA PredExists ==
    ASSUME NEW S \in SUBSET Key, NEW k \in Key
    PROVE  \E p \in S \cup {header} : IsPred(p, k, S)
<1>. DEFINE B == {q \in S : q < k}
<1>1. CASE B = {}
  <2>1. \A q \in S : ~ (q < k)
    BY <1>1
  <2>2. IsPred(header, k, S)
    BY <2>1 DEF IsPred
  <2>. QED
    BY <2>2
<1>2. CASE B # {}
  <2>1. B \in SUBSET Int /\ IsFiniteSet(B)
    BY KeysAreInts, FS_Subset
  <2>2. PICK m \in B : \A q \in B : q <= m
    BY <1>2, <2>1, GreatestExists
  <2>. QED
    BY <2>2, KeysAreInts DEF IsPred
<1>. QED
  BY <1>1, <1>2

LEMMA PredUnique ==
    ASSUME NEW S \in SUBSET Key, NEW k \in Key, NEW p, NEW q,
           IsPred(p, k, S), IsPred(q, k, S)
    PROVE  p = q
<1>1. k \in Int /\ header \notin S /\ \A x \in S : x \in Int
  BY KeysAreInts
<1>2. CASE p = header
  BY <1>1, <1>2 DEF IsPred
<1>3. CASE q = header
  BY <1>1, <1>3 DEF IsPred
<1>4. CASE p # header /\ q # header
  <2>1. p \in S /\ q \in S /\ p <= q /\ q <= p
    BY <1>4 DEF IsPred
  <2>. QED
    BY <1>1, <2>1
<1>. QED
  BY <1>2, <1>3, <1>4

\* The pointer of the last smaller node leads to k if k is there, and past
\* it otherwise.
LeadsTo(f, p, k, S) ==
    /\ p \in S \cup {header} /\ p # k
    /\ f[p] \in S \cup {NULL} /\ (f[p] # NULL => k <= f[p])
    /\ k \in S <=> f[p] = k
    /\ \A q \in S : k <= q => f[p] # NULL /\ f[p] <= q

LEMMA PredLeadsTo ==
    ASSUME NEW S \in SUBSET Key, NEW k \in Key, NEW f, NEW p, Chain(f, S), IsPred(p, k, S)
    PROVE  LeadsTo(f, p, k, S)
<1>1. k \in Int /\ header \notin S /\ NULL \notin S /\ k # header /\ k # NULL
  BY KeysAreInts
<1>2. \A x \in S : x \in Int
  BY KeysAreInts
<1>3. p \in S \cup {header} /\ (p # header => p < k)
  BY DEF IsPred
<1>4. p # k
  BY <1>1, <1>3
<1>5. /\ f[p] \in S \cup {NULL} /\ (f[p] # NULL /\ p # header => p < f[p])
      /\ \A q \in S : (p = header \/ p < q) => f[p] # NULL /\ f[p] <= q
  BY <1>3 DEF Chain
<1>6. ASSUME f[p] # NULL
      PROVE  k <= f[p]
  <2>1. f[p] \in S /\ f[p] \in Int
    BY <1>2, <1>5, <1>6
  <2>2. ~ (f[p] < k)
    <3>1. f[p] < k => p # header /\ f[p] <= p
      BY <2>1 DEF IsPred
    <3>2. p # header => p < f[p] /\ p \in Int
      BY <1>2, <1>3, <1>5, <1>6
    <3>. QED
      BY <2>1, <3>1, <3>2
  <2>. QED
    BY <1>1, <2>1, <2>2
<1>7. \A q \in S : k <= q => f[p] # NULL /\ f[p] <= q
  <2>. SUFFICES ASSUME NEW q \in S, k <= q
                PROVE  p = header \/ p < q
    BY <1>5
  <2>1. q \in Int
    BY <1>2
  <2>2. p # header => p \in Int /\ p < k
    BY <1>2, <1>3
  <2>. QED
    BY <1>1, <2>1, <2>2
<1>8. ASSUME k \in S
      PROVE  f[p] = k
  <2>1. f[p] # NULL /\ f[p] <= k
    BY <1>1, <1>7, <1>8
  <2>2. k <= f[p] /\ f[p] \in Int
    BY <1>2, <1>5, <1>6, <2>1
  <2>. QED
    BY <1>1, <2>1, <2>2
<1>. QED
  BY <1>1, <1>3, <1>4, <1>5, <1>6, <1>7, <1>8 DEF LeadsTo

LEMMA ChainLinked ==
    ASSUME NEW S \in SUBSET Key, NEW f, Chain(f, S), NEW k \in Key, k \notin S,
           NEW p, IsPred(p, k, S), NEW g, g[k] = f[p], g[p] = k,
           \A n \in (S \cup {header}) \ {p} : g[n] = f[n]
    PROVE  Chain(g, S \cup {k})
<1>. SUFFICES ASSUME NEW n \in S \cup {k} \cup {header}
              PROVE  /\ g[n] \in S \cup {k, NULL}
                     /\ g[n] # NULL /\ n # header => n < g[n]
                     /\ \A q \in S \cup {k} : (n = header \/ n < q) => g[n] # NULL /\ g[n] <= q
  BY DEF Chain
<1>1. /\ p \in S \cup {header} /\ p # k
      /\ f[p] \in S \cup {NULL} /\ (f[p] # NULL => k <= f[p])
      /\ \A q \in S : k <= q => f[p] # NULL /\ f[p] <= q
  BY PredLeadsTo DEF LeadsTo
<1>. k \in Int /\ header \notin S /\ NULL \notin S /\ k # header /\ k # NULL
  BY KeysAreInts
<1>. \A x \in S : x \in Int
  BY KeysAreInts
<1>2. CASE n = k
  <2>1. g[n] = f[p]
    BY <1>2
  <2>2. g[n] # NULL => k < g[n]
    <3>1. f[p] # NULL => f[p] \in S /\ f[p] \in Int /\ f[p] # k
      BY <1>1
    <3>2. f[p] # NULL => k < f[p]
      BY <1>1, <3>1
    <3>. QED
      BY <2>1, <3>2
  <2>3. ASSUME NEW q \in S \cup {k}, k < q
        PROVE  g[n] # NULL /\ g[n] <= q
    BY <1>1, <2>1, <2>3
  <2>. QED
    BY <1>1, <1>2, <2>1, <2>2, <2>3
<1>3. CASE n = p
  BY <1>1, <1>3, KeysAreInts DEF IsPred
<1>4. CASE n # k /\ n # p
  <2>1. g[n] = f[n] /\ n \in S \cup {header}
    BY <1>4
  <2>2. /\ f[n] \in S \cup {NULL}
        /\ f[n] # NULL /\ n # header => n < f[n]
        /\ \A q \in S : (n = header \/ n < q) => f[n] # NULL /\ f[n] <= q
    BY <2>1 DEF Chain
  <2>3. ASSUME n = header \/ n < k
        PROVE  f[n] # NULL /\ f[n] <= k
    <3>1. p # header /\ p \in S /\ p < k
      BY <1>4, <2>1, <2>3, KeysAreInts DEF IsPred
    <3>2. n = header \/ n < p
      BY <1>4, <2>1, <2>3, <3>1, KeysAreInts DEF IsPred
    <3>3. f[n] # NULL /\ f[n] <= p
      BY <2>2, <3>1, <3>2
    <3>4. f[n] \in Int /\ p \in Int
      BY <2>2, <3>1, <3>3
    <3>. QED
      BY <3>1, <3>3, <3>4
  <2>. QED
    BY <2>1, <2>2, <2>3
<1>. QED
  BY <1>2, <1>3, <1>4

LEMMA ChainUnlinked ==
    ASSUME NEW S \in SUBSET Key, NEW f, Chain(f, S), NEW k \in S,
           NEW p, IsPred(p, k, S), NEW g, g[p] = f[k],
           \A n \in (S \cup {header}) \ {k, p} : g[n] = f[n]
    PROVE  Chain(g, S \ {k})
<1>. SUFFICES ASSUME NEW n \in (S \ {k}) \cup {header}
              PROVE  /\ g[n] \in (S \ {k}) \cup {NULL}
                     /\ g[n] # NULL /\ n # header => n < g[n]
                     /\ \A q \in S \ {k} : (n = header \/ n < q) => g[n] # NULL /\ g[n] <= q
  BY DEF Chain
<1>. k \in Key /\ k \in Int /\ header \notin S /\ NULL \notin S /\ k # header /\ k # NULL
  BY KeysAreInts
<1>. \A x \in S : x \in Int
  BY KeysAreInts
<1>1. p \in S \cup {header} /\ p # k
  BY DEF IsPred
<1>2. /\ f[k] \in S \cup {NULL}
      /\ f[k] # NULL => k < f[k]
      /\ \A q \in S : k < q => f[k] # NULL /\ f[k] <= q
  BY <1>1 DEF Chain
<1>3. CASE n = p
  <2>1. g[n] = f[k] /\ (n # header => n \in S /\ n < k)
    BY <1>3 DEF IsPred
  <2>2. g[n] # NULL /\ n # header => n < g[n]
    <3>1. f[k] # NULL => f[k] \in Int /\ k < f[k]
      BY <1>2
    <3>2. n # header => n \in Int /\ n < k
      BY <2>1
    <3>. QED
      BY <2>1, <3>1, <3>2
  <2>3. ASSUME NEW q \in S \ {k}, n = header \/ n < q
        PROVE  g[n] # NULL /\ g[n] <= q
    <3>1. ~ (q < k)
      BY <1>3, <2>3 DEF IsPred
    <3>. QED
      BY <1>2, <2>1, <3>1
  <2>. QED
    BY <1>2, <2>1, <2>2, <2>3
<1>4. CASE n # p
  <2>1. g[n] = f[n] /\ n \in S \cup {header} /\ n # k
    BY <1>1, <1>4, KeysAreInts
  <2>2. /\ f[n] \in S \cup {NULL}
        /\ f[n] # NULL /\ n # header => n < f[n]
        /\ \A q \in S : (n = header \/ n < q) => f[n] # NULL /\ f[n] <= q
    BY <2>1 DEF Chain
  <2>3. f[n] # k
    BY <1>1, <1>4, <2>1, <2>2, KeysAreInts DEF IsPred
  <2>. QED
    BY <2>1, <2>2, <2>3
<1>. QED
  BY <1>3, <1>4
-----------------------------------------------------------------------------
(***************************************************************************)
(* The inductive invariant.  The levels are chains; a node has no pointers *)
(* above its height, so that no walk leaves its level; nodes have values,  *)
(* freed ones do not; and the count, which does not go up for new keys     *)
(* only, is never less than the number of nodes.                           *)
(***************************************************************************)
On(i) == {q \in Key : height[q] > i}
Pointers(i) == [n \in Node |-> forward[n][i]]

ChainsInv == \A i \in Level : Chain(Pointers(i), On(i))
UnusedInv == \A n \in Key : \A i \in Level : height[n] <= i => forward[n][i] = NULL
HeightInv == \A n \in Key : height[n] <= level
ValueInv == \A n \in Key : value[n] # NULL <=> height[n] > 0
CountInv == Cardinality(Live) <= nb_elements

ListInv == TypeOK /\ ChainsInv /\ UnusedInv /\ HeightInv
IInv == ListInv /\ ValueInv /\ CountInv

\* A level as the search meets it.
Searchable(i, S) ==
    /\ S \in SUBSET Key
    /\ Chain(Pointers(i), S)
    /\ \A n \in Node : forward[n][i] \in Key \cup {NULL}
    /\ \A n \in Key \ S : forward[n][i] = NULL

LEMMA LevelsAreSearchable ==
    ASSUME ListInv, NEW i \in Level
    PROVE  Searchable(i, On(i))
<1>1. TypeOK /\ ChainsInv /\ UnusedInv
  BY DEF ListInv
<1>2. On(i) \in SUBSET Key /\ Chain(Pointers(i), On(i))
  BY <1>1 DEF On, ChainsInv
<1>3. \A n \in Node : forward[n][i] \in Key \cup {NULL}
  BY <1>1 DEF TypeOK
<1>4. ASSUME NEW n \in Key \ On(i)
      PROVE  forward[n][i] = NULL
  <2>1. height[n] \in Int /\ i \in Int /\ ~ (height[n] > i)
    BY <1>1 DEF TypeOK, On, Level
  <2>. QED
    BY <1>1, <2>1 DEF UnusedInv
<1>. QED
  BY <1>2, <1>3, <1>4 DEF Searchable

\* One turn of the inner loop: it stays on the level, comes nearer to k, and
\* where it stops is the last smaller node.
Steps(i, k, S) ==
    /\ \A p \in Node : Smaller(p, i, k) =>
         /\ p \in S \cup {header} /\ forward[p][i] \in S /\ forward[p][i] < k
         /\ p # header => p < forward[p][i]
    /\ \A p \in S \cup {header} :
         ~ Smaller(p, i, k) /\ (p # header => p < k) => IsPred(p, k, S)

LEMMA TurnsOfWalk ==
    ASSUME NEW i, NEW S, Searchable(i, S), NEW k \in Key
    PROVE  Steps(i, k, S)
<1>1. /\ S \in SUBSET Key /\ Node = Key \cup {header} /\ \A n \in Key \ S : forward[n][i] = NULL
      /\ \A n \in Node : forward[n][i] \in Key \cup {NULL}
  BY DEF Searchable, Node
<1>2. k \in Int /\ header \notin S /\ NULL \notin S
  BY <1>1, KeysAreInts
<1>3. \A x \in S : x \in Int
  BY <1>1, KeysAreInts
<1>4. \A n \in S \cup {header} :
         /\ forward[n][i] \in S \cup {NULL}
         /\ forward[n][i] # NULL /\ n # header => n < forward[n][i]
         /\ \A q \in S : (n = header \/ n < q) => forward[n][i] # NULL /\ forward[n][i] <= q
  <2>. SUFFICES ASSUME NEW n \in S \cup {header}
                PROVE  /\ forward[n][i] \in S \cup {NULL}
                       /\ forward[n][i] # NULL /\ n # header => n < forward[n][i]
                       /\ \A q \in S : (n = header \/ n < q) => forward[n][i] # NULL /\ forward[n][i] <= q
    OBVIOUS
  <2>1. Pointers(i)[n] = forward[n][i]
    BY <1>1 DEF Pointers
  <2>. QED
    BY <2>1 DEF Searchable, Chain
<1>5. ASSUME NEW p \in Node, Smaller(p, i, k)
      PROVE  /\ p \in S \cup {header} /\ forward[p][i] \in S /\ forward[p][i] < k
             /\ p # header => p < forward[p][i]
  <2>1. forward[p][i] # NULL /\ forward[p][i] < k
    BY <1>5 DEF Smaller
  <2>2. p \in S \cup {header}
    BY <1>1, <2>1
  <2>. QED
    BY <1>4, <2>1, <2>2
<1>6. ASSUME NEW p \in S \cup {header}, ~ Smaller(p, i, k), p # header => p < k
      PROVE  IsPred(p, k, S)
  <2>. SUFFICES ASSUME NEW q \in S, q < k
                PROVE  p # header /\ q <= p
    BY <1>6 DEF IsPred
  <2>1. ~ (p = header \/ p < q)
    <3>. SUFFICES ASSUME p = header \/ p < q
                  PROVE  FALSE
      OBVIOUS
    <3>1. forward[p][i] # NULL /\ forward[p][i] <= q /\ forward[p][i] \in S
      BY <1>4
    <3>2. forward[p][i] < k
      BY <1>2, <1>3, <3>1
    <3>. QED
      BY <1>6, <3>1, <3>2 DEF Smaller
  <2>. QED
    BY <1>3, <2>1
<1>. QED
  BY <1>5, <1>6 DEF Steps

\* The inner loop ends, and at the last smaller node, wherever it starts.
LEMMA WalkEnds ==
    ASSUME NEW i, NEW S, Searchable(i, S), NEW k \in Key
    PROVE  \A p \in S \cup {header} :
              (p # header => p < k) => IsPred(walk(i, k)[p], k, S)
<1>1. /\ S \in SUBSET Key /\ S \subseteq Node /\ header \in Node
      /\ S \in SUBSET Int /\ IsFiniteSet(S) /\ header \notin S /\ k \in Int
  BY KeysAreInts, FS_Subset DEF Searchable, Node
<1>2. Steps(i, k, S)
  BY TurnsOfWalk
<1>3. PICK G \in S \cup {header} : IsPred(G, k, S)
  BY <1>1, PredExists
<1>. DEFINE W == [p \in Node |-> IF Smaller(p, i, k) THEN G ELSE p]
<1>4. W = [p \in Node |-> IF Smaller(p, i, k) THEN W[forward[p][i]] ELSE p]
  <2>. SUFFICES ASSUME NEW p \in Node, Smaller(p, i, k)
                PROVE  W[forward[p][i]] = G
    OBVIOUS
  <2>1. PICK q : q = forward[p][i]
    OBVIOUS
  <2>2. q \in S /\ q < k /\ q \in Node
    BY <1>1, <1>2, <2>1 DEF Steps
  <2>3. CASE Smaller(q, i, k)
    BY <2>1, <2>2, <2>3
  <2>4. CASE ~ Smaller(q, i, k)
    <3>1. IsPred(q, k, S)
      BY <1>2, <2>2, <2>4 DEF Steps
    <3>2. q = G
      BY <1>1, <1>3, <3>1, PredUnique
    <3>. QED
      BY <2>1, <2>2, <2>4, <3>2
  <2>. QED
    BY <2>3, <2>4
<1>. HIDE DEF W
<1>5. walk(i, k) = [p \in Node |-> IF Smaller(p, i, k) THEN walk(i, k)[forward[p][i]] ELSE p]
  BY <1>4 DEF walk
<1>6. PICK w : w = walk(i, k)
  OBVIOUS
<1>7. \A p \in Node : w[p] = IF Smaller(p, i, k) THEN w[forward[p][i]] ELSE p
  BY <1>5, <1>6
<1>. DEFINE Wrong == {p \in S : p < k /\ ~ IsPred(w[p], k, S)}
<1>8. Wrong = {}
  <2>. SUFFICES ASSUME Wrong # {} PROVE FALSE
    OBVIOUS
  <2>1. Wrong \in SUBSET Int /\ IsFiniteSet(Wrong)
    BY <1>1, FS_Subset
  <2>2. PICK m \in Wrong : \A q \in Wrong : q <= m
    BY <2>1, GreatestExists
  <2>3. m \in S /\ m < k /\ ~ IsPred(w[m], k, S) /\ m # header /\ m \in Node
    BY <1>1, <2>2
  <2>4. CASE Smaller(m, i, k)
    <3>1. PICK q : q = forward[m][i]
      OBVIOUS
    <3>2. q \in S /\ q < k /\ m < q
      BY <1>2, <2>3, <2>4, <3>1 DEF Steps
    <3>3. q \notin Wrong
      BY <1>1, <2>2, <2>3, <3>2
    <3>4. w[m] = w[q]
      BY <1>7, <2>3, <2>4, <3>1
    <3>. QED
      BY <2>3, <3>2, <3>3, <3>4
  <2>5. CASE ~ Smaller(m, i, k)
    <3>1. w[m] = m
      BY <1>7, <2>3, <2>5
    <3>. QED
      BY <1>2, <2>3, <2>5, <3>1 DEF Steps
  <2>. QED
    BY <2>4, <2>5
<1>9. IsPred(w[header], k, S)
  <2>1. CASE Smaller(header, i, k)
    <3>1. PICK q : q = forward[header][i]
      OBVIOUS
    <3>2. q \in S /\ q < k
      BY <1>1, <1>2, <2>1, <3>1 DEF Steps
    <3>3. w[header] = w[q]
      BY <1>1, <1>7, <2>1, <3>1
    <3>. QED
      BY <1>8, <3>2, <3>3
  <2>2. CASE ~ Smaller(header, i, k)
    <3>1. w[header] = header
      BY <1>1, <1>7, <2>2
    <3>. QED
      BY <1>2, <2>2, <3>1 DEF Steps
  <2>. QED
    BY <2>1, <2>2
<1>. QED
  BY <1>6, <1>8, <1>9

\* On every level the search turns down at the last smaller node.
LEMMA UpdateIs ==
    ASSUME ListInv, NEW k \in Key
    PROVE  \A i \in Level : IsPred(update(k)[i], k, On(i))
<1>1. /\ TypeOK /\ HeightInv /\ level \in 1 .. MAX_LEVEL /\ MAX_LEVEL \in Nat \ {0}
      /\ Level = 0 .. MAX_LEVEL - 1 /\ \A i \in Level : i \in Nat
  BY SkipAssumption DEF ListInv, TypeOK, Level
<1>2. \A i \in Level : On(i) \in SUBSET Key
  BY DEF On
<1>3. ASSUME NEW i \in Level, i >= level
      PROVE  IsPred(header, k, On(i))
  <2>1. On(i) = {}
    <3>. SUFFICES ASSUME NEW q \in Key, height[q] > i PROVE FALSE
      BY DEF On
    <3>1. height[q] \in Int /\ height[q] <= level
      BY <1>1 DEF TypeOK, HeightInv
    <3>. QED
      BY <1>1, <1>3, <3>1
  <2>. QED
    BY <2>1 DEF IsPred
<1>4. ASSUME NEW i \in Level, NEW p, p = header \/ IsPred(p, k, On(i + 1))
      PROVE  IsPred(walk(i, k)[p], k, On(i))
  <2>1. Searchable(i, On(i))
    BY LevelsAreSearchable
  <2>2. \A q \in Key : height[q] > i + 1 => height[q] > i
    BY <1>1 DEF TypeOK
  <2>3. p \in On(i) \cup {header} /\ (p # header => p < k)
    BY <1>4, <2>2 DEF IsPred, On
  <2>. QED
    BY <2>1, <2>3, WalkEnds
<1>. DEFINE G == [i \in Level |-> CHOOSE p \in On(i) \cup {header} : IsPred(p, k, On(i))]
<1>5. \A i \in Level : IsPred(G[i], k, On(i))
  BY <1>2, PredExists
<1>6. G = [i \in Level |->
             IF i >= level THEN header
             ELSE walk(i, k)[IF i = level - 1 THEN header ELSE G[i + 1]]]
  <2>. SUFFICES ASSUME NEW i \in Level
                PROVE  G[i] = IF i >= level THEN header
                              ELSE walk(i, k)[IF i = level - 1 THEN header ELSE G[i + 1]]
    OBVIOUS
  <2>. HIDE DEF G
  <2>1. CASE i >= level
    BY <1>2, <1>3, <1>5, <2>1, PredUnique
  <2>2. CASE ~ (i >= level)
    <3>1. PICK p : p = IF i = level - 1 THEN header ELSE G[i + 1]
      OBVIOUS
    <3>2. p = header \/ IsPred(p, k, On(i + 1))
      <4>1. i # level - 1 => i + 1 \in Level
        BY <1>1, <2>2
      <4>. QED
        BY <1>5, <3>1, <4>1
    <3>3. IsPred(walk(i, k)[p], k, On(i))
      BY <1>4, <3>2
    <3>4. walk(i, k)[p] = G[i]
      BY <1>2, <1>5, <3>3, PredUnique
    <3>. QED
      BY <2>2, <3>1, <3>4
  <2>. QED
    BY <2>1, <2>2
<1>. HIDE DEF G
<1>7. update(k) = [i \in Level |->
             IF i >= level THEN header
             ELSE walk(i, k)[IF i = level - 1 THEN header ELSE update(k)[i + 1]]]
  BY <1>6 DEF update
<1>8. PICK turn : turn = update(k)
  OBVIOUS
<1>9. \A i \in Level : turn[i] =
             IF i >= level THEN header
             ELSE walk(i, k)[IF i = level - 1 THEN header ELSE turn[i + 1]]
  BY <1>7, <1>8
<1>. DEFINE Wrong == {i \in Level : ~ IsPred(turn[i], k, On(i))}
<1>10. Wrong = {}
  <2>. SUFFICES ASSUME Wrong # {} PROVE FALSE
    OBVIOUS
  <2>1. Wrong \in SUBSET Int /\ IsFiniteSet(Wrong)
    <3>1. 0 \in Int /\ MAX_LEVEL - 1 \in Int
      BY <1>1
    <3>2. IsFiniteSet(Level)
      BY <1>1, <3>1, FS_Interval
    <3>. QED
      BY <1>1, <3>2, FS_Subset
  <2>2. PICK i \in Wrong : \A j \in Wrong : j <= i
    BY <2>1, GreatestExists
  <2>3. i \in Level /\ ~ IsPred(turn[i], k, On(i))
    BY <2>2
  <2>4. CASE i >= level
    BY <1>3, <1>9, <2>3, <2>4
  <2>5. CASE ~ (i >= level)
    <3>1. PICK p : p = IF i = level - 1 THEN header ELSE turn[i + 1]
      OBVIOUS
    <3>2. p = header \/ IsPred(p, k, On(i + 1))
      <4>1. i # level - 1 => i + 1 \in Level
        BY <1>1, <2>3, <2>5
      <4>2. i + 1 \notin Wrong
        BY <1>1, <2>2, <2>3
      <4>. QED
        BY <3>1, <4>1, <4>2
    <3>3. turn[i] = walk(i, k)[p]
      BY <1>9, <2>3, <2>5, <3>1
    <3>. QED
      BY <1>4, <2>3, <3>2, <3>3
  <2>. QED
    BY <2>4, <2>5
<1>. QED
  BY <1>8, <1>10

\* What the search finds: the node before k on each level, and k itself
\* exactly when it is stored.
Found(k, turn) ==
    /\ \A i \in Level : /\ IsPred(turn[i], k, On(i)) /\ turn[i] \in Node /\ turn[i] # k
                        /\ turn[i] \in Key => height[turn[i]] > i
                        /\ forward[turn[i]][i] \in On(i) \cup {NULL}
                        /\ forward[turn[i]][i] = k <=> height[k] > i
    /\ Meets(k) <=> height[k] > 0

LEMMA UpdateFinds ==
    ASSUME ListInv, NEW k \in Key
    PROVE  Found(k, update(k))
<1>1. PICK turn : turn = update(k)
  OBVIOUS
<1>2. ASSUME NEW i \in Level
      PROVE  /\ IsPred(turn[i], k, On(i)) /\ turn[i] \in Node /\ turn[i] # k
             /\ turn[i] \in Key => height[turn[i]] > i
             /\ forward[turn[i]][i] \in On(i) \cup {NULL}
             /\ forward[turn[i]][i] = k <=> height[k] > i
  <2>1. PICK p : p = turn[i]
    OBVIOUS
  <2>2. PICK f : f = Pointers(i)
    OBVIOUS
  <2>3. PICK S : S = On(i)
    OBVIOUS
  <2>4. Chain(f, S) /\ S \in SUBSET Key
    BY <2>2, <2>3 DEF ListInv, ChainsInv, On
  <2>5. IsPred(p, k, S)
    BY <1>1, <2>1, <2>3, UpdateIs
  <2>6. LeadsTo(f, p, k, S)
    BY <2>4, <2>5, PredLeadsTo
  <2>7. p \in S \cup {header} /\ p # k /\ p \in Node
    BY <2>4, <2>6 DEF LeadsTo, Node
  <2>8. f[p] = forward[p][i]
    BY <2>2, <2>7 DEF Pointers
  <2>9. f[p] \in S \cup {NULL} /\ (k \in S <=> f[p] = k)
    BY <2>6 DEF LeadsTo
  <2>10. (k \in S <=> height[k] > i) /\ (p \in Key => height[p] > i)
    BY <2>3, <2>7, KeysAreInts DEF On
  <2>. QED
    BY <2>1, <2>3, <2>5, <2>7, <2>8, <2>9, <2>10
<1>3. 0 \in Level
  BY SkipAssumption DEF Level
<1>4. Meets(k) <=> height[k] > 0
  BY <1>1, <1>2, <1>3 DEF Meets
<1>. QED
  BY <1>1, <1>2, <1>4 DEF Found

\* Types of the list alone.
ListType ==
    /\ forward \in [Node -> [Level -> Key \cup {NULL}]]
    /\ height \in [Key -> 0 .. MAX_LEVEL]
    /\ level \in 1 .. MAX_LEVEL

\* A node that is linked in behind the last smaller ones becomes a link of
\* the chains of its levels.
LEMMA LinkKeepsChains ==
    ASSUME ListInv, NEW k \in Key, NEW v, NEW h \in 1 .. MAX_LEVEL, ~ Meets(k), Link(k, v, h)
    PROVE  /\ (ListType /\ ChainsInv /\ UnusedInv /\ HeightInv)'
           /\ height[k] = 0 /\ height' = [height EXCEPT ![k] = h]
<1>1. PICK turn : turn = update(k)
  OBVIOUS
<1>2. ListType /\ ChainsInv /\ UnusedInv /\ HeightInv
  BY DEF ListInv, TypeOK, ListType
<1>3. Found(k, turn)
  BY <1>1, UpdateFinds
<1>4. /\ height[k] = 0 /\ h \in Nat /\ h > 0 /\ MAX_LEVEL \in Nat /\ h <= MAX_LEVEL
      /\ \A i \in Level : i \in Nat
  BY <1>2, <1>3, SkipAssumption DEF Found, ListType, Level
<1>5. /\ forward' = [n \in Node |-> [i \in Level |->
               IF i < h /\ n = k THEN forward[turn[i]][i]
               ELSE IF i < h /\ n = turn[i] THEN k
               ELSE forward[n][i]]]
      /\ height' = [height EXCEPT ![k] = h] /\ level' = IF h > level THEN h ELSE level
  BY <1>1 DEF Link, Raised
<1>6. /\ \A n \in Key : height'[n] = IF n = k THEN h ELSE height[n]
      /\ height' \in [Key -> 0 .. MAX_LEVEL] /\ level' \in 1 .. MAX_LEVEL
      /\ h <= level' /\ level <= level'
  BY <1>2, <1>4, <1>5 DEF ListType
<1>7. \A n \in Node : \A i \in Level : forward'[n][i] =
               IF i < h /\ n = k THEN forward[turn[i]][i]
               ELSE IF i < h /\ n = turn[i] THEN k
               ELSE forward[n][i]
  BY <1>5
<1>8. \A n \in Node : \A i \in Level : forward[n][i] \in Key \cup {NULL}
  BY <1>2 DEF ListType
<1>9. \A i \in Level : turn[i] \in Node /\ turn[i] # k
  BY <1>3 DEF Found
<1>10. forward' \in [Node -> [Level -> Key \cup {NULL}]]
  <2>1. \A n \in Node : \A i \in Level : forward'[n][i] \in Key \cup {NULL}
    BY <1>7, <1>8, <1>9
  <2>2. \A n \in Node : forward'[n] \in [Level -> Key \cup {NULL}]
    <3>. SUFFICES ASSUME NEW n \in Node PROVE forward'[n] \in [Level -> Key \cup {NULL}]
      OBVIOUS
    <3>1. forward'[n] = [i \in Level |-> forward'[n][i]]
      BY <1>5
    <3>. QED
      BY <2>1, <3>1
  <2>3. forward' = [n \in Node |-> forward'[n]]
    BY <1>5
  <2>. QED
    BY <2>2, <2>3
<1>11. ListType'
  BY <1>6, <1>10 DEF ListType
<1>12. HeightInv'
  BY <1>2, <1>4, <1>6 DEF HeightInv, ListType
<1>13. k \in Node /\ header \in Node /\ Key \subseteq Node /\ k # header
  BY KeysAreInts DEF Node
<1>14. UnusedInv'
  <2>. SUFFICES ASSUME NEW n \in Key, NEW i \in Level, height'[n] <= i
                PROVE  forward'[n][i] = NULL
    BY DEF UnusedInv
  <2>1. height[n] <= i
    BY <1>2, <1>4, <1>6 DEF ListType
  <2>2. forward[n][i] = NULL
    BY <1>2, <2>1 DEF UnusedInv
  <2>3. n = k => ~ (i < h)
    BY <1>4, <1>6
  <2>4. n # turn[i]
    <3>1. turn[i] \in Key => height[turn[i]] > i
      BY <1>3 DEF Found
    <3>. QED
      BY <1>2, <1>4, <2>1, <3>1 DEF ListType
  <2>. QED
    BY <1>7, <1>13, <2>2, <2>3, <2>4
<1>15. ASSUME NEW i \in Level
       PROVE  Chain(Pointers(i)', On(i)')
  <2>1. PICK f, g : f = Pointers(i) /\ g = Pointers(i)'
    OBVIOUS
  <2>2. PICK S : S = On(i)
    OBVIOUS
  <2>3. Chain(f, S) /\ S \in SUBSET Key /\ k \notin S
    BY <1>2, <1>4, <2>1, <2>2 DEF ChainsInv, On
  <2>4. \A n \in Node : f[n] = forward[n][i] /\ g[n] = forward'[n][i]
    BY <2>1 DEF Pointers
  <2>5. CASE i < h
    <3>1. PICK p : p = turn[i]
      OBVIOUS
    <3>2. IsPred(p, k, S) /\ p \in Node /\ p # k
      BY <1>3, <2>2, <3>1 DEF Found
    <3>3. g[k] = f[p] /\ g[p] = k
      BY <1>7, <1>13, <2>4, <2>5, <3>1, <3>2
    <3>4. \A n \in (S \cup {header}) \ {p} : g[n] = f[n]
      BY <1>7, <1>13, <2>3, <2>4, <3>1
    <3>5. On(i)' = S \cup {k}
      BY <1>6, <2>2, <2>5, <1>4 DEF On
    <3>6. Chain(g, S \cup {k})
      BY <2>3, <3>2, <3>3, <3>4, ChainLinked
    <3>. QED
      BY <2>1, <3>5, <3>6
  <2>6. CASE ~ (i < h)
    <3>1. \A n \in Node : g[n] = f[n]
      BY <1>7, <2>4, <2>6
    <3>2. On(i)' = S
      BY <1>4, <1>6, <2>2, <2>6 DEF On
    <3>3. S \cup {header} \subseteq Node
      BY <1>13, <2>3
    <3>4. Chain(g, S)
      BY <2>3, <3>1, <3>3 DEF Chain
    <3>. QED
      BY <2>1, <3>2, <3>4
  <2>. QED
    BY <2>5, <2>6
<1>16. ChainsInv'
  BY <1>15 DEF ChainsInv
<1>. QED
  BY <1>4, <1>5, <1>11, <1>12, <1>14, <1>16

\* A node that is unlinked from the last smaller ones leaves all its chains.
LEMMA DeleteKeepsChains ==
    ASSUME ListInv, NEW k \in Key, height[k] > 0, delete(k)
    PROVE  /\ (ListType /\ ChainsInv /\ UnusedInv /\ HeightInv)'
           /\ height' = [height EXCEPT ![k] = 0]
<1>1. PICK turn : turn = update(k)
  OBVIOUS
<1>2. ListType /\ ChainsInv /\ UnusedInv /\ HeightInv
  BY DEF ListInv, TypeOK, ListType
<1>3. Found(k, turn)
  BY <1>1, UpdateFinds
<1>4. MAX_LEVEL \in Nat /\ level \in Nat /\ \A i \in Level : i \in Nat
  BY <1>2, SkipAssumption DEF ListType, Level
<1>5. /\ forward' = [n \in Node |-> IF n = k THEN NoPointers ELSE [i \in Level |->
               IF i \in UnlinkLevels /\ n = turn[i] /\ forward[n][i] = k
               THEN forward[k][i]
               ELSE forward[n][i]]]
      /\ height' = [height EXCEPT ![k] = 0] /\ level' = level
  BY <1>1 DEF delete
<1>6. /\ \A n \in Key : height'[n] = IF n = k THEN 0 ELSE height[n]
      /\ height' \in [Key -> 0 .. MAX_LEVEL] /\ level' \in 1 .. MAX_LEVEL
  BY <1>2, <1>4, <1>5 DEF ListType
<1>7. /\ k \in Node /\ header \in Node /\ Key \subseteq Node /\ k # header
      /\ k # NULL
  BY KeysAreInts DEF Node
<1>8. \A n \in Node : \A i \in Level : forward[n][i] \in Key \cup {NULL}
  BY <1>2 DEF ListType
<1>9. /\ \A i \in Level : forward'[k][i] = NULL
      /\ \A n \in Node \ {k} : \A i \in Level : forward'[n][i] =
               IF i < level /\ n = turn[i] /\ forward[n][i] = k
               THEN forward[k][i]
               ELSE forward[n][i]
  BY <1>5, <1>7 DEF NoPointers, UnlinkLevels
<1>10. forward' \in [Node -> [Level -> Key \cup {NULL}]]
  <2>1. \A n \in Node : \A i \in Level : forward'[n][i] \in Key \cup {NULL}
    BY <1>7, <1>8, <1>9
  <2>2. \A n \in Node : forward'[n] \in [Level -> Key \cup {NULL}]
    <3>. SUFFICES ASSUME NEW n \in Node PROVE forward'[n] \in [Level -> Key \cup {NULL}]
      OBVIOUS
    <3>1. forward'[n] = [i \in Level |-> forward'[n][i]]
      BY <1>5 DEF NoPointers
    <3>. QED
      BY <2>1, <3>1
  <2>3. forward' = [n \in Node |-> forward'[n]]
    BY <1>5
  <2>. QED
    BY <2>2, <2>3
<1>11. ListType'
  BY <1>6, <1>10 DEF ListType
<1>12. HeightInv'
  BY <1>2, <1>4, <1>5, <1>6 DEF HeightInv
<1>13. UnusedInv'
  <2>. SUFFICES ASSUME NEW n \in Key, NEW i \in Level, height'[n] <= i
                PROVE  forward'[n][i] = NULL
    BY DEF UnusedInv
  <2>1. CASE n = k
    BY <1>9, <2>1
  <2>2. CASE n # k
    <3>1. forward[n][i] = NULL
      BY <1>2, <1>6, <2>2 DEF UnusedInv
    <3>. QED
      BY <1>7, <1>9, <2>2, <3>1
  <2>. QED
    BY <2>1, <2>2
<1>14. ASSUME NEW i \in Level
       PROVE  Chain(Pointers(i)', On(i)')
  <2>1. PICK f, g : f = Pointers(i) /\ g = Pointers(i)'
    OBVIOUS
  <2>2. PICK S : S = On(i)
    OBVIOUS
  <2>3. Chain(f, S) /\ S \in SUBSET Key
    BY <1>2, <2>1, <2>2 DEF ChainsInv, On
  <2>4. \A n \in Node : f[n] = forward[n][i] /\ g[n] = forward'[n][i]
    BY <2>1 DEF Pointers
  <2>5. PICK p : p = turn[i]
    OBVIOUS
  <2>6. /\ IsPred(p, k, S) /\ p \in Node /\ p # k
        /\ f[p] = k <=> height[k] > i
    BY <1>3, <2>2, <2>4, <2>5 DEF Found
  <2>7. On(i)' = S \ {k}
    BY <1>4, <1>6, <2>2 DEF On
  <2>8. CASE height[k] > i
    <3>1. i < level
      BY <1>2, <1>4, <2>8 DEF HeightInv, ListType
    <3>2. g[p] = f[k]
      BY <1>7, <1>9, <2>4, <2>5, <2>6, <2>8, <3>1
    <3>3. \A n \in (S \cup {header}) \ {k, p} : g[n] = f[n]
      BY <1>7, <1>9, <2>3, <2>4, <2>5
    <3>4. k \in S
      BY <2>2, <2>8 DEF On
    <3>5. Chain(g, S \ {k})
      BY <2>3, <2>6, <3>2, <3>3, <3>4, ChainUnlinked
    <3>. QED
      BY <2>1, <2>7, <3>5
  <2>9. CASE ~ (height[k] > i)
    <3>1. \A n \in Node \ {k} : g[n] = f[n]
      BY <1>9, <2>4, <2>5, <2>6, <2>9
    <3>2. S \ {k} = S /\ S \cup {header} \subseteq Node \ {k}
      BY <1>7, <2>2, <2>3, <2>9 DEF On
    <3>3. Chain(g, S)
      BY <2>3, <3>1, <3>2 DEF Chain
    <3>. QED
      BY <2>1, <2>7, <3>2, <3>3
  <2>. QED
    BY <2>8, <2>9
<1>15. ChainsInv'
  BY <1>14 DEF ChainsInv
<1>. QED
  BY <1>5, <1>11, <1>12, <1>13, <1>15
-----------------------------------------------------------------------------
(***************************************************************************)
(* The commands keep the invariant.                                        *)
(***************************************************************************)
LEMMA InitInv == Init => IInv
<1>. SUFFICES ASSUME Init PROVE IInv
  OBVIOUS
<1>1. /\ forward = [n \in Node |-> NoPointers] /\ height = [n \in Key |-> 0]
      /\ value = [n \in Key |-> NULL] /\ level = 1 /\ nb_elements = 0 /\ server = "running"
  BY DEF Init, init_skiptable
<1>2. MAX_LEVEL \in Nat \ {0} /\ MaxElements \in Nat
  BY SkipAssumption
<1>3. /\ \A n \in Node : \A i \in Level : forward[n][i] = NULL
      /\ forward \in [Node -> [Level -> Key \cup {NULL}]]
  BY <1>1 DEF NoPointers
<1>4. TypeOK
  BY <1>1, <1>2, <1>3 DEF TypeOK
<1>5. ChainsInv
  <2>. SUFFICES ASSUME NEW i \in Level PROVE Chain(Pointers(i), On(i))
    BY DEF ChainsInv
  <2>1. On(i) = {}
    BY <1>1, <1>2 DEF On, Level
  <2>2. Pointers(i)[header] = NULL
    BY <1>3 DEF Pointers, Node
  <2>. QED
    BY <2>1, <2>2 DEF Chain
<1>6. UnusedInv /\ HeightInv /\ ValueInv
  BY <1>1, <1>3 DEF UnusedInv, HeightInv, ValueInv, Node
<1>7. CountInv
  <2>1. Live = {}
    BY <1>1 DEF Live
  <2>. QED
    BY <1>1, <2>1, FS_EmptySet DEF CountInv
<1>. QED
  BY <1>4, <1>5, <1>6, <1>7 DEF IInv, ListInv

LEMMA UnchangedKeepsInv ==
    ASSUME IInv, UNCHANGED list, server' \in {"running", "crashed"}
    PROVE  IInv'
<1>1. UNCHANGED <<forward, height, value, level, nb_elements>>
  BY DEF list
<1>2. TypeOK'
  BY <1>1 DEF IInv, ListInv, TypeOK
<1>3. ChainsInv'
  BY <1>1 DEF IInv, ListInv, ChainsInv, Pointers, On
<1>4. (UnusedInv /\ HeightInv /\ ValueInv /\ CountInv)'
  BY <1>1 DEF IInv, ListInv, UnusedInv, HeightInv, ValueInv, CountInv, Live
<1>. QED
  BY <1>2, <1>3, <1>4 DEF IInv, ListInv

LEMMA LiveIsFinite ==
    ASSUME IInv
    PROVE  IsFiniteSet(Live) /\ Cardinality(Live) \in Nat /\ Cardinality(Live) <= nb_elements
BY KeysAreInts, FS_Subset, FS_CardinalityType DEF IInv, CountInv, Live

LEMMA SetKeepsInv ==
    ASSUME IInv, NEW k \in Key \cup {NULL}, NEW v \in Value \cup {NULL}, CmdZSET(k, v)
    PROVE  IInv'
<1>1. /\ ListInv /\ TypeOK /\ ValueInv /\ nb_elements \in Nat /\ MaxElements \in Nat
      /\ nb_elements < MaxElements /\ server' = server /\ server = "running"
  BY SkipAssumption DEF IInv, ListInv, TypeOK, CmdZSET, Running
<1>2. PICK ret \in {0, -1} : put_kv_skiptable(k, v, ret)
  BY DEF CmdZSET
<1>3. CASE UNCHANGED list
  BY <1>1, <1>3, UnchangedKeepsInv
<1>4. CASE k # NULL /\ v # NULL /\ insert(k, v) /\ nb_elements' = nb_elements + 1
  <2>1. k \in Key /\ v \in Value /\ v # NULL /\ nb_elements' \in 0 .. MaxElements
    BY <1>1, <1>4
  <2>2. CASE Meets(k) /\ value' = [value EXCEPT ![k] = v] /\ UNCHANGED <<forward, height, level>>
    <3>1. height[k] > 0
      BY <1>1, <2>1, <2>2, UpdateFinds DEF Found
    <3>2. /\ value' \in [Key -> Value \cup {NULL}]
          /\ \A n \in Key : value'[n] = IF n = k THEN v ELSE value[n]
      BY <1>1, <2>1, <2>2 DEF TypeOK
    <3>3. TypeOK'
      BY <1>1, <2>1, <2>2, <3>2 DEF TypeOK
    <3>4. (ChainsInv /\ UnusedInv /\ HeightInv)'
      BY <1>1, <2>2 DEF ListInv, ChainsInv, Pointers, On, UnusedInv, HeightInv
    <3>5. ValueInv'
      BY <1>1, <2>1, <2>2, <3>1, <3>2 DEF ValueInv
    <3>6. CountInv'
      <4>1. Live' = Live
        BY <2>2 DEF Live
      <4>. QED
        BY <1>1, <1>4, <4>1, LiveIsFinite DEF CountInv
    <3>. QED
      BY <3>3, <3>4, <3>5, <3>6 DEF IInv, ListInv
  <2>3. CASE ~ Meets(k) /\ \E h \in 1 .. MAX_LEVEL : Link(k, v, h)
    <3>1. PICK h \in 1 .. MAX_LEVEL : Link(k, v, h)
      BY <2>3
    <3>2. /\ (ListType /\ ChainsInv /\ UnusedInv /\ HeightInv)'
          /\ height[k] = 0 /\ height' = [height EXCEPT ![k] = h]
      BY <1>1, <2>1, <2>3, <3>1, LinkKeepsChains
    <3>3. /\ value' \in [Key -> Value \cup {NULL}]
          /\ \A n \in Key : value'[n] = IF n = k THEN v ELSE value[n]
      BY <1>1, <2>1, <3>1 DEF TypeOK, Link
    <3>4. TypeOK'
      BY <1>1, <2>1, <3>2, <3>3 DEF TypeOK, ListType
    <3>5. /\ h > 0
          /\ \A n \in Key : height'[n] = IF n = k THEN h ELSE height[n]
      BY <1>1, <3>2 DEF TypeOK
    <3>6. ValueInv'
      BY <1>1, <2>1, <3>3, <3>5 DEF ValueInv
    <3>7. CountInv'
      <4>1. Live' = Live \cup {k} /\ k \notin Live
        BY <2>1, <3>2, <3>5 DEF Live
      <4>2. Cardinality(Live \cup {k}) = Cardinality(Live) + 1
        BY <4>1, LiveIsFinite, FS_AddElement
      <4>. QED
        BY <1>1, <1>4, <4>1, <4>2, LiveIsFinite DEF CountInv
    <3>. QED
      BY <3>2, <3>4, <3>6, <3>7 DEF IInv, ListInv
  <2>. QED
    BY <1>4, <2>2, <2>3 DEF insert
<1>. QED
  BY <1>2, <1>3, <1>4 DEF put_kv_skiptable

\* find returns the value of the node, if there is one.
LEMMA FindIsValue ==
    ASSUME IInv, NEW k \in Key
    PROVE  find(k) = value[k]
<1>1. Meets(k) <=> height[k] > 0
  BY UpdateFinds DEF Found, IInv
<1>2. value[k] # NULL <=> height[k] > 0
  BY DEF IInv, ValueInv
<1>. QED
  BY <1>1, <1>2 DEF find

LEMMA DeleteKeepsInv ==
    ASSUME IInv, NEW k \in Key \cup {NULL}, CmdZDELETE(k)
    PROVE  IInv'
<1>1. /\ ListInv /\ TypeOK /\ ValueInv /\ nb_elements \in Nat /\ nb_elements <= MaxElements
      /\ MaxElements \in Nat /\ server' = server /\ server = "running"
  BY SkipAssumption DEF IInv, ListInv, TypeOK, CmdZDELETE, Running
<1>2. PICK ret \in {0, -1} : delete_kv_skiptable(k, ret)
  BY DEF CmdZDELETE
<1>3. CASE UNCHANGED list
  BY <1>1, <1>3, UnchangedKeepsInv
<1>4. CASE get_kv_skiptable(k) # NULL /\ delete(k) /\ nb_elements' = CountAfterDelete
  <2>1. k \in Key /\ value[k] # NULL
    <3>1. k # NULL
      BY <1>4 DEF get_kv_skiptable
    <3>. QED
      BY <1>4, <3>1, FindIsValue DEF get_kv_skiptable
  <2>2. height[k] > 0
    BY <1>1, <2>1 DEF ValueInv
  <2>3. (ListType /\ ChainsInv /\ UnusedInv /\ HeightInv)' /\ height' = [height EXCEPT ![k] = 0]
    BY <1>1, <1>4, <2>1, <2>2, DeleteKeepsChains
  <2>4. /\ value' \in [Key -> Value \cup {NULL}]
        /\ \A n \in Key : value'[n] = IF n = k THEN NULL ELSE value[n]
    BY <1>1, <1>4, <2>1 DEF TypeOK, delete
  <2>5. \A n \in Key : height'[n] = IF n = k THEN 0 ELSE height[n]
    BY <1>1, <2>3 DEF TypeOK
  <2>6. ValueInv'
    BY <1>1, <2>1, <2>4, <2>5 DEF ValueInv
  <2>7. Live' = Live \ {k} /\ k \in Live
    BY <2>1, <2>2, <2>5 DEF Live
  <2>8. Cardinality(Live \ {k}) = Cardinality(Live) - 1 /\ Cardinality(Live) > 0
    <3>1. Cardinality(Live) # 0
      BY <2>7, LiveIsFinite, FS_EmptySet
    <3>2. Cardinality(Live \ {k}) = Cardinality(Live) - 1
      BY <2>7, LiveIsFinite, FS_RemoveElement
    <3>. QED
      BY <3>1, <3>2, LiveIsFinite
  <2>9. nb_elements' = nb_elements - 1 /\ nb_elements' \in 0 .. MaxElements
    BY <1>1, <1>4, <2>8, LiveIsFinite DEF CountAfterDelete
  <2>10. CountInv'
    BY <1>1, <2>7, <2>8, <2>9, LiveIsFinite DEF CountInv
  <2>11. TypeOK'
    BY <1>1, <2>3, <2>4, <2>9 DEF TypeOK, ListType
  <2>. QED
    BY <2>3, <2>6, <2>10, <2>11 DEF IInv, ListInv
<1>. QED
  BY <1>2, <1>3, <1>4 DEF delete_kv_skiptable

LEMMA StepInv == IInv /\ [Next]_vars => IInv'
<1>. SUFFICES ASSUME IInv, [Next]_vars PROVE IInv'
  OBVIOUS
<1>1. server \in {"running", "crashed"}
  BY DEF IInv, ListInv, TypeOK
<1>2. CASE \E k \in Key \cup {NULL}, v \in Value \cup {NULL} : CmdZSET(k, v)
  BY <1>2, SetKeepsInv
<1>3. CASE \E k \in Key \cup {NULL} : CmdZGET(k)
  BY <1>1, <1>3, UnchangedKeepsInv DEF CmdZGET, Running
<1>4. CASE CmdZCOUNT
  BY <1>1, <1>4, UnchangedKeepsInv DEF CmdZCOUNT, Running
<1>5. CASE \E k \in Key \cup {NULL} : CmdZDELETE(k)
  BY <1>5, DeleteKeepsInv
<1>6. CASE \E k \in Key \cup {NULL} : CmdZEXIST(k)
  BY <1>1, <1>6, UnchangedKeepsInv DEF CmdZEXIST, Running
<1>7. CASE NullKey
  BY <1>7, UnchangedKeepsInv DEF NullKey
<1>8. CASE \E k \in Key : CreateNodeFails(k)
  BY <1>8, UnchangedKeepsInv DEF CreateNodeFails
<1>9. CASE UNCHANGED vars
  BY <1>1, <1>9, UnchangedKeepsInv DEF vars, list
<1>. QED
  BY <1>2, <1>3, <1>4, <1>5, <1>6, <1>7, <1>8, <1>9 DEF Next

\* Every reachable state of the skip list engine satisfies the invariant.
THEOREM Invariance == Spec => []IInv
BY InitInv, StepInv, PTL DEF Spec

\* After any sequence of ZSETs and ZDELETEs, with whatever heights, every
\* pointer of every level leads to the next node that has the level, no
\* pointer to a freed one, and the search starts above all nodes.
THEOREM LevelsAreSound == Spec => []LevelsSkipToNext
<1>1. IInv => LevelsSkipToNext
  <2>. SUFFICES ASSUME IInv PROVE LevelsSkipToNext
    OBVIOUS
  <2>1. TypeOK /\ ChainsInv /\ HeightInv
    BY DEF IInv, ListInv
  <2>2. \A n \in Live : height[n] <= level
    BY <2>1 DEF HeightInv, Live
  <2>3. ASSUME NEW n \in Live \cup {header}, NEW i \in Level, n # header => i < height[n]
        PROVE  LET S == NextOnLevel(n, i)
               IN  IF S = {} THEN forward[n][i] = NULL
                   ELSE forward[n][i] \in S /\ \A q \in S : forward[n][i] <= q
    <3>. DEFINE S == NextOnLevel(n, i)
    <3>1. n \in Node /\ i \in Nat /\ height \in [Key -> 0 .. MAX_LEVEL] /\ MAX_LEVEL \in Nat
      BY <2>1, SkipAssumption DEF Live, Node, Level, TypeOK
    <3>2. n \in On(i) \cup {header}
      BY <2>3, <3>1 DEF On, Live
    <3>3. Pointers(i)[n] = forward[n][i]
      BY <3>1 DEF Pointers
    <3>4. /\ forward[n][i] \in On(i) \cup {NULL}
          /\ forward[n][i] # NULL /\ n # header => n < forward[n][i]
          /\ \A q \in On(i) : (n = header \/ n < q) => forward[n][i] # NULL /\ forward[n][i] <= q
      BY <2>1, <3>2, <3>3 DEF ChainsInv, Chain
    <3>5. \A q : q \in S <=> q \in On(i) /\ (n # header => n < q)
      <4>1. \A q \in Key : height[q] > i => height[q] > 0
        BY <3>1
      <4>2. \A q \in Key : n # header => (q > n <=> n < q)
        BY <3>1, KeysAreInts DEF Node
      <4>. QED
        BY <4>1, <4>2 DEF NextOnLevel, On, Live
    <3>6. forward[n][i] # NULL => forward[n][i] \in S
      BY <3>4, <3>5
    <3>7. \A q \in S : forward[n][i] # NULL /\ forward[n][i] <= q
      BY <3>4, <3>5
    <3>. HIDE DEF S
    <3>8. IF S = {} THEN forward[n][i] = NULL
          ELSE forward[n][i] \in S /\ \A q \in S : forward[n][i] <= q
      BY <3>6, <3>7
    <3>. QED
      BY <3>8 DEF S
  <2>. QED
    BY <2>1, <2>2, <2>3 DEF LevelsSkipToNext
<1>. QED
  BY <1>1, Invariance, PTL
-----------------------------------------------------------------------------
(***************************************************************************)
(* The refinement of CountedMap: the map that the searches compute is the  *)
(* values of the nodes.                                                    *)
(***************************************************************************)
MapIsValue == [k \in Key |-> find(k)] = value

LEMMA MapIsValueHolds == (IInv => MapIsValue) /\ (IInv' => MapIsValue')
<1>1. IInv => MapIsValue
  <2>. SUFFICES ASSUME IInv PROVE MapIsValue
    OBVIOUS
  <2>1. value \in [Key -> Value \cup {NULL}]
    BY DEF IInv, ListInv, TypeOK
  <2>2. \A k \in Key : find(k) = value[k]
    BY FindIsValue
  <2>. QED
    BY <2>1, <2>2 DEF MapIsValue
<1>. QED
  BY <1>1, PTL

LEMMA InitIsCountedInit == Init => Counted!Init
<1>. SUFFICES ASSUME Init PROVE Counted!Init
  OBVIOUS
<1>1. [k \in Key |-> find(k)] = value
  BY InitInv, MapIsValueHolds DEF MapIsValue
<1>2. value = [k \in Key |-> NULL] /\ nb_elements = 0
  BY DEF Init, init_skiptable
<1>3. reply = [cmd |-> "none", key |-> NULL, val |-> NULL, out |-> NO_EXIST]
  BY DEF Init
<1>. QED
  BY <1>1, <1>2, <1>3 DEF Counted!Init, Counted!Plain!Init, Counted!Plain!NO_EXIST, NO_EXIST

\* The lookups of the map are those of the engine.
LEMMA SameLookup ==
    ASSUME IInv, NEW k \in Key \cup {NULL}
    PROVE  /\ Counted!Plain!Lookup(k) = get_kv_skiptable(k)
           /\ k \in Key => get_kv_skiptable(k) = value[k]
<1>1. [j \in Key |-> find(j)] = value /\ NULL \notin Key
  BY MapIsValueHolds, KeysAreInts DEF MapIsValue
<1>2. k \in Key => find(k) = value[k]
  BY FindIsValue
<1>. QED
  BY <1>1, <1>2 DEF Counted!Plain!Lookup, get_kv_skiptable

LEMMA SetIsCounted ==
    ASSUME IInv, IInv', NEW k \in Key \cup {NULL}, NEW v \in Value \cup {NULL}, CmdZSET(k, v)
    PROVE  Counted!Next
<1>1. [j \in Key |-> find(j)] = value /\ [j \in Key |-> find(j)]' = value'
  BY MapIsValueHolds DEF MapIsValue
<1>2. PICK ret \in {0, -1} : put_kv_skiptable(k, v, ret) /\ Answer("SET", k, v, StatusReply(ret))
  BY DEF CmdZSET
<1>3. CASE (k = NULL \/ v = NULL) /\ ret = -1 /\ UNCHANGED list
  <2>1. reply' = [cmd |-> "SET", key |-> k, val |-> v, out |-> FAILED]
    BY <1>2, <1>3 DEF Answer, StatusReply
  <2>2. value' = value /\ nb_elements' = nb_elements
    BY <1>3 DEF list
  <2>3. Counted!SetWithoutToken(k, v)
    BY <1>1, <1>3, <2>1, <2>2 DEF Counted!SetWithoutToken, Counted!Plain!Answer, Counted!FAILED, FAILED
  <2>. QED
    BY <2>3 DEF Counted!Next
<1>4. CASE k # NULL /\ v # NULL /\ insert(k, v) /\ nb_elements' = nb_elements + 1 /\ ret = 0
  <2>1. reply' = [cmd |-> "SET", key |-> k, val |-> v, out |-> SUCCESS]
    BY <1>2, <1>4 DEF Answer, StatusReply
  <2>2. value' = [value EXCEPT ![k] = v]
    BY <1>4 DEF insert, Link
  <2>3. Counted!Set(k, v)
    BY <1>1, <1>4, <2>1, <2>2 DEF Counted!Set, Counted!Plain!Answer, Counted!SUCCESS, SUCCESS
  <2>4. k \in Key /\ v \in Value
    BY <1>4
  <2>. QED
    BY <2>3, <2>4 DEF Counted!Next
<1>. QED
  BY <1>2, <1>3, <1>4 DEF put_kv_skiptable

LEMMA DeleteIsCounted ==
    ASSUME IInv, IInv', NEW k \in Key \cup {NULL}, CmdZDELETE(k)
    PROVE  Counted!Next
<1>1. [j \in Key |-> find(j)] = value /\ [j \in Key |-> find(j)]' = value'
  BY MapIsValueHolds DEF MapIsValue
<1>2. Counted!Plain!Lookup(k) = get_kv_skiptable(k)
  BY SameLookup
<1>3. PICK ret \in {0, -1} : delete_kv_skiptable(k, ret) /\ Answer("DELETE", k, NULL, StatusReply(ret))
  BY DEF CmdZDELETE
<1>4. nb_elements \in Int
  BY DEF IInv, ListInv, TypeOK
<1>5. CASE get_kv_skiptable(k) = NULL /\ ret = -1 /\ UNCHANGED list
  <2>1. reply' = [cmd |-> "DELETE", key |-> k, val |-> NULL, out |-> FAILED]
    BY <1>3, <1>5 DEF Answer, StatusReply
  <2>2. value' = value /\ nb_elements' = nb_elements
    BY <1>5 DEF list
  <2>3. Counted!Plain!Delete(k)
    BY <1>1, <1>2, <1>5, <2>1, <2>2
       DEF Counted!Plain!Delete, Counted!Plain!Answer, Counted!Plain!FAILED, FAILED
  <2>4. Counted!Delete(k)
    BY <1>2, <1>4, <1>5, <2>2, <2>3 DEF Counted!Delete
  <2>. QED
    BY <2>4 DEF Counted!Next
<1>6. CASE get_kv_skiptable(k) # NULL /\ delete(k) /\ nb_elements' = CountAfterDelete /\ ret = 0
  <2>1. reply' = [cmd |-> "DELETE", key |-> k, val |-> NULL, out |-> SUCCESS]
    BY <1>3, <1>6 DEF Answer, StatusReply
  <2>2. value' = [value EXCEPT ![k] = NULL] /\ nb_elements' = nb_elements - 1
    BY <1>6 DEF delete, CountAfterDelete
  <2>3. Counted!Plain!Delete(k)
    BY <1>1, <1>2, <1>6, <2>1, <2>2
       DEF Counted!Plain!Delete, Counted!Plain!Answer, Counted!Plain!SUCCESS, SUCCESS
  <2>4. Counted!Delete(k)
    BY <1>2, <1>6, <2>2, <2>3 DEF Counted!Delete
  <2>. QED
    BY <2>4 DEF Counted!Next
<1>. QED
  BY <1>3, <1>5, <1>6 DEF delete_kv_skiptable

LEMMA NextIsCountedNext == IInv /\ IInv' /\ [Next]_vars => [Counted!Next]_(Counted!vars)
<1>. SUFFICES ASSUME IInv, IInv', [Next]_vars PROVE [Counted!Next]_(Counted!vars)
  OBVIOUS
<1>1. [j \in Key |-> find(j)] = value /\ [j \in Key |-> find(j)]' = value'
  BY MapIsValueHolds DEF MapIsValue
<1>2. UNCHANGED <<list, reply>> => UNCHANGED Counted!vars
  BY <1>1 DEF Counted!vars, list
<1>3. CASE \E k \in Key \cup {NULL}, v \in Value \cup {NULL} : CmdZSET(k, v)
  BY <1>3, SetIsCounted
<1>4. ASSUME NEW k \in Key \cup {NULL}, CmdZGET(k)
      PROVE  Counted!Next
  <2>1. /\ reply' = [cmd |-> "GET", key |-> k, val |-> NULL,
                     out |-> GetReply(get_kv_skiptable(k), NULL)]
        /\ value' = value /\ nb_elements' = nb_elements
    BY <1>4 DEF CmdZGET, Answer, list
  <2>2. Counted!Plain!Get(k)
    BY <1>1, <2>1, SameLookup
       DEF Counted!Plain!Get, Counted!Plain!Answer, Counted!Plain!GetReply, GetReply,
           Counted!Plain!ValueReply, ValueReply, Counted!Plain!NO_EXIST, NO_EXIST
  <2>. QED
    BY <2>1, <2>2 DEF Counted!Next
<1>5. CASE CmdZCOUNT
  <2>1. /\ reply' = [cmd |-> "COUNT", key |-> NULL, val |-> NULL, out |-> IntReply(nb_elements)]
        /\ value' = value /\ nb_elements' = nb_elements
    BY <1>5 DEF CmdZCOUNT, Answer, list, count_kv_skiptable
  <2>2. Counted!Count
    BY <1>1, <2>1 DEF Counted!Count, Counted!Plain!Answer, Counted!IntReply, IntReply
  <2>. QED
    BY <2>2 DEF Counted!Next
<1>6. CASE \E k \in Key \cup {NULL} : CmdZDELETE(k)
  BY <1>6, DeleteIsCounted
<1>7. ASSUME NEW k \in Key \cup {NULL}, CmdZEXIST(k)
      PROVE  Counted!Next
  <2>1. /\ reply' = [cmd |-> "EXIST", key |-> k, val |-> NULL,
                     out |-> ExistReply(get_kv_skiptable(k) # NULL)]
        /\ value' = value /\ nb_elements' = nb_elements
    BY <1>7 DEF CmdZEXIST, Answer, list, exist_kv_skiptable
  <2>2. Counted!Plain!Exist(k)
    BY <1>1, <2>1, SameLookup
       DEF Counted!Plain!Exist, Counted!Plain!Answer, Counted!Plain!ExistReply, ExistReply,
           Counted!Plain!IntReply, IntReply
  <2>. QED
    BY <2>1, <2>2 DEF Counted!Next
<1>8. CASE NullKey
  BY <1>2, <1>8 DEF NullKey
<1>9. CASE \E k \in Key : CreateNodeFails(k)
  BY <1>2, <1>9 DEF CreateNodeFails
<1>10. CASE UNCHANGED vars
  BY <1>2, <1>10 DEF vars, list
<1>. QED
  BY <1>3, <1>4, <1>5, <1>6, <1>7, <1>8, <1>9, <1>10 DEF Next

\* The skip list engine is the counting map: every answer of ZSET, ZGET,
\* ZCOUNT, ZDELETE and ZEXIST is the one CountedMap gives, for any number of
\* keys and levels, until it dies of a null key or a failed allocation.
THEOREM Refinement == Spec => Refines
<1>1. Init => Counted!Init
  BY InitIsCountedInit
<1>2. IInv /\ IInv' /\ [Next]_vars => [Counted!Next]_(Counted!vars)
  BY NextIsCountedNext
<1>. QED
  BY <1>1, <1>2, Invariance, PTL DEF Spec, Counted!Spec, Refines
=============================================================================
