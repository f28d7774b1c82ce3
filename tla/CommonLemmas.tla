---------------------------- MODULE CommonLemmas ----------------------------
(***************************************************************************)
(* Facts the proofs of several modules share: a nonempty set of numbers    *)
(* has a least one, what a sequence is, and what linking and unlinking a   *)
(* node do to a chain and to the number of nodes of a table of chains.     *)
(***************************************************************************)
EXTENDS Integers, Sequences, FiniteSets, TLAPS,
        FiniteSetTheorems, SequenceTheorems, WellFoundedInduction

\* A nonempty set of numbers has a least one: a search from the front of an
\* array or a chain stops at a position of the set it looks for, and a tree
\* of timers has a first.
LEMMA LeastExists ==
    ASSUME NEW S \in SUBSET Nat, S # {}
    PROVE  \E i \in S : \A j \in S : i <= j
<1>1. PICK i \in S : \A j \in S : ~ (<<j, i>> \in OpToRel(<, Nat))
  BY WFMin, NatLessThanWellFounded
<1>2. ASSUME NEW j \in S, j < i PROVE FALSE
  <2>1. <<j, i>> \in {ss \in Nat \X Nat : ss[1] < ss[2]}
    BY <1>2
  <2>2. <<j, i>> \in OpToRel(<, Nat)
    BY <2>1, Zenon DEF OpToRel
  <2>. QED
    BY <2>2, <1>1
<1>. QED
  BY <1>2

\* A finite set of integers has a greatest element.
LEMMA GreatestExists ==
    ASSUME NEW S \in SUBSET Int, IsFiniteSet(S), S # {}
    PROVE  \E m \in S : \A q \in S : q <= m
<1>. DEFINE above(m) == {q \in S : q > m}
            N == {Cardinality(above(m)) : m \in S}
<1>1. \A m \in S : IsFiniteSet(above(m)) /\ Cardinality(above(m)) \in Nat
  BY FS_Subset, FS_CardinalityType
<1>2. N \in SUBSET Nat /\ N # {}
  BY <1>1
<1>3. PICK i \in N : \A j \in N : i <= j
  BY <1>2, LeastExists
<1>4. PICK m \in S : i = Cardinality(above(m))
  BY <1>3
<1>5. ASSUME NEW q \in S, m < q
      PROVE  FALSE
  <2>. m \in Int /\ q \in Int /\ \A x \in S : x \in Int
    OBVIOUS
  <2>1. above(q) \subseteq above(m) /\ q \in above(m) /\ q \notin above(q)
    <3>1. \A x \in S : x > q => x > m
      BY <1>5
    <3>2. q > m /\ ~ (q > q)
      BY <1>5
    <3>. QED
      BY <3>1, <3>2
  <2>2. Cardinality(above(q)) < Cardinality(above(m))
    BY <1>1, <2>1, FS_Subset
  <2>3. Cardinality(above(q)) \in N /\ Cardinality(above(q)) \in Nat
    BY <1>1
  <2>4. i <= Cardinality(above(q)) /\ i \in Nat
    BY <1>1, <1>3, <1>4, <2>3
  <2>. QED
    BY <1>1, <1>4, <2>2, <2>3, <2>4
<1>. QED
  BY <1>5

\* Every element of a sequence over T is in T.
LEMMA Elements ==
    ASSUME NEW T, NEW s \in Seq(T)
    PROVE  \A i \in DOMAIN s : s[i] \in T
OBVIOUS

\* A function on 1 .. n is a sequence.
LEMMA IsSequence ==
    ASSUME NEW T, NEW n \in Nat, NEW s \in [1 .. n -> T]
    PROVE  s \in Seq(T)
OBVIOUS

\* A sequence without its last element.
LEMMA FrontOf ==
    ASSUME NEW T, NEW s \in Seq(T), s # <<>>, NEW f, f = SubSeq(s, 1, Len(s) - 1)
    PROVE  /\ Len(s) \in Nat /\ DOMAIN s = 1 .. Len(s) /\ Len(s) \in DOMAIN s
           /\ f \in Seq(T) /\ DOMAIN f = 1 .. Len(s) - 1
           /\ \A i \in 1 .. Len(s) - 1 : f[i] = s[i] /\ i \in DOMAIN s /\ i # Len(s)
OBVIOUS

\* Every node of a table of chains, named by its bucket and its place there.
NodesOf(Slots, chains) == UNION {{s} \X DOMAIN chains[s] : s \in Slots}

\* A table has a chain in each bucket.
HasChains(Slots, c) ==
    \A q \in Slots : Len(c[q]) \in Nat /\ DOMAIN c[q] = 1 .. Len(c[q])

\* What it means for bucket s of a table to grow by one node.
Longer(Slots, c, d, s) ==
    /\ HasChains(Slots, c) /\ HasChains(Slots, d)
    /\ s \in Slots
    /\ Len(d[s]) = Len(c[s]) + 1
    /\ \A q \in Slots \ {s} : Len(d[q]) = Len(c[q])

\* A table that is one node longer in one bucket has one more node.
LEMMA OneMoreNode ==
    ASSUME NEW Slots, NEW c, NEW d, NEW s, Longer(Slots, c, d, s)
    PROVE  /\ NodesOf(Slots, d) = NodesOf(Slots, c) \cup {<<s, Len(c[s]) + 1>>}
           /\ NodesOf(Slots, c) = NodesOf(Slots, d) \ {<<s, Len(c[s]) + 1>>}
           /\ <<s, Len(c[s]) + 1>> \notin NodesOf(Slots, c)
<1>1. \A q \in Slots : /\ Len(c[q]) \in Nat /\ Len(d[q]) \in Nat
                       /\ DOMAIN c[q] = 1 .. Len(c[q])
                       /\ DOMAIN d[q] = 1 .. Len(d[q])
  BY DEF Longer, HasChains
<1>2. \A x : x \in NodesOf(Slots, c) <=>
             \E q \in Slots : \E i \in 1 .. Len(c[q]) : x = <<q, i>>
  BY <1>1 DEF NodesOf
<1>3. \A x : x \in NodesOf(Slots, d) <=>
             \E q \in Slots : \E i \in 1 .. Len(d[q]) : x = <<q, i>>
  BY <1>1 DEF NodesOf
<1>4. \A q \in Slots, i \in Nat :
         i \in 1 .. Len(d[q]) <=> i \in 1 .. Len(c[q]) \/ (q = s /\ i = Len(c[s]) + 1)
  BY <1>1 DEF Longer
<1>5. Len(c[s]) + 1 \notin 1 .. Len(c[s])
  BY <1>1
<1>6. \A x : x \in NodesOf(Slots, d) <=> x \in NodesOf(Slots, c) \/ x = <<s, Len(c[s]) + 1>>
  <2>. TAKE x
  <2>1. ASSUME x \in NodesOf(Slots, d)
        PROVE  x \in NodesOf(Slots, c) \/ x = <<s, Len(c[s]) + 1>>
    <3>1. PICK q \in Slots : \E i \in 1 .. Len(d[q]) : x = <<q, i>>
      BY <2>1, <1>3
    <3>2. PICK i \in 1 .. Len(d[q]) : x = <<q, i>>
      BY <3>1
    <3>3. i \in Nat
      BY <1>1, <3>2
    <3>. QED
      BY <3>2, <3>3, <1>2, <1>4
  <2>2. ASSUME x \in NodesOf(Slots, c) PROVE x \in NodesOf(Slots, d)
    <3>1. PICK q \in Slots : \E i \in 1 .. Len(c[q]) : x = <<q, i>>
      BY <2>2, <1>2
    <3>2. PICK i \in 1 .. Len(c[q]) : x = <<q, i>>
      BY <3>1
    <3>3. i \in Nat
      BY <1>1, <3>2
    <3>. QED
      BY <3>2, <3>3, <1>3, <1>4
  <2>3. <<s, Len(c[s]) + 1>> \in NodesOf(Slots, d)
    BY <1>1, <1>3, <1>4 DEF Longer
  <2>. QED
    BY <2>1, <2>2, <2>3
<1>7. <<s, Len(c[s]) + 1>> \notin NodesOf(Slots, c)
  BY <1>2, <1>5
<1>. QED
  BY <1>6, <1>7

\* Linking a node to a bucket adds one to the number of nodes.
LEMMA LinkCounts ==
    ASSUME NEW Slots, NEW c, NEW d, NEW s, Longer(Slots, c, d, s), IsFiniteSet(NodesOf(Slots, c))
    PROVE  /\ IsFiniteSet(NodesOf(Slots, d))
           /\ Cardinality(NodesOf(Slots, d)) = Cardinality(NodesOf(Slots, c)) + 1
           /\ Cardinality(NodesOf(Slots, c)) \in Nat
<1>. DEFINE x == <<s, Len(c[s]) + 1>>
<1>1. NodesOf(Slots, d) = NodesOf(Slots, c) \cup {x} /\ x \notin NodesOf(Slots, c)
  BY OneMoreNode, Zenon
<1>. HIDE DEF x
<1>. QED
  BY <1>1, FS_AddElement, FS_CardinalityType

\* Unlinking a node takes one from the number of nodes.
LEMMA UnlinkCounts ==
    ASSUME NEW Slots, NEW c, NEW d, NEW s, Longer(Slots, d, c, s), IsFiniteSet(NodesOf(Slots, c))
    PROVE  /\ IsFiniteSet(NodesOf(Slots, d))
           /\ Cardinality(NodesOf(Slots, d)) = Cardinality(NodesOf(Slots, c)) - 1
           /\ Cardinality(NodesOf(Slots, d)) \in Nat
           /\ Cardinality(NodesOf(Slots, c)) \in Nat
<1>. DEFINE x == <<s, Len(d[s]) + 1>>
<1>1. NodesOf(Slots, d) = NodesOf(Slots, c) \ {x} /\ x \in NodesOf(Slots, c)
  <2>1. /\ NodesOf(Slots, c) = NodesOf(Slots, d) \cup {x}
        /\ NodesOf(Slots, d) = NodesOf(Slots, c) \ {x}
    BY OneMoreNode, Zenon
  <2>. QED
    BY <2>1
<1>. HIDE DEF x
<1>. QED
  BY <1>1, FS_RemoveElement, FS_CardinalityType

\* A node put in front of a chain.
LEMMA LinkFront ==
    ASSUME NEW T, NEW c \in Seq(T), NEW n \in T
    PROVE  /\ <<n>> \o c \in Seq(T)
           /\ Len(<<n>> \o c) = Len(c) + 1
           /\ DOMAIN (<<n>> \o c) = 1 .. Len(c) + 1
           /\ (<<n>> \o c)[1] = n
           /\ \A i \in 1 .. Len(c) : (<<n>> \o c)[i + 1] = c[i]
           /\ \A i \in 2 .. Len(c) + 1 : (<<n>> \o c)[i] = c[i - 1]
OBVIOUS

\* A chain without its i-th node.
LEMMA UnlinkAt ==
    ASSUME NEW T, NEW c \in Seq(T), NEW i \in 1 .. Len(c), NEW u,
           u = [j \in 1 .. Len(c) - 1 |-> IF j < i THEN c[j] ELSE c[j + 1]]
    PROVE  /\ u \in Seq(T)
           /\ Len(u) = Len(c) - 1
           /\ Len(u) \in Nat
           /\ DOMAIN u = 1 .. Len(c) - 1
           /\ \A j \in 1 .. Len(c) - 1 : u[j] = IF j < i THEN c[j] ELSE c[j + 1]
OBVIOUS
=============================================================================
