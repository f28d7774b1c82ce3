-------------------------- MODULE DHashTableProofs --------------------------
(***************************************************************************)
(* DHashTable for every set of keys and values, every number of buckets    *)
(* and every hash function.  heap stays a natural number because it never  *)
(* falls below the three allocations of each node in the table; for the    *)
(* refinement the nodes of a key are counted off along their chain.        *)
(***************************************************************************)
EXTENDS DHashTable, CommonLemmas

NodeIds == NodesOf(Slot, table)

\* A node hangs in the bucket of its key.
InItsBucket ==
    \A s \in Slot : \A i \in DOMAIN table[s] : hash_function[table[s][i].key] = s

IInv ==
    /\ TypeOK
    /\ InItsBucket
    /\ IsFiniteSet(NodeIds)
    /\ heap >= 3 * Cardinality(NodeIds)

\* NodeCount is the number of nodes of the table.
LEMMA NodeCountIs == NodeCount = Cardinality(NodeIds)
BY DEF NodeCount, NodeIds, NodesOf

\* A nonempty set of places has a first.
LEMMA FirstIsLeast ==
    ASSUME NEW S \in SUBSET Nat, S # {}
    PROVE  First(S) \in S /\ \A j \in S : First(S) <= j
BY LeastExists DEF First

\* The newest node of a key is a node of its chain that has the key, and no
\* node before it has.
LEMMA Newest ==
    ASSUME TypeOK, NEW k \in Key, Matching(Bucket(k), k) # {}
    PROVE  /\ First(Matching(Bucket(k), k)) \in 1 .. Len(Bucket(k))
           /\ First(Matching(Bucket(k), k)) \in Matching(Bucket(k), k)
           /\ \A j \in Matching(Bucket(k), k) : First(Matching(Bucket(k), k)) <= j
<1>1. Bucket(k) \in Seq(Node)
  BY DHashAssumption DEF TypeOK, Bucket
<1>2. DOMAIN Bucket(k) = 1 .. Len(Bucket(k)) /\ Len(Bucket(k)) \in Nat
  BY <1>1
<1>3. Matching(Bucket(k), k) \in SUBSET DOMAIN Bucket(k)
  BY DEF Matching
<1>4. Matching(Bucket(k), k) \in SUBSET Nat
  BY <1>2, <1>3
<1>. QED
  BY <1>2, <1>3, <1>4, FirstIsLeast

\* The empty table satisfies the invariant.
LEMMA InitIInv == Init => IInv
<1>. SUFFICES ASSUME Init PROVE IInv
  OBVIOUS
<1>1. TypeOK
  BY DEF Init, init_dhashtable, TypeOK
<1>2. NodeIds = {}
  BY DEF Init, init_dhashtable, NodeIds, NodesOf
<1>3. InItsBucket
  BY DEF Init, init_dhashtable, InItsBucket
<1>. QED
  BY <1>1, <1>2, <1>3, FS_EmptySet DEF IInv, Init, init_dhashtable

\* A put that links its node adds one node and three allocations.
LEMMA LinkStep ==
    ASSUME IInv, NEW k \in Key, NEW v \in Value,
           table' = [table EXCEPT ![hash_function[k]] = Linked(@, [key |-> k, value |-> v])],
           heap' = heap + 3, server' = server
    PROVE  IInv' /\ NodeCount' = NodeCount + 1 /\ NodeCount \in Nat
<1>. DEFINE s == hash_function[k]
            n == [key |-> k, value |-> v]
<1>1. s \in Slot /\ table \in [Slot -> Seq(Node)] /\ n \in Node
  BY DHashAssumption DEF IInv, TypeOK, Node
<1>2. <<n>> \o table[s] \in Seq(Node) /\ Len(<<n>> \o table[s]) = Len(table[s]) + 1
  BY <1>1, LinkFront
<1>3. /\ table' \in [Slot -> Seq(Node)] /\ table'[s] = <<n>> \o table[s]
      /\ \A q \in Slot \ {s} : table'[q] = table[q]
  BY <1>1, <1>2 DEF Linked
<1>. HIDE DEF s, n
<1>4. Longer(Slot, table, table', s)
  BY <1>1, <1>2, <1>3 DEF Longer, HasChains
<1>5. /\ IsFiniteSet(NodeIds')
      /\ Cardinality(NodeIds') = Cardinality(NodeIds) + 1
      /\ Cardinality(NodeIds) \in Nat
  BY <1>4, LinkCounts DEF IInv, NodeIds
<1>6. NodeCount' = Cardinality(NodeIds')
  BY DEF NodeCount, NodeIds, NodesOf
<1>7. InItsBucket'
  <2>. SUFFICES ASSUME NEW q \in Slot, NEW i \in DOMAIN table'[q]
                PROVE  hash_function[table'[q][i].key] = q
    BY DEF InItsBucket
  <2>1. CASE q # s
    <3>1. table'[q] = table[q]
      BY <1>3, <2>1
    <3>. QED
      BY <3>1 DEF IInv, InItsBucket
  <2>2. CASE q = s /\ i = 1
    BY <1>1, <1>3, <2>2, LinkFront DEF n, s
  <2>3. CASE q = s /\ i # 1
    <3>1. i - 1 \in DOMAIN table[s] /\ table'[q][i] = table[s][i - 1]
      BY <1>1, <1>2, <1>3, <2>3, LinkFront
    <3>. QED
      BY <1>1, <2>3, <3>1 DEF IInv, InItsBucket
  <2>. QED
    BY <2>1, <2>2, <2>3
<1>. QED
  BY <1>3, <1>5, <1>6, <1>7, NodeCountIs DEF IInv, TypeOK

\* A delete that finds its key gives back one node and three allocations.
LEMMA UnlinkStep ==
    ASSUME IInv, NEW k \in Key, Matching(Bucket(k), k) # {},
           table' = [table EXCEPT ![hash_function[k]] =
                         Removed(@, First(Matching(Bucket(k), k)))],
           heap' = heap - 3, server' = server
    PROVE  IInv' /\ NodeCount' = NodeCount - 1 /\ NodeCount \in Nat
<1>. DEFINE s == hash_function[k]
            at == First(Matching(Bucket(k), k))
            new == Unlink(table[s], at)
<1>1. s \in Slot /\ table \in [Slot -> Seq(Node)]
  BY DHashAssumption DEF IInv, TypeOK
<1>2. at \in 1 .. Len(table[s])
  <2>1. at \in 1 .. Len(Bucket(k))
    BY Newest DEF IInv
  <2>. HIDE DEF at
  <2>. QED
    BY <2>1 DEF Bucket
<1>3. table' = [table EXCEPT ![s] = new]
  BY DEF Removed
<1>. HIDE DEF at
<1>4. /\ new \in Seq(Node) /\ Len(new) = Len(table[s]) - 1 /\ Len(new) \in Nat
      /\ DOMAIN new = 1 .. Len(table[s]) - 1
      /\ \A j \in DOMAIN new : new[j] = IF j < at THEN table[s][j] ELSE table[s][j + 1]
  BY <1>1, <1>2, UnlinkAt DEF Unlink
<1>. HIDE DEF s, new
<1>5. /\ table' \in [Slot -> Seq(Node)] /\ table'[s] = new
      /\ \A q \in Slot \ {s} : table'[q] = table[q]
  BY <1>1, <1>3, <1>4
<1>6. Longer(Slot, table', table, s)
  BY <1>1, <1>4, <1>5 DEF Longer, HasChains
<1>7. /\ IsFiniteSet(NodeIds')
      /\ Cardinality(NodeIds') = Cardinality(NodeIds) - 1
      /\ Cardinality(NodeIds') \in Nat
      /\ Cardinality(NodeIds) \in Nat
  BY <1>6, UnlinkCounts DEF IInv, NodeIds
<1>8. NodeCount' = Cardinality(NodeIds')
  BY DEF NodeCount, NodeIds, NodesOf
<1>9. InItsBucket'
  <2>. SUFFICES ASSUME NEW q \in Slot, NEW i \in DOMAIN table'[q]
                PROVE  hash_function[table'[q][i].key] = q
    BY DEF InItsBucket
  <2>1. CASE q # s
    <3>1. table'[q] = table[q]
      BY <1>5, <2>1
    <3>. QED
      BY <3>1 DEF IInv, InItsBucket
  <2>2. CASE q = s
    <3>. DEFINE j == IF i < at THEN i ELSE i + 1
    <3>1. j \in DOMAIN table[s] /\ table'[q][i] = table[s][j]
      BY <1>1, <1>2, <1>4, <1>5, <2>2
    <3>. QED
      BY <1>1, <2>2, <3>1 DEF IInv, InItsBucket
  <2>. QED
    BY <2>1, <2>2
<1>. QED
  BY <1>5, <1>7, <1>8, <1>9, NodeCountIs DEF IInv, TypeOK

\* A step that leaves the table alone and loses no allocation keeps the
\* invariant.
LEMMA SameTableStep ==
    ASSUME IInv, table' = table, heap' \in Nat, heap' >= heap,
           server' \in {"running", "crashed"}
    PROVE  IInv' /\ NodeCount' = NodeCount
<1>1. NodeIds' = NodeIds /\ NodeCount' = NodeCount /\ (InItsBucket' <=> InItsBucket)
  BY DEF NodeIds, NodesOf, NodeCount, InItsBucket
<1>2. Cardinality(NodeIds) \in Nat
  BY FS_CardinalityType DEF IInv
<1>. QED
  BY <1>1, <1>2 DEF IInv, TypeOK

\* What OnlyFailedSetLeaks says of one step.
LeaksOnlyInSet ==
    heap' - 3 * NodeCount' # heap - 3 * NodeCount
       => reply'.cmd = "SET" /\ reply'.out = FAILED

\* Every command keeps the invariant, and only a DSET that fails loses
\* allocations.
LEMMA NextStep == IInv /\ [Next]_vars => IInv' /\ LeaksOnlyInSet
<1>. SUFFICES ASSUME IInv, [Next]_vars PROVE IInv' /\ LeaksOnlyInSet
  OBVIOUS
<1>0. heap \in Nat /\ NodeCount \in Nat /\ server \in {"running", "crashed"}
  BY NodeCountIs, FS_CardinalityType DEF IInv, TypeOK
<1>1. ASSUME UNCHANGED store, server' \in {"running", "crashed"}
      PROVE  IInv' /\ LeaksOnlyInSet
  BY <1>0, <1>1, SameTableStep DEF store, LeaksOnlyInSet
<1>2. ASSUME NEW k \in Key, NEW v \in Value, CmdDSET(k, v) PROVE IInv' /\ LeaksOnlyInSet
  <2>1. PICK ret \in {0, -1} : /\ put_kv_dhashtable(k, v, ret)
                               /\ Answer("SET", k, v, StatusReply(ret))
    BY <1>2 DEF CmdDSET
  <2>2. server' = server
    BY <1>2 DEF CmdDSET, Running
  <2>3. CASE UNCHANGED store
    BY <1>0, <1>1, <2>2, <2>3
  <2>4. CASE ret = -1 /\ heap' \in {heap, heap + 1} /\ UNCHANGED table
    <3>1. reply'.cmd = "SET" /\ reply'.out = FAILED
      BY <2>1, <2>4 DEF Answer, StatusReply
    <3>. QED
      BY <1>0, <2>2, <2>4, <3>1, SameTableStep DEF LeaksOnlyInSet
  <2>5. CASE /\ table' = [table EXCEPT ![hash_function[k]] =
                              Linked(@, [key |-> k, value |-> v])]
             /\ heap' = heap + 3
    <3>1. IInv' /\ NodeCount' = NodeCount + 1
      BY <2>2, <2>5, LinkStep
    <3>. QED
      BY <1>0, <2>5, <3>1 DEF LeaksOnlyInSet
  <2>6. PICK newNode, newKey, newValue \in Alloc :
          \/ UNCHANGED store
          \/ ret = -1 /\ heap' = heap + (IF newKey \/ newValue THEN 1 ELSE 0) /\ UNCHANGED table
          \/ /\ table' = [table EXCEPT ![hash_function[k]] =
                               Linked(@, [key |-> k, value |-> v])]
             /\ heap' = heap + 3
    BY <2>1, Zenon DEF put_kv_dhashtable
  <2>7. heap + (IF newKey \/ newValue THEN 1 ELSE 0) \in {heap, heap + 1}
    BY <1>0
  <2>. QED
    BY <2>3, <2>4, <2>5, <2>6, <2>7
<1>3. ASSUME NEW k \in Key, CmdDDELETE(k) PROVE IInv' /\ LeaksOnlyInSet
  <2>1. PICK ret \in {0, -1} : delete_kv_dhashtable(k, ret)
    BY <1>3 DEF CmdDDELETE
  <2>2. server' = server
    BY <1>3 DEF CmdDDELETE, Running
  <2>3. CASE UNCHANGED store
    BY <1>0, <1>1, <2>2, <2>3
  <2>4. CASE /\ Matching(Bucket(k), k) # {}
             /\ table' = [table EXCEPT ![hash_function[k]] =
                              Removed(@, First(Matching(Bucket(k), k)))]
             /\ heap' = heap - 3
    <3>1. IInv' /\ NodeCount' = NodeCount - 1
      BY <2>2, <2>4, UnlinkStep
    <3>. QED
      BY <1>0, <2>4, <3>1 DEF LeaksOnlyInSet
  <2>. QED
    BY <2>1, <2>3, <2>4 DEF delete_kv_dhashtable, FreedBlocks
<1>4. ASSUME \/ \E k \in Key : CmdDGET(k) \/ CmdDEXIST(k)
             \/ CmdDCOUNT \/ NullToken
             \/ UNCHANGED vars
      PROVE  IInv' /\ LeaksOnlyInSet
  <2>1. UNCHANGED store /\ server' \in {"running", "crashed"}
    BY <1>0, <1>4 DEF CmdDGET, CmdDEXIST, CmdDCOUNT, NullToken, Running, vars, store
  <2>. QED
    BY <1>1, <2>1
<1>. QED
  BY <1>2, <1>3, <1>4 DEF Next

\* Every reachable state of the dhash engine satisfies the invariant.
THEOREM Invariance == Spec => []IInv
<1>1. IInv /\ [Next]_vars => IInv'
  BY NextStep
<1>. QED
  BY <1>1, InitIInv, PTL DEF Spec

\* The chains are chains of nodes and DDELETE never frees more blocks than
\* DSET allocated: heap stays a natural number.
THEOREM TypeCorrect == Spec => []TypeOK
<1>1. IInv => TypeOK
  BY DEF IInv
<1>. QED
  BY <1>1, Invariance, PTL

\* A successful DSET owns what it allocated and DDELETE gives back the node,
\* its key and its value: allocations are lost by failed DSETs alone.
THEOREM LeaksOnlyInFailedSet == Spec => OnlyFailedSetLeaks
<1>1. IInv /\ [Next]_vars => [LeaksOnlyInSet]_vars
  BY NextStep
<1>. QED
  BY <1>1, Invariance, PTL DEF Spec, OnlyFailedSetLeaks, LeaksOnlyInSet
-----------------------------------------------------------------------------
(***************************************************************************)
(* Counting off a finite set of places: Rank and Nth are inverse, and do   *)
(* not change when the places are moved without changing their order.      *)
(***************************************************************************)

\* The rank of a place is one of the first Cardinality(S) numbers, and a
\* later place has a higher rank.
LEMMA Ranks ==
    ASSUME NEW S \in SUBSET Nat, IsFiniteSet(S)
    PROVE  /\ \A i \in S : Rank(S, i) \in 1 .. Cardinality(S)
           /\ \A i, j \in S : i < j => Rank(S, i) < Rank(S, j)
<1>. DEFINE upto(i) == {x \in S : x <= i}
<1>1. \A i \in S : /\ IsFiniteSet(upto(i)) /\ Cardinality(upto(i)) <= Cardinality(S)
                   /\ Cardinality(upto(i)) \in Nat /\ Cardinality(S) \in Nat
  BY FS_Subset, FS_CardinalityType
<1>2. \A i \in S : Cardinality(upto(i)) # 0
  <2>. SUFFICES ASSUME NEW i \in S PROVE Cardinality(upto(i)) # 0
    OBVIOUS
  <2>1. i \in upto(i)
    OBVIOUS
  <2>. HIDE DEF upto
  <2>. QED
    BY <1>1, <2>1, FS_EmptySet
<1>3. ASSUME NEW i \in S, NEW j \in S, i < j
      PROVE  Cardinality(upto(i)) < Cardinality(upto(j))
  <2>0. j \in upto(j) /\ j \notin upto(i)
    BY <1>3
  <2>1. upto(i) \in SUBSET upto(j)
    <3>1. \A x \in S : x <= i => x <= j
      BY <1>3
    <3>. QED
      BY <3>1
  <2>. HIDE DEF upto
  <2>2. /\ Cardinality(upto(i)) <= Cardinality(upto(j))
        /\ Cardinality(upto(i)) # Cardinality(upto(j))
    BY <1>1, <2>0, <2>1, FS_Subset
  <2>. QED
    BY <1>1, <2>2
<1>4. \A i : Rank(S, i) = Cardinality(upto(i))
  BY DEF Rank
<1>. HIDE DEF upto
<1>. QED
  BY <1>1, <1>2, <1>3, <1>4

\* Nth is the place of its rank, and every number up to the size of the set
\* is a rank.
LEMMA NthOfRank ==
    ASSUME NEW S \in SUBSET Nat, IsFiniteSet(S)
    PROVE  /\ \A i \in S : Nth(S, Rank(S, i)) = i
           /\ \A j \in 1 .. Cardinality(S) : Nth(S, j) \in S /\ Rank(S, Nth(S, j)) = j
<1>. DEFINE f == [i \in S |-> Rank(S, i)]
            n == Cardinality(S)
<1>1. \A i, j \in S : Rank(S, i) = Rank(S, j) => i = j
  <2>. SUFFICES ASSUME NEW i \in S, NEW j \in S, i # j PROVE Rank(S, i) # Rank(S, j)
    OBVIOUS
  <2>1. Rank(S, i) \in Int /\ Rank(S, j) \in Int
    BY Ranks, FS_CardinalityType
  <2>2. i < j \/ j < i
    OBVIOUS
  <2>. QED
    BY <2>1, <2>2, Ranks
<1>2. f \in [S -> 1 .. n]
  BY Ranks
<1>3. f \in Injection(S, 1 .. n)
  BY <1>1, <1>2 DEF Injection, IsInjective
<1>4. n \in Nat /\ IsFiniteSet(1 .. n) /\ Cardinality(1 .. n) = n
  BY FS_CardinalityType, FS_Interval
<1>5. f \in Surjection(S, 1 .. n)
  BY <1>3, <1>4, FS_Injection
<1>6. \A j \in 1 .. n : \E i \in S : Rank(S, i) = j
  BY <1>5 DEF Surjection
<1>. QED
  BY <1>1, <1>6 DEF Nth

\* h moves the places S to the places T without changing their order.
Moves(h, S, T) ==
    /\ h \in [S -> T]
    /\ \A i, j \in S : i < j <=> h[i] < h[j]
    /\ \A t \in T : \E i \in S : h[i] = t

\* Moving the places without changing their order keeps their ranks.
LEMMA MovedRanks ==
    ASSUME NEW S \in SUBSET Nat, NEW T \in SUBSET Nat, IsFiniteSet(S), NEW h,
           Moves(h, S, T)
    PROVE  /\ IsFiniteSet(T) /\ Cardinality(T) = Cardinality(S)
           /\ \A i \in S : Rank(T, h[i]) = Rank(S, i)
           /\ \A j \in 1 .. Cardinality(S) : Nth(T, j) = h[Nth(S, j)]
<1>0. /\ h \in [S -> T]
      /\ \A i, j \in S : i < j <=> h[i] < h[j]
      /\ \A t \in T : \E i \in S : h[i] = t
  BY DEF Moves
<1>1. \A i, j \in S : h[i] = h[j] => i = j
  BY <1>0
<1>2. h \in Bijection(S, T)
  BY <1>0, <1>1 DEF Bijection, Injection, Surjection, IsInjective
<1>3. IsFiniteSet(T) /\ Cardinality(T) = Cardinality(S)
  BY <1>2, FS_Bijection DEF ExistsBijection
<1>4. ASSUME NEW i \in S PROVE Rank(T, h[i]) = Rank(S, i)
  <2>. DEFINE A == {x \in S : x <= i}
              B == {x \in T : x <= h[i]}
              g == [x \in A |-> h[x]]
  <2>0. \A x \in S : x \in Nat /\ h[x] \in Nat /\ (i < x <=> h[i] < h[x])
    BY <1>0
  <2>1. \A x \in S : x <= i <=> h[x] <= h[i]
    BY <2>0
  <2>2. g \in [A -> B]
    BY <1>0, <2>1
  <2>3. \A x, y \in A : g[x] = g[y] => x = y
    BY <1>1
  <2>4. \A t \in B : \E x \in A : g[x] = t
    BY <1>0, <2>1
  <2>5. g \in Bijection(A, B)
    BY <2>2, <2>3, <2>4 DEF Bijection, Injection, Surjection, IsInjective
  <2>6. IsFiniteSet(A)
    BY FS_Subset
  <2>7. Cardinality(B) = Cardinality(A)
    BY <2>5, <2>6, FS_Bijection DEF ExistsBijection
  <2>. QED
    BY <2>7 DEF Rank
<1>5. ASSUME NEW j \in 1 .. Cardinality(S) PROVE Nth(T, j) = h[Nth(S, j)]
  <2>1. Nth(S, j) \in S /\ Rank(S, Nth(S, j)) = j
    BY NthOfRank
  <2>2. h[Nth(S, j)] \in T /\ Rank(T, h[Nth(S, j)]) = j
    BY <1>0, <1>4, <2>1
  <2>3. Nth(T, Rank(T, h[Nth(S, j)])) = h[Nth(S, j)]
    BY <1>3, <2>2, NthOfRank
  <2>. QED
    BY <2>2, <2>3
<1>. QED
  BY <1>3, <1>4, <1>5

\* A place before all others is the first, and the others come one later.
LEMMA AddFirst ==
    ASSUME NEW S \in SUBSET Nat, IsFiniteSet(S), NEW m \in Nat, \A i \in S : m < i
    PROVE  /\ IsFiniteSet(S \cup {m}) /\ Cardinality(S \cup {m}) = Cardinality(S) + 1
           /\ Nth(S \cup {m}, 1) = m
           /\ \A j \in 1 .. Cardinality(S) : Nth(S \cup {m}, j + 1) = Nth(S, j)
<1>. DEFINE U == S \cup {m}
<1>0. m \notin S /\ U \in SUBSET Nat
  OBVIOUS
<1>1. IsFiniteSet(U) /\ Cardinality(U) = Cardinality(S) + 1
  BY <1>0, FS_AddElement
<1>2. Rank(U, m) = 1
  <2>1. {x \in U : x <= m} = {m}
    <3>1. \A x \in S : ~ (x <= m)
      OBVIOUS
    <3>2. m <= m
      OBVIOUS
    <3>. QED
      BY <3>1, <3>2
  <2>. QED
    BY <2>1, FS_Singleton DEF Rank
<1>3. ASSUME NEW i \in S PROVE Rank(U, i) = Rank(S, i) + 1
  <2>. DEFINE A == {x \in S : x <= i}
  <2>1. {x \in U : x <= i} = A \cup {m} /\ m \notin A
    BY <1>0
  <2>2. IsFiniteSet(A)
    BY FS_Subset
  <2>. HIDE DEF A
  <2>3. Cardinality(A \cup {m}) = Cardinality(A) + 1
    BY <2>1, <2>2, FS_AddElement
  <2>. QED
    BY <2>1, <2>3 DEF Rank, A
<1>4. Nth(U, 1) = m
  BY <1>0, <1>1, <1>2, NthOfRank
<1>5. ASSUME NEW j \in 1 .. Cardinality(S) PROVE Nth(U, j + 1) = Nth(S, j)
  <2>1. Nth(S, j) \in S /\ Rank(S, Nth(S, j)) = j
    BY NthOfRank
  <2>2. Rank(U, Nth(S, j)) = j + 1
    BY <1>3, <2>1
  <2>. HIDE DEF U
  <2>3. Nth(S, j) \in U
    BY <2>1 DEF U
  <2>. QED
    BY <1>0, <1>1, <2>2, <2>3, NthOfRank
<1>. QED
  BY <1>1, <1>4, <1>5
-----------------------------------------------------------------------------
(***************************************************************************)
(* The values of a key along its chain.                                    *)
(***************************************************************************)

\* The places of a key in a chain are a finite set of numbers.
LEMMA MatchingFinite ==
    ASSUME NEW c \in Seq(Node), NEW k
    PROVE  /\ Matching(c, k) \in SUBSET (1 .. Len(c))
           /\ Matching(c, k) \in SUBSET Nat
           /\ IsFiniteSet(Matching(c, k))
           /\ Cardinality(Matching(c, k)) \in Nat
<1>1. Len(c) \in Nat /\ DOMAIN c = 1 .. Len(c)
  OBVIOUS
<1>2. Matching(c, k) \in SUBSET (1 .. Len(c))
  BY <1>1 DEF Matching
<1>3. IsFiniteSet(1 .. Len(c)) /\ (1 .. Len(c)) \subseteq Nat
  BY <1>1, FS_Interval
<1>4. IsFiniteSet(Matching(c, k))
  BY <1>2, <1>3, FS_Subset
<1>. QED
  BY <1>2, <1>3, <1>4, FS_CardinalityType

\* The values of a key are values.
LEMMA ValuesType ==
    ASSUME NEW c \in Seq(Node), NEW k
    PROVE  /\ ValuesOn(c, k) \in Seq(Value)
           /\ Len(ValuesOn(c, k)) = Cardinality(Matching(c, k))
           /\ DOMAIN ValuesOn(c, k) = 1 .. Cardinality(Matching(c, k))
<1>. DEFINE M == Matching(c, k)
<1>1. M \in SUBSET (1 .. Len(c)) /\ M \in SUBSET Nat /\ IsFiniteSet(M) /\ Cardinality(M) \in Nat
  BY MatchingFinite
<1>. HIDE DEF M
<1>2. \A j \in 1 .. Cardinality(M) : Nth(M, j) \in 1 .. Len(c)
  BY <1>1, NthOfRank
<1>3. \A i \in 1 .. Len(c) : c[i].value \in Value
  <2>1. \A i \in 1 .. Len(c) : c[i] \in Node
    OBVIOUS
  <2>. QED
    BY <2>1 DEF Node
<1>4. ValuesOn(c, k) = [j \in 1 .. Cardinality(M) |-> c[Nth(M, j)].value]
  BY DEF ValuesOn, M
<1>5. \A j \in 1 .. Cardinality(M) : c[Nth(M, j)].value \in Value
  BY <1>2, <1>3
<1>. QED
  BY <1>1, <1>4, <1>5 DEF M

\* The node at each place of key k in c is at the place h gives it in d.
Carries(h, c, d, k) == \A i \in Matching(c, k) : d[h[i]] = c[i]

\* Nodes of other keys that come and go, and nodes that move along, leave the
\* values of a key as they are.
LEMMA SameValues ==
    ASSUME NEW c \in Seq(Node), NEW d \in Seq(Node), NEW k, NEW h,
           Moves(h, Matching(c, k), Matching(d, k)), Carries(h, c, d, k)
    PROVE  ValuesOn(d, k) = ValuesOn(c, k)
<1>. DEFINE S == Matching(c, k)
            T == Matching(d, k)
<1>1. S \in SUBSET Nat /\ T \in SUBSET Nat /\ IsFiniteSet(S)
  BY MatchingFinite
<1>2. Moves(h, S, T) /\ \A i \in S : d[h[i]] = c[i]
  BY DEF Carries
<1>3. /\ ValuesOn(c, k) = [j \in 1 .. Cardinality(S) |-> c[Nth(S, j)].value]
      /\ ValuesOn(d, k) = [j \in 1 .. Cardinality(T) |-> d[Nth(T, j)].value]
  BY DEF ValuesOn
<1>. HIDE DEF S, T
<1>4. /\ Cardinality(T) = Cardinality(S)
      /\ \A j \in 1 .. Cardinality(S) : Nth(T, j) = h[Nth(S, j)]
  BY <1>1, <1>2, MovedRanks
<1>5. \A j \in 1 .. Cardinality(S) : Nth(S, j) \in S
  BY <1>1, NthOfRank
<1>. QED
  BY <1>2, <1>3, <1>4, <1>5

\* A node of the key in front of all its others puts its value in front of
\* theirs.
LEMMA OneMoreValue ==
    ASSUME NEW c \in Seq(Node), NEW d \in Seq(Node), NEW k, NEW m \in Matching(d, k),
           NEW h, Moves(h, Matching(c, k), Matching(d, k) \ {m}), Carries(h, c, d, k),
           \A t \in Matching(d, k) \ {m} : m < t
    PROVE  /\ ValuesOn(d, k) = <<d[m].value>> \o ValuesOn(c, k)
           /\ ValuesOn(c, k) = Tail(ValuesOn(d, k))
           /\ ValuesOn(d, k) # <<>>
           /\ Head(ValuesOn(d, k)) = d[m].value
<1>. DEFINE S == Matching(c, k)
            T == Matching(d, k) \ {m}
            n == Cardinality(S)
            vc == ValuesOn(c, k)
            vd == ValuesOn(d, k)
<1>1. S \in SUBSET Nat /\ T \in SUBSET Nat /\ IsFiniteSet(S) /\ n \in Nat /\ m \in Nat
  BY MatchingFinite
<1>2. /\ Moves(h, S, T)
      /\ \A i \in S : d[h[i]] = c[i]
      /\ \A t \in T : m < t
      /\ Matching(d, k) = T \cup {m}
  BY DEF Carries
<1>3. /\ vc = [j \in 1 .. n |-> c[Nth(S, j)].value]
      /\ vd = [j \in 1 .. Cardinality(T \cup {m}) |-> d[Nth(T \cup {m}, j)].value]
  BY <1>2 DEF ValuesOn
<1>4. vc \in Seq(Value) /\ Len(vc) = n /\ vd \in Seq(Value) /\ Len(vd) = Cardinality(T \cup {m})
  BY <1>2, ValuesType
<1>. HIDE DEF S, T, vc, vd
<1>5. /\ IsFiniteSet(T) /\ Cardinality(T) = n
      /\ \A j \in 1 .. n : Nth(T, j) = h[Nth(S, j)]
  <2>1. /\ IsFiniteSet(T) /\ Cardinality(T) = Cardinality(S)
        /\ \A j \in 1 .. Cardinality(S) : Nth(T, j) = h[Nth(S, j)]
    BY <1>1, <1>2, MovedRanks
  <2>. QED
    BY <2>1
<1>6. /\ Cardinality(T \cup {m}) = n + 1
      /\ Nth(T \cup {m}, 1) = m
      /\ \A j \in 1 .. n : Nth(T \cup {m}, j + 1) = Nth(T, j)
  <2>1. /\ Cardinality(T \cup {m}) = Cardinality(T) + 1
        /\ Nth(T \cup {m}, 1) = m
        /\ \A j \in 1 .. Cardinality(T) : Nth(T \cup {m}, j + 1) = Nth(T, j)
    BY <1>1, <1>2, <1>5, AddFirst
  <2>. QED
    BY <1>5, <2>1
<1>. HIDE DEF n
<1>7. \A j \in 1 .. n : Nth(S, j) \in S
  BY <1>1, NthOfRank DEF n
<1>8. vd[1] = d[m].value
  BY <1>1, <1>3, <1>6
<1>9. \A j \in 1 .. n : vd[j + 1] = vc[j]
  <2>. TAKE j \in 1 .. n
  <2>1. j + 1 \in 1 .. n + 1
    BY <1>1
  <2>2. vd[j + 1] = d[h[Nth(S, j)]].value
    BY <1>3, <1>5, <1>6, <2>1
  <2>3. vc[j] = c[Nth(S, j)].value
    BY <1>3
  <2>. QED
    BY <1>2, <1>7, <2>2, <2>3
<1>10. vd # <<>> /\ Head(vd) = d[m].value
  BY <1>1, <1>4, <1>6, <1>8
<1>11. vc = Tail(vd)
  <2>1. Len(Tail(vd)) = n /\ Tail(vd) \in Seq(Value)
    BY <1>1, <1>4, <1>6, <1>10
  <2>2. \A j \in 1 .. n : Tail(vd)[j] = vd[j + 1]
    BY <1>1, <1>4, <1>6, <1>10
  <2>. QED
    BY <1>4, <1>9, <2>1, <2>2, SeqEqual
<1>12. vd = <<d[m].value>> \o vc
  <2>1. d[m].value \in Value
    BY <1>4, <1>10
  <2>2. /\ <<d[m].value>> \o vc \in Seq(Value)
        /\ Len(<<d[m].value>> \o vc) = n + 1
        /\ (<<d[m].value>> \o vc)[1] = d[m].value
        /\ \A i \in 2 .. n + 1 : (<<d[m].value>> \o vc)[i] = vc[i - 1]
    BY <1>4, <2>1, LinkFront
  <2>3. \A i \in 1 .. n + 1 : vd[i] = (<<d[m].value>> \o vc)[i]
    <3>. TAKE i \in 1 .. n + 1
    <3>1. CASE i = 1
      BY <1>8, <2>2, <3>1
    <3>2. CASE i # 1
      <4>1. i - 1 \in 1 .. n /\ i \in 2 .. n + 1 /\ (i - 1) + 1 = i
        BY <1>1, <3>2
      <4>. QED
        BY <1>9, <2>2, <4>1
    <3>. QED
      BY <3>1, <3>2
  <2>4. Len(vd) = n + 1 /\ vd \in Seq(Value)
    BY <1>4, <1>6
  <2>. HIDE DEF vc, vd
  <2>. QED
    BY <2>2, <2>3, <2>4, SeqEqual
<1>. QED
  BY <1>10, <1>11, <1>12 DEF vc, vd

\* The newest value of a key is that of the first node that matches it.
LEMMA NewestValue ==
    ASSUME NEW c \in Seq(Node), NEW k
    PROVE  /\ Matching(c, k) = {} <=> ValuesOn(c, k) = <<>>
           /\ Matching(c, k) # {} => /\ Head(ValuesOn(c, k)) = c[First(Matching(c, k))].value
                                     /\ Head(ValuesOn(c, k)) \in Value
<1>. DEFINE M == Matching(c, k)
<1>1. M \in SUBSET Nat /\ IsFiniteSet(M) /\ Cardinality(M) \in Nat
  BY MatchingFinite
<1>2. /\ ValuesOn(c, k) \in Seq(Value)
      /\ Len(ValuesOn(c, k)) = Cardinality(M)
  BY ValuesType
<1>3. ValuesOn(c, k) = [j \in 1 .. Cardinality(M) |-> c[Nth(M, j)].value]
  BY DEF ValuesOn
<1>. HIDE DEF M
<1>4. M = {} <=> Cardinality(M) = 0
  BY <1>1, FS_EmptySet
<1>5. M = {} <=> ValuesOn(c, k) = <<>>
  BY <1>1, <1>2, <1>4
<1>6. ASSUME M # {}
      PROVE  Head(ValuesOn(c, k)) = c[First(M)].value /\ Head(ValuesOn(c, k)) \in Value
  <2>1. First(M) \in M /\ \A j \in M : First(M) <= j
    BY <1>1, <1>6, FirstIsLeast
  <2>2. {x \in M : x <= First(M)} = {First(M)}
    <3>0. \A x \in M : x \in Nat /\ First(M) \in Nat /\ First(M) <= x
      BY <1>1, <2>1
    <3>1. \A x \in M : x <= First(M) <=> x = First(M)
      BY <3>0
    <3>. QED
      BY <2>1, <3>1
  <2>3. Rank(M, First(M)) = 1
    BY <2>2, FS_Singleton DEF Rank
  <2>4. Nth(M, 1) = First(M)
    BY <1>1, <2>1, <2>3, NthOfRank
  <2>5. Cardinality(M) # 0
    BY <1>4, <1>6
  <2>6. 1 \in 1 .. Cardinality(M)
    BY <1>1, <2>5
  <2>7. ValuesOn(c, k)[1] = c[First(M)].value
    BY <1>3, <2>4, <2>6
  <2>8. Head(ValuesOn(c, k)) = ValuesOn(c, k)[1] /\ ValuesOn(c, k)[1] \in Value
    BY <1>2, <2>6
  <2>. QED
    BY <2>7, <2>8
<1>. QED
  BY <1>5, <1>6 DEF M

\* The values of a key after a node was put in front of the chain.
LEMMA LinkedValues ==
    ASSUME NEW c \in Seq(Node), NEW n \in Node, NEW q
    PROVE  ValuesOn(<<n>> \o c, q)
              = IF q = n.key THEN <<n.value>> \o ValuesOn(c, q) ELSE ValuesOn(c, q)
<1>. DEFINE d == <<n>> \o c
            S == Matching(c, q)
            h == [i \in S |-> i + 1]
<1>2. /\ d \in Seq(Node)
      /\ DOMAIN d = 1 .. Len(c) + 1 /\ DOMAIN c = 1 .. Len(c) /\ Len(c) \in Nat
      /\ d[1] = n
      /\ \A i \in 1 .. Len(c) : d[i + 1] = c[i]
      /\ \A i \in 2 .. Len(c) + 1 : d[i] = c[i - 1]
  BY LinkFront
<1>3. S \in SUBSET (1 .. Len(c))
  BY MatchingFinite
<1>. HIDE DEF d
<1>4. \A i \in S : i + 1 \in Matching(d, q) /\ i + 1 # 1 /\ d[i + 1] = c[i]
  BY <1>2, <1>3 DEF Matching
<1>5. \A t \in Matching(d, q) : t # 1 => t - 1 \in S /\ (t - 1) + 1 = t /\ 1 < t
  <2>. SUFFICES ASSUME NEW t \in Matching(d, q), t # 1
                PROVE  t - 1 \in S /\ (t - 1) + 1 = t /\ 1 < t
    OBVIOUS
  <2>1. t \in 2 .. Len(c) + 1 /\ d[t].key = q
    BY <1>2 DEF Matching
  <2>. QED
    BY <1>2, <2>1 DEF Matching
<1>6. 1 \in Matching(d, q) <=> q = n.key
  BY <1>2 DEF Matching
<1>7. \A i, j \in S : i < j <=> h[i] < h[j]
  BY <1>2, <1>3
<1>8. CASE q = n.key
  <2>1. h \in [S -> Matching(d, q) \ {1}]
    BY <1>4
  <2>2. \A t \in Matching(d, q) \ {1} : (\E i \in S : h[i] = t) /\ 1 < t
    <3>. SUFFICES ASSUME NEW t \in Matching(d, q) \ {1}
                  PROVE  (\E i \in S : h[i] = t) /\ 1 < t
      OBVIOUS
    <3>1. t - 1 \in S /\ h[t - 1] = t /\ 1 < t
      BY <1>5
    <3>. QED
      BY <3>1
  <2>3. \A i \in S : d[h[i]] = c[i]
    BY <1>4
  <2>4. 1 \in Matching(d, q)
    BY <1>6, <1>8
  <2>. HIDE DEF h
  <2>5. Moves(h, Matching(c, q), Matching(d, q) \ {1}) /\ Carries(h, c, d, q)
    BY <1>7, <2>1, <2>2, <2>3 DEF Moves, Carries
  <2>6. ValuesOn(d, q) = <<d[1].value>> \o ValuesOn(c, q)
    BY <1>2, <2>2, <2>4, <2>5, OneMoreValue
  <2>. QED
    BY <1>2, <1>8, <2>6 DEF d
<1>9. CASE q # n.key
  <2>1. h \in [S -> Matching(d, q)]
    BY <1>4
  <2>2. \A t \in Matching(d, q) : \E i \in S : h[i] = t
    <3>. SUFFICES ASSUME NEW t \in Matching(d, q) PROVE \E i \in S : h[i] = t
      OBVIOUS
    <3>1. t - 1 \in S /\ h[t - 1] = t
      BY <1>5, <1>6, <1>9
    <3>. QED
      BY <3>1
  <2>3. \A i \in S : d[h[i]] = c[i]
    BY <1>4
  <2>. HIDE DEF h
  <2>4. Moves(h, Matching(c, q), Matching(d, q)) /\ Carries(h, c, d, q)
    BY <1>7, <2>1, <2>2, <2>3 DEF Moves, Carries
  <2>5. ValuesOn(d, q) = ValuesOn(c, q)
    BY <1>2, <2>4, SameValues
  <2>. QED
    BY <1>9, <2>5 DEF d
<1>. QED
  BY <1>8, <1>9

\* The values of a key after the newest node of key k was unlinked.
LEMMA UnlinkedValues ==
    ASSUME NEW c \in Seq(Node), NEW k, NEW q, NEW at \in Matching(c, k),
           \A j \in Matching(c, k) : at <= j
    PROVE  ValuesOn(Unlink(c, at), q)
              = IF q = k THEN Tail(ValuesOn(c, q)) ELSE ValuesOn(c, q)
<1>. DEFINE d == Unlink(c, at)
            C == Matching(c, q)
            D == Matching(d, q)
            up == [j \in D |-> IF j < at THEN j ELSE j + 1]
            down == [i \in C |-> IF i < at THEN i ELSE i - 1]
<1>1. at \in 1 .. Len(c) /\ c[at].key = k /\ Len(c) \in Nat /\ DOMAIN c = 1 .. Len(c)
  BY MatchingFinite DEF Matching
<1>2. /\ d \in Seq(Node) /\ DOMAIN d = 1 .. Len(c) - 1
      /\ \A j \in 1 .. Len(c) - 1 : d[j] = IF j < at THEN c[j] ELSE c[j + 1]
  BY <1>1, UnlinkAt DEF Unlink
<1>. HIDE DEF d
<1>3. C \in SUBSET (1 .. Len(c)) /\ D \in SUBSET (1 .. Len(c) - 1)
  BY <1>1, <1>2 DEF Matching
<1>4. \A j \in D : up[j] \in C /\ up[j] # at /\ c[up[j]] = d[j]
  <2>. SUFFICES ASSUME NEW j \in D PROVE up[j] \in C /\ up[j] # at /\ c[up[j]] = d[j]
    OBVIOUS
  <2>1. j \in 1 .. Len(c) - 1 /\ d[j].key = q
    BY <1>2 DEF Matching
  <2>2. up[j] \in 1 .. Len(c) /\ up[j] # at /\ c[up[j]] = d[j]
    BY <1>1, <1>2, <2>1
  <2>. HIDE DEF up
  <2>. QED
    BY <1>1, <2>1, <2>2 DEF Matching
<1>5. \A i \in C : i # at => down[i] \in D /\ up[down[i]] = i /\ d[down[i]] = c[i]
  <2>. SUFFICES ASSUME NEW i \in C, i # at
                PROVE  down[i] \in D /\ up[down[i]] = i /\ d[down[i]] = c[i]
    OBVIOUS
  <2>1. i \in 1 .. Len(c) /\ c[i].key = q
    BY <1>1 DEF Matching
  <2>2. /\ down[i] \in 1 .. Len(c) - 1 /\ d[down[i]] = c[i]
        /\ (IF down[i] < at THEN down[i] ELSE down[i] + 1) = i
    BY <1>1, <1>2, <2>1
  <2>. HIDE DEF down
  <2>3. down[i] \in D
    BY <1>2, <2>1, <2>2 DEF Matching
  <2>. QED
    BY <2>2, <2>3
<1>6. CASE q = k
  <2>1. at \in C /\ \A t \in C \ {at} : at < t
    BY <1>1, <1>3, <1>6
  <2>2. up \in [D -> C \ {at}]
    BY <1>4
  <2>3. \A i, j \in D : i < j <=> up[i] < up[j]
    BY <1>1, <1>3
  <2>. HIDE DEF up, down
  <2>4. \A t \in C \ {at} : \E j \in D : up[j] = t
    BY <1>5
  <2>5. \A j \in D : c[up[j]] = d[j]
    BY <1>4
  <2>6. Moves(up, Matching(d, q), Matching(c, q) \ {at}) /\ Carries(up, d, c, q)
    BY <2>2, <2>3, <2>4, <2>5 DEF Moves, Carries
  <2>7. ValuesOn(d, q) = Tail(ValuesOn(c, q))
    BY <1>2, <2>1, <2>6, OneMoreValue
  <2>. QED
    BY <1>6, <2>7 DEF d
<1>7. CASE q # k
  <2>1. at \notin C
    BY <1>1, <1>7 DEF Matching
  <2>2. down \in [C -> D]
    BY <1>5, <2>1
  <2>3. \A i, j \in C : i < j <=> down[i] < down[j]
    <3>1. \A i \in C : i \in 1 .. Len(c) /\ i # at
      BY <1>3, <2>1
    <3>. QED
      BY <1>1, <3>1
  <2>4. \A t \in D : \E i \in C : down[i] = t
    <3>. SUFFICES ASSUME NEW t \in D PROVE \E i \in C : down[i] = t
      OBVIOUS
    <3>1. up[t] \in C /\ down[up[t]] = t
      BY <1>1, <1>3, <1>4
    <3>. QED
      BY <3>1
  <2>. HIDE DEF up, down
  <2>5. \A i \in C : d[down[i]] = c[i]
    BY <1>5, <2>1
  <2>6. Moves(down, Matching(c, q), Matching(d, q)) /\ Carries(down, c, d, q)
    BY <2>2, <2>3, <2>4, <2>5 DEF Moves, Carries
  <2>7. ValuesOn(d, q) = ValuesOn(c, q)
    BY <1>2, <2>6, SameValues
  <2>. QED
    BY <1>7, <2>7 DEF d
<1>. QED
  BY <1>6, <1>7
-----------------------------------------------------------------------------
(***************************************************************************)
(* The dhash engine implements StackMap.                                   *)
(***************************************************************************)

Stacks == [k \in Key |-> ValuesOf(k)]

\* The stacks' instance of FiniteSets is ours.
LEMMA SameCardinality == \A S : Stack!Cardinality(S) = Cardinality(S)
BY Zenon DEF Stack!Cardinality, Cardinality

\* A step that leaves the chains alone leaves the stacks alone.
LEMMA SameStacks ==
    ASSUME table' = table
    PROVE  Stacks' = Stacks
BY DEF Stacks, ValuesOf, ValuesOn, Bucket, Matching, Nth, Rank

\* The bucket of a key is a chain of nodes.
LEMMA BucketType ==
    ASSUME TypeOK, NEW k \in Key
    PROVE  Bucket(k) \in Seq(Node) /\ hash_function[k] \in Slot
BY DHashAssumption DEF TypeOK, Bucket

\* A DSET that links its node pushes a value on the stack of its key and
\* leaves the stacks of all other keys alone.
LEMMA LinkIsPush ==
    ASSUME IInv, NEW k \in Key, NEW v \in Value,
           table' = [table EXCEPT ![hash_function[k]] = Linked(@, [key |-> k, value |-> v])],
           Answer("SET", k, v, SUCCESS)
    PROVE  Stack!Push(k, v)
<1>1. table \in [Slot -> Seq(Node)] /\ hash_function \in [Key -> Slot]
  BY DHashAssumption DEF IInv, TypeOK
<1>2. \A q \in Key : ValuesOf(q)' = IF q = k THEN <<v>> \o ValuesOf(q) ELSE ValuesOf(q)
  <2>. TAKE q \in Key
  <2>0. ValuesOf(q)' = ValuesOn(table'[hash_function[q]], q)
    BY DEF ValuesOf, Bucket, ValuesOn, Matching, Nth, Rank
  <2>1. Bucket(q) \in Seq(Node)
    BY BucketType DEF IInv
  <2>2. CASE hash_function[q] # hash_function[k]
    <3>1. table'[hash_function[q]] = Bucket(q)
      BY <1>1, <2>2 DEF Bucket
    <3>. QED
      BY <2>0, <2>2, <3>1 DEF ValuesOf
  <2>3. CASE hash_function[q] = hash_function[k]
    <3>1. table'[hash_function[q]] = <<[key |-> k, value |-> v]>> \o Bucket(q)
      BY <1>1, <2>3 DEF Bucket, Linked
    <3>. DEFINE n == [key |-> k, value |-> v]
    <3>2. n \in Node /\ n.key = k /\ n.value = v
      BY DEF Node
    <3>. HIDE DEF n
    <3>3. ValuesOn(<<n>> \o Bucket(q), q)
             = IF q = n.key THEN <<n.value>> \o ValuesOn(Bucket(q), q) ELSE ValuesOn(Bucket(q), q)
      BY <2>1, <3>2, LinkedValues
    <3>. QED
      BY <2>0, <3>1, <3>2, <3>3 DEF ValuesOf, n
  <2>. QED
    BY <2>2, <2>3
<1>3. Stacks' = [Stacks EXCEPT ![k] = <<v>> \o @]
  BY <1>2 DEF Stacks
<1>. QED
  BY <1>3 DEF Stack!Push, Stacks, Stack!Answer, Answer, SUCCESS, Stack!SUCCESS

\* A DDELETE that finds its key pops the newest value of the key's stack and
\* leaves the stacks of all other keys alone.
LEMMA UnlinkIsPop ==
    ASSUME IInv, NEW k \in Key, Matching(Bucket(k), k) # {},
           table' = [table EXCEPT ![hash_function[k]] =
                         Removed(@, First(Matching(Bucket(k), k)))],
           Answer("DELETE", k, NULL, SUCCESS)
    PROVE  Stack!Pop(k)
<1>. DEFINE at == First(Matching(Bucket(k), k))
<1>1. table \in [Slot -> Seq(Node)] /\ hash_function \in [Key -> Slot]
  BY DHashAssumption DEF IInv, TypeOK
<1>2. at \in Matching(Bucket(k), k) /\ \A j \in Matching(Bucket(k), k) : at <= j
  BY Newest DEF IInv
<1>3. table' = [table EXCEPT ![hash_function[k]] = Unlink(@, at)]
  BY DEF Removed
<1>. HIDE DEF at
<1>4. \A q \in Key : ValuesOf(q)' = IF q = k THEN Tail(ValuesOf(q)) ELSE ValuesOf(q)
  <2>. TAKE q \in Key
  <2>0. ValuesOf(q)' = ValuesOn(table'[hash_function[q]], q)
    BY DEF ValuesOf, Bucket, ValuesOn, Matching, Nth, Rank
  <2>1. Bucket(q) \in Seq(Node)
    BY BucketType DEF IInv
  <2>2. CASE hash_function[q] # hash_function[k]
    <3>1. table'[hash_function[q]] = Bucket(q)
      BY <1>1, <1>3, <2>2 DEF Bucket
    <3>. QED
      BY <2>0, <2>2, <3>1 DEF ValuesOf
  <2>3. CASE hash_function[q] = hash_function[k]
    <3>1. table'[hash_function[q]] = Unlink(Bucket(q), at) /\ Bucket(k) = Bucket(q)
      BY <1>1, <1>3, <2>3 DEF Bucket
    <3>2. at \in Matching(Bucket(q), k) /\ \A j \in Matching(Bucket(q), k) : at <= j
      BY <1>2, <3>1
    <3>3. ValuesOn(Unlink(Bucket(q), at), q)
             = IF q = k THEN Tail(ValuesOn(Bucket(q), q)) ELSE ValuesOn(Bucket(q), q)
      BY <2>1, <3>2, UnlinkedValues
    <3>. QED
      BY <2>0, <3>1, <3>3 DEF ValuesOf
  <2>. QED
    BY <2>2, <2>3
<1>5. Stacks' = [Stacks EXCEPT ![k] = Tail(@)]
  BY <1>4 DEF Stacks
<1>6. ValuesOf(k) # <<>>
  BY BucketType, NewestValue DEF ValuesOf, IInv
<1>. QED
  BY <1>5, <1>6 DEF Stack!Pop, Stacks, Stack!Answer, Answer, SUCCESS, Stack!SUCCESS

\* DGET answers the top of the stack and DEXIST whether there is one.
LEMMA TopIsGet ==
    ASSUME IInv, NEW k \in Key
    PROVE  /\ Stack!Top(k) = get_kv_dhashtable(k)
           /\ exist_kv_dhashtable(k) <=> Stack!Top(k) # NULL
           /\ Matching(Bucket(k), k) = {} <=> ValuesOf(k) = <<>>
<1>1. Bucket(k) \in Seq(Node)
  BY BucketType DEF IInv
<1>2. Stack!Top(k) = IF ValuesOf(k) = <<>> THEN NULL ELSE Head(ValuesOf(k))
  BY DEF Stack!Top
<1>3. /\ Matching(Bucket(k), k) = {} <=> ValuesOf(k) = <<>>
      /\ Matching(Bucket(k), k) # {} =>
            /\ Head(ValuesOf(k)) = Bucket(k)[First(Matching(Bucket(k), k))].value
            /\ Head(ValuesOf(k)) \in Value
  BY <1>1, NewestValue DEF ValuesOf
<1>. QED
  BY <1>2, <1>3, DHashAssumption DEF get_kv_dhashtable, exist_kv_dhashtable

\* DCOUNT, which walks the buckets, answers the number of values on all
\* stacks: the nodes of a bucket counted off by key are those of its keys.
LEMMA SizeIsNodeCount ==
    ASSUME IInv
    PROVE  Stack!Cardinality(UNION {{k} \X DOMAIN Stacks[k] : k \in Key}) = NodeCount
<1>. DEFINE V == UNION {{k} \X DOMAIN Stacks[k] : k \in Key}
            M(k) == Matching(Bucket(k), k)
            key(x) == table[x[1]][x[2]].key
            f == [x \in NodeIds |-> <<key(x), Rank(M(key(x)), x[2])>>]
<1>1. \A k \in Key : /\ M(k) \in SUBSET Nat /\ IsFiniteSet(M(k))
                     /\ DOMAIN Stacks[k] = 1 .. Cardinality(M(k))
  <2>. TAKE k \in Key
  <2>1. Bucket(k) \in Seq(Node)
    BY BucketType DEF IInv
  <2>. QED
    BY <2>1, MatchingFinite, ValuesType DEF Stacks, ValuesOf
<1>2. \A y : y \in V <=> \E k \in Key : \E j \in 1 .. Cardinality(M(k)) : y = <<k, j>>
  <2>. HIDE DEF M
  <2>1. \A y : y \in V <=> \E k \in Key : y \in {k} \X DOMAIN Stacks[k]
    OBVIOUS
  <2>2. \A k \in Key : \A y : y \in {k} \X DOMAIN Stacks[k]
                           <=> \E j \in 1 .. Cardinality(M(k)) : y = <<k, j>>
    <3>. TAKE k \in Key
    <3>1. \A D : \A y : y \in {k} \X D <=> \E j \in D : y = <<k, j>>
      OBVIOUS
    <3>2. DOMAIN Stacks[k] = 1 .. Cardinality(M(k))
      BY <1>1
    <3>. QED
      BY <3>1, <3>2
  <2>. QED
    BY <2>1, <2>2
<1>3. \A x \in NodeIds : x[1] \in Slot /\ x[2] \in DOMAIN table[x[1]] /\ x = <<x[1], x[2]>>
  BY DEF NodeIds, NodesOf
<1>4. \A x \in NodeIds : key(x) \in Key /\ hash_function[key(x)] = x[1]
                         /\ Bucket(key(x)) = table[x[1]] /\ x[2] \in M(key(x))
  <2>. TAKE x \in NodeIds
  <2>1. table[x[1]] \in Seq(Node) /\ x[2] \in DOMAIN table[x[1]]
    BY <1>3 DEF IInv, TypeOK
  <2>2. table[x[1]][x[2]] \in Node
    BY <2>1
  <2>3. key(x) \in Key
    BY <2>2 DEF Node
  <2>4. hash_function[key(x)] = x[1]
    BY <1>3 DEF IInv, InItsBucket
  <2>. QED
    BY <2>1, <2>3, <2>4 DEF Bucket, Matching
<1>. HIDE DEF V, M, key
<1>5. f \in [NodeIds -> V]
  BY <1>1, <1>2, <1>4, Ranks
<1>6. \A x, y \in NodeIds : f[x] = f[y] => x = y
  <2>. SUFFICES ASSUME NEW x \in NodeIds, NEW y \in NodeIds, f[x] = f[y] PROVE x = y
    OBVIOUS
  <2>1. key(x) = key(y) /\ Rank(M(key(x)), x[2]) = Rank(M(key(x)), y[2])
    OBVIOUS
  <2>2. x[1] = y[1] /\ x[2] \in M(key(x)) /\ y[2] \in M(key(x)) /\ key(x) \in Key
    BY <1>4, <2>1
  <2>3. x[2] = y[2]
    BY <1>1, <2>1, <2>2, NthOfRank
  <2>. QED
    BY <1>3, <2>2, <2>3
<1>7. \A y \in V : \E x \in NodeIds : f[x] = y
  <2>. SUFFICES ASSUME NEW y \in V PROVE \E x \in NodeIds : f[x] = y
    OBVIOUS
  <2>1. PICK k \in Key : \E j \in 1 .. Cardinality(M(k)) : y = <<k, j>>
    BY <1>2
  <2>2. PICK j \in 1 .. Cardinality(M(k)) : y = <<k, j>>
    BY <2>1
  <2>3. Nth(M(k), j) \in M(k) /\ Rank(M(k), Nth(M(k), j)) = j
    BY <1>1, NthOfRank
  <2>. DEFINE x == <<hash_function[k], Nth(M(k), j)>>
  <2>4. hash_function[k] \in Slot
    BY BucketType DEF IInv
  <2>5. Nth(M(k), j) \in DOMAIN table[hash_function[k]] /\ key(x) = k
    BY <2>3 DEF M, Matching, Bucket, key
  <2>6. x \in NodeIds
    BY <2>4, <2>5 DEF NodeIds, NodesOf
  <2>7. f[x] = <<k, j>>
    BY <2>3, <2>5, <2>6
  <2>. QED
    BY <2>2, <2>6, <2>7
<1>. HIDE DEF f
<1>8. f \in Bijection(NodeIds, V)
  BY <1>5, <1>6, <1>7 DEF Bijection, Injection, Surjection, IsInjective
<1>9. Cardinality(V) = Cardinality(NodeIds)
  BY <1>8, FS_Bijection DEF ExistsBijection, IInv
<1>. QED
  BY <1>9, NodeCountIs, SameCardinality DEF V

\* Every command of the engine is a step of the stacks or a stutter.
LEMMA NextIsStackNext ==
    ASSUME IInv, [Next]_vars
    PROVE  [Stack!Next]_(Stack!vars)
<1>0. SUCCESS = Stack!SUCCESS /\ FAILED = Stack!FAILED /\ NO_EXIST = Stack!NO_EXIST
  BY DEF SUCCESS, FAILED, NO_EXIST, Stack!SUCCESS, Stack!FAILED, Stack!NO_EXIST
<1>1. ASSUME NEW k \in Key, NEW v \in Value, CmdDSET(k, v) PROVE Stack!Next
  <2>1. PICK ret \in {0, -1} : /\ put_kv_dhashtable(k, v, ret)
                               /\ Answer("SET", k, v, StatusReply(ret))
    BY <1>1 DEF CmdDSET
  <2>2. CASE ret = 0
    <3>1. 0 # -1
      OBVIOUS
    <3>2. table' = [table EXCEPT ![hash_function[k]] = Linked(@, [key |-> k, value |-> v])]
      BY <2>1, <2>2, <3>1, Zenon DEF put_kv_dhashtable
    <3>3. Answer("SET", k, v, SUCCESS)
      BY <2>1, <2>2 DEF StatusReply
    <3>4. Stack!Push(k, v)
      BY <3>2, <3>3, LinkIsPush
    <3>. QED
      BY <3>4 DEF Stack!Next
  <2>3. CASE ret = -1
    <3>1. 0 # -1
      OBVIOUS
    <3>2. /\ \E newNode, newKey, newValue \in Alloc : ~ (newNode /\ newKey /\ newValue)
          /\ table' = table
      BY <2>1, <2>3, <3>1, Zenon DEF put_kv_dhashtable, store
    <3>3. MallocMayFail
      BY <3>2, DHashAssumption, Zenon DEF Alloc
    <3>4. Stack!Answer("SET", k, v, Stack!FAILED)
      BY <1>0, <2>1, <2>3 DEF Answer, Stack!Answer, StatusReply
    <3>5. Stack!PushFails(k, v)
      BY <3>2, <3>3, <3>4, SameStacks DEF Stack!PushFails, Stacks
    <3>. QED
      BY <3>5 DEF Stack!Next
  <2>. QED
    BY <2>2, <2>3
<1>2. ASSUME NEW k \in Key, CmdDDELETE(k) PROVE Stack!Next
  <2>1. PICK ret \in {0, -1} : /\ delete_kv_dhashtable(k, ret)
                               /\ Answer("DELETE", k, NULL, StatusReply(ret))
    BY <1>2 DEF CmdDDELETE
  <2>2. CASE ret = 0
    <3>1. /\ Matching(Bucket(k), k) # {}
          /\ table' = [table EXCEPT ![hash_function[k]] =
                           Removed(@, First(Matching(Bucket(k), k)))]
      BY <2>1, <2>2 DEF delete_kv_dhashtable
    <3>2. Answer("DELETE", k, NULL, SUCCESS)
      BY <2>1, <2>2 DEF StatusReply
    <3>3. Stack!Pop(k)
      BY <3>1, <3>2, UnlinkIsPop
    <3>. QED
      BY <3>3 DEF Stack!Next
  <2>3. CASE ret = -1
    <3>1. Matching(Bucket(k), k) = {} /\ table' = table
      BY <2>1, <2>3 DEF delete_kv_dhashtable, store
    <3>2. ValuesOf(k) = <<>>
      BY <3>1, TopIsGet
    <3>3. Stack!Answer("DELETE", k, NULL, Stack!FAILED)
      BY <1>0, <2>1, <2>3 DEF Answer, Stack!Answer, StatusReply
    <3>4. Stack!PopEmpty(k)
      BY <3>1, <3>2, <3>3, SameStacks DEF Stack!PopEmpty, Stacks
    <3>. QED
      BY <3>4 DEF Stack!Next
  <2>. QED
    BY <2>2, <2>3
<1>3. ASSUME NEW k \in Key, CmdDGET(k) PROVE Stack!Next
  <2>1. GetReply(get_kv_dhashtable(k), NULL) = Stack!GetReply(Stack!Top(k), NULL)
    BY <1>0, TopIsGet DEF GetReply, Stack!GetReply, ValueReply, Stack!ValueReply
  <2>2. Stack!Get(k)
    BY <1>3, <2>1, SameStacks DEF CmdDGET, Stack!Get, Answer, Stack!Answer, store, Stacks
  <2>. QED
    BY <2>2 DEF Stack!Next
<1>4. ASSUME NEW k \in Key, CmdDEXIST(k) PROVE Stack!Next
  <2>1. ExistReply(exist_kv_dhashtable(k)) = Stack!ExistReply(Stack!Top(k) # NULL)
    BY TopIsGet DEF ExistReply, Stack!ExistReply, IntReply, Stack!IntReply
  <2>2. Stack!Exist(k)
    BY <1>4, <2>1, SameStacks DEF CmdDEXIST, Stack!Exist, Answer, Stack!Answer, store, Stacks
  <2>. QED
    BY <2>2 DEF Stack!Next
<1>5. ASSUME CmdDCOUNT PROVE Stack!Next
  <2>1. Stack!Size = NodeCount
    BY SizeIsNodeCount DEF Stack!Size, Stacks
  <2>2. IntReply(count_kv_dhashtable) = Stack!IntReply(Stack!Size)
    BY <2>1 DEF count_kv_dhashtable, IntReply, Stack!IntReply
  <2>3. Stack!Count
    BY <1>5, <2>2, SameStacks DEF CmdDCOUNT, Stack!Count, Answer, Stack!Answer, store, Stacks
  <2>. QED
    BY <2>3 DEF Stack!Next
<1>6. ASSUME NullToken \/ UNCHANGED vars PROVE UNCHANGED Stack!vars
  <2>1. table' = table /\ reply' = reply
    BY <1>6 DEF NullToken, vars
  <2>. QED
    BY <2>1, SameStacks DEF Stack!vars, Stacks
<1>. QED
  BY <1>1, <1>2, <1>3, <1>4, <1>5, <1>6 DEF Next

\* An empty table is a table of empty stacks.
LEMMA InitIsStackInit == Init => Stack!Init
<1>. SUFFICES ASSUME Init PROVE Stack!Init
  OBVIOUS
<1>1. \A k \in Key : ValuesOf(k) = <<>>
  <2>. TAKE k \in Key
  <2>1. Matching(Bucket(k), k) = {}
    BY DHashAssumption DEF Init, init_dhashtable, Matching, Bucket
  <2>. QED
    BY <2>1, InitIInv, TopIsGet
<1>. QED
  BY <1>1 DEF Init, Stack!Init, NO_EXIST, Stack!NO_EXIST

\* The dhash engine is a stack of values per key: every answer of DSET, DGET,
\* DCOUNT, DDELETE and DEXIST is the one of StackMap, for every hash function,
\* however many nodes of other keys lie between those of a key.
THEOREM Refinement == Spec => Refines
<1>1. Init => Stack!Init
  BY InitIsStackInit
<1>2. IInv /\ [Next]_vars => [Stack!Next]_(Stack!vars)
  BY NextIsStackNext
<1>. QED
  BY <1>1, <1>2, Invariance, PTL DEF Spec, Stack!Spec, Refines
=============================================================================
