-------------------------- MODULE HashTableProofs --------------------------
(***************************************************************************)
(* HashTable for every set of keys and values, every number of buckets and *)
(* every hash function.  The checked invariants are inductive together:    *)
(* count stays a natural number because it is exact, a DELETE finds the    *)
(* only node of its key because the chains are well formed, and a held     *)
(* mutex keeps the table as it was when the bucket was empty.  Only the    *)
(* finiteness of the table has to be added.                                *)
(***************************************************************************)
EXTENDS HashTable, CommonLemmas

NodeIds == NodesOf(Slot, nodes)

IInv ==
    /\ ChainsWellFormed
    /\ CountExact
    /\ FullTableNeverBlocks
    /\ IsFiniteSet(NodeIds)

\* CountExact speaks of the nodes of the table.
LEMMA CountIsNodes == CountExact <=> count = Cardinality(NodeIds)
BY DEF CountExact, NodeIds, NodesOf

\* What TypeOK says of a bucket and of a node in it.
LEMMA ChainTypes ==
    ASSUME TypeOK, NEW s \in Slot
    PROVE  /\ nodes[s] \in Seq(Node)
           /\ Len(nodes[s]) \in Nat
           /\ DOMAIN nodes[s] = 1 .. Len(nodes[s])
           /\ \A i \in DOMAIN nodes[s] : nodes[s][i] \in Node
BY DEF TypeOK

\* A key has one node at most, in its own bucket, so that the first match
\* of a search is the only one.
LEMMA OneMatch ==
    ASSUME ChainsWellFormed, NEW k \in Key, Matching(Bucket(k), k) # {}
    PROVE  /\ Matching(Bucket(k), k) = {First(Matching(Bucket(k), k))}
           /\ First(Matching(Bucket(k), k)) \in DOMAIN Bucket(k)
           /\ Bucket(k)[First(Matching(Bucket(k), k))].key = k
<1>1. Hash[k] \in Slot
  BY HashAssumption
<1>2. PICK i \in DOMAIN Bucket(k) : Bucket(k)[i].key = k
  BY DEF Matching
<1>3. Matching(Bucket(k), k) = {i}
  BY <1>1, <1>2 DEF ChainsWellFormed, Bucket
<1>4. i \in Nat
  BY <1>1, <1>2, ChainTypes DEF ChainsWellFormed, Bucket
<1>5. First({i}) = i
  BY <1>4 DEF First
<1>. QED
  BY <1>2, <1>3, <1>5

\* The empty table satisfies the invariant.
LEMMA InitIInv == Init => IInv
<1>. SUFFICES ASSUME Init PROVE IInv
  OBVIOUS
<1>1. \A s \in Slot : nodes[s] = <<>>
  BY DEF Init, init_hashtable
<1>2. TypeOK
  BY DEF Init, init_hashtable, TypeOK
<1>3. NodeIds = {}
  BY <1>1 DEF NodeIds, NodesOf
<1>4. CountExact /\ IsFiniteSet(NodeIds)
  BY <1>3, FS_EmptySet, CountIsNodes DEF Init, init_hashtable
<1>. QED
  BY <1>1, <1>2, <1>4 DEF IInv, ChainsWellFormed, FullTableNeverBlocks, Init, init_hashtable

\* A put that links a node keeps the invariant.
LEMMA LinkIInv ==
    ASSUME IInv, NEW k \in Key, NEW v \in Value, lock = "free", ~ KeyPresent(k),
           nodes' = [nodes EXCEPT ![Hash[k]] = <<create_node(k, v)>> \o @],
           count' = count + 1, UNCHANGED <<lock, server>>
    PROVE  IInv'
<1>. DEFINE s == Hash[k]
            n == create_node(k, v)
            chain == nodes[s]
            new == <<n>> \o chain
<1>1. s \in Slot /\ TypeOK /\ nodes \in [Slot -> Seq(Node)]
  BY HashAssumption DEF IInv, ChainsWellFormed, TypeOK
<1>2. n \in Node /\ n.key = NodeKey(k, v)
  BY HashAssumption DEF create_node, NodeKey, Node
<1>3. chain \in Seq(Node)
  BY <1>1
<1>4. /\ new \in Seq(Node)
      /\ Len(new) = Len(chain) + 1
      /\ DOMAIN new = 1 .. Len(chain) + 1
      /\ new[1] = n
      /\ \A i \in 2 .. Len(chain) + 1 : new[i] = chain[i - 1]
  BY <1>2, <1>3, LinkFront
<1>. HIDE DEF n, new
<1>5. nodes' = [nodes EXCEPT ![s] = new]
  BY DEF new, n
<1>6. nodes' \in [Slot -> Seq(Node)] /\ nodes'[s] = new
      /\ \A q \in Slot \ {s} : nodes'[q] = nodes[q]
  BY <1>1, <1>4, <1>5
<1>. HIDE DEF s
<1>7. Longer(Slot, nodes, nodes', s)
  BY <1>1, <1>4, <1>6 DEF Longer, HasChains
<1>8. /\ IsFiniteSet(NodeIds')
      /\ Cardinality(NodeIds') = Cardinality(NodeIds) + 1
      /\ Cardinality(NodeIds) \in Nat
  BY <1>7, LinkCounts DEF IInv, NodeIds
<1>9. CountExact'
  BY <1>8, CountIsNodes DEF IInv, CountExact, NodeIds, NodesOf
<1>10. TypeOK'
  BY <1>1, <1>6 DEF TypeOK
<1>11. FullTableNeverBlocks'
  BY DEF FullTableNeverBlocks
<1>12. \A q \in Slot : \A i \in DOMAIN nodes'[q] :
          nodes'[q][i].key \in Key =>
             /\ Hash[nodes'[q][i].key] = q
             /\ Matching(nodes'[q], nodes'[q][i].key) = {i}
  <2>. SUFFICES ASSUME NEW q \in Slot, NEW i \in DOMAIN nodes'[q],
                       nodes'[q][i].key \in Key
                PROVE  /\ Hash[nodes'[q][i].key] = q
                       /\ Matching(nodes'[q], nodes'[q][i].key) = {i}
    OBVIOUS
  <2>1. CASE q # s
    <3>1. nodes'[q] = nodes[q]
      BY <2>1, <1>6
    <3>. QED
      BY <3>1 DEF IInv, ChainsWellFormed
  <2>2. CASE q = s
    <3>1. \A j \in DOMAIN chain : chain[j].key # k
      BY DEF KeyPresent, Bucket, Matching, s
    <3>2. n.key \in Key => n.key = k
      BY <1>2, HashAssumption DEF NodeKey
    <3>3. DOMAIN chain = 1 .. Len(chain) /\ Len(chain) \in Nat
      BY <1>3
    <3>4. CASE i = 1
      <4>1. new[i].key = k
        BY <1>4, <1>6, <2>2, <3>2, <3>4
      <4>2. \A j \in DOMAIN new : j # 1 => new[j].key # k
        <5>. SUFFICES ASSUME NEW j \in DOMAIN new, j # 1 PROVE new[j].key # k
          OBVIOUS
        <5>1. j - 1 \in DOMAIN chain /\ new[j] = chain[j - 1]
          BY <1>4, <3>3
        <5>. QED
          BY <5>1, <3>1
      <4>. QED
        BY <1>4, <1>6, <2>2, <3>4, <4>1, <4>2 DEF Matching, s
    <3>5. CASE i # 1
      <4>1. i - 1 \in DOMAIN chain /\ new[i] = chain[i - 1] /\ i \in Nat
        BY <1>4, <1>6, <2>2, <3>3, <3>5
      <4>2. /\ chain[i - 1].key \in Key
            /\ Hash[chain[i - 1].key] = s
            /\ Matching(chain, chain[i - 1].key) = {i - 1}
        BY <1>1, <1>6, <2>2, <4>1 DEF IInv, ChainsWellFormed
      <4>3. \A j \in DOMAIN new : new[j].key = chain[i - 1].key <=> j = i
        <5>. SUFFICES ASSUME NEW j \in DOMAIN new
                      PROVE  new[j].key = chain[i - 1].key <=> j = i
          OBVIOUS
        <5>1. CASE j = 1
          BY <5>1, <1>4, <3>1, <3>2, <3>5, <4>1, <4>2
        <5>2. CASE j # 1
          <6>1. j - 1 \in DOMAIN chain /\ new[j] = chain[j - 1]
            BY <5>2, <1>4, <3>3
          <6>2. chain[j - 1].key = chain[i - 1].key <=> j - 1 = i - 1
            BY <6>1, <4>1, <4>2 DEF Matching
          <6>. QED
            BY <6>1, <6>2, <1>4, <4>1
        <5>. QED
          BY <5>1, <5>2
      <4>4. Matching(new, chain[i - 1].key) = {i}
        BY <1>6, <2>2, <4>3 DEF Matching
      <4>. QED
        BY <1>6, <2>2, <4>1, <4>2, <4>4
    <3>. QED
      BY <3>4, <3>5
  <2>. QED
    BY <2>1, <2>2
<1>13. ChainsWellFormed'
  BY <1>10, <1>12 DEF ChainsWellFormed, Matching
<1>. QED
  BY <1>8, <1>9, <1>11, <1>13 DEF IInv

\* A delete that unlinks the node of its key keeps the invariant.
LEMMA UnlinkIInv ==
    ASSUME IInv, NEW k \in Key, Matching(Bucket(k), k) # {}, lock = "free",
           nodes' = [nodes EXCEPT ![Hash[k]] = Unlink(@, First(Matching(Bucket(k), k)))],
           count' = count - 1, UNCHANGED <<lock, server>>
    PROVE  IInv'
<1>. DEFINE s == Hash[k]
            at == First(Matching(Bucket(k), k))
            chain == nodes[s]
            new == Unlink(chain, at)
<1>1. s \in Slot /\ TypeOK /\ nodes \in [Slot -> Seq(Node)] /\ chain \in Seq(Node)
  BY HashAssumption DEF IInv, ChainsWellFormed, TypeOK
<1>2. at \in 1 .. Len(chain) /\ Len(chain) \in Nat
  <2>1. at \in DOMAIN Bucket(k)
    BY OneMatch DEF IInv
  <2>2. Bucket(k) = chain
    BY DEF Bucket
  <2>. HIDE DEF at
  <2>. QED
    BY <1>1, <2>1, <2>2
<1>3. nodes' = [nodes EXCEPT ![s] = new]
  OBVIOUS
<1>. HIDE DEF at
<1>4. /\ new \in Seq(Node)
      /\ Len(new) = Len(chain) - 1 /\ Len(new) \in Nat
      /\ DOMAIN new = 1 .. Len(chain) - 1
      /\ \A j \in 1 .. Len(chain) - 1 : new[j] = IF j < at THEN chain[j] ELSE chain[j + 1]
  BY <1>1, <1>2, UnlinkAt DEF Unlink
<1>. HIDE DEF s, new
<1>5. nodes' \in [Slot -> Seq(Node)] /\ nodes'[s] = new
      /\ \A q \in Slot \ {s} : nodes'[q] = nodes[q]
  BY <1>1, <1>3, <1>4
<1>6. Longer(Slot, nodes', nodes, s)
  BY <1>1, <1>2, <1>4, <1>5 DEF Longer, HasChains
<1>7. /\ IsFiniteSet(NodeIds')
      /\ Cardinality(NodeIds') = Cardinality(NodeIds) - 1
      /\ Cardinality(NodeIds') \in Nat
      /\ Cardinality(NodeIds) \in Nat
  BY <1>6, UnlinkCounts DEF IInv, NodeIds
<1>8. CountExact' /\ count' \in Nat
  BY <1>7, CountIsNodes DEF IInv, CountExact, NodeIds, NodesOf
<1>9. TypeOK'
  BY <1>1, <1>5, <1>8 DEF TypeOK
<1>10. FullTableNeverBlocks'
  BY DEF FullTableNeverBlocks
<1>11. \A q \in Slot : \A i \in DOMAIN nodes'[q] :
          nodes'[q][i].key \in Key =>
             /\ Hash[nodes'[q][i].key] = q
             /\ Matching(nodes'[q], nodes'[q][i].key) = {i}
  <2>. SUFFICES ASSUME NEW q \in Slot, NEW i \in DOMAIN nodes'[q],
                       nodes'[q][i].key \in Key
                PROVE  /\ Hash[nodes'[q][i].key] = q
                       /\ Matching(nodes'[q], nodes'[q][i].key) = {i}
    OBVIOUS
  <2>1. CASE q # s
    <3>1. nodes'[q] = nodes[q]
      BY <2>1, <1>5
    <3>. QED
      BY <3>1 DEF IInv, ChainsWellFormed
  <2>2. CASE q = s
    <3>. DEFINE old(j) == IF j < at THEN j ELSE j + 1
    <3>1. \A j \in DOMAIN new : old(j) \in DOMAIN chain /\ new[j] = chain[old(j)]
      BY <1>1, <1>2, <1>4
    <3>2. \A j \in DOMAIN new : old(j) = old(i) => j = i
      BY <1>2, <1>4, <1>5, <2>2
    <3>3. i \in DOMAIN new /\ chain[old(i)].key \in Key
      BY <1>5, <2>2, <3>1
    <3>. HIDE DEF old
    <3>4. Hash[chain[old(i)].key] = s /\ Matching(chain, chain[old(i)].key) = {old(i)}
      BY <1>1, <3>1, <3>3 DEF IInv, ChainsWellFormed
    <3>5. Matching(new, new[i].key) = {i}
      BY <3>1, <3>2, <3>3, <3>4 DEF Matching
    <3>. QED
      BY <1>5, <2>2, <3>1, <3>3, <3>4, <3>5
  <2>. QED
    BY <2>1, <2>2
<1>12. ChainsWellFormed'
  BY <1>9, <1>11 DEF ChainsWellFormed, Matching
<1>. QED
  BY <1>7, <1>8, <1>10, <1>12 DEF IInv

\* A step that leaves the table alone keeps the invariant if it says why the
\* mutex may be held after it.
LEMMA SameTableIInv ==
    ASSUME IInv, UNCHANGED <<nodes, count>>, lock' \in {"free", "held"},
           server' \in {"running", "blocked", "crashed"}, FullTableNeverBlocks'
    PROVE  IInv'
BY DEF IInv, ChainsWellFormed, TypeOK, CountExact, NodeIds, NodesOf, Matching

\* Every command, every wait for the mutex and every crash keeps the
\* invariant.
LEMMA NextIInv == IInv /\ [Next]_vars => IInv'
<1>. SUFFICES ASSUME IInv, [Next]_vars PROVE IInv'
  OBVIOUS
<1>0. TypeOK /\ FullTableNeverBlocks
  BY DEF IInv, ChainsWellFormed
<1>1. ASSUME UNCHANGED <<nodes, count, lock, server>> PROVE IInv'
  BY <1>0, <1>1, SameTableIInv DEF TypeOK, FullTableNeverBlocks
<1>2. ASSUME NEW k \in Key \cup {NULL}, NEW v \in Value \cup {NULL}, CmdHSET(k, v)
      PROVE  IInv'
  <2>1. PICK ret \in {0, 1, -1} : put_kv_hashtable(k, v, ret)
    BY <1>2 DEF CmdHSET
  <2>2. UNCHANGED server
    BY <1>2 DEF CmdHSET, Running
  <2>3. CASE UNCHANGED table
    BY <1>1, <2>2, <2>3 DEF table
  <2>4. CASE /\ k # NULL /\ v # NULL /\ lock = "free"
             /\ ~ KeyPresent(k)
             /\ nodes' = [nodes EXCEPT ![Hash[k]] = <<create_node(k, v)>> \o @]
             /\ count' = count + 1
             /\ UNCHANGED lock
    BY <2>2, <2>4, LinkIInv
  <2>. QED
    BY <2>1, <2>3, <2>4 DEF put_kv_hashtable
<1>3. ASSUME NEW k \in Key \cup {NULL}, CmdHDELETE(k) PROVE IInv'
  <2>1. PICK ret \in {0, -1, -2} : delete_kv_hashtable(k, ret)
    BY <1>3 DEF CmdHDELETE
  <2>2. UNCHANGED server
    BY <1>3 DEF CmdHDELETE, Running
  <2>3. CASE UNCHANGED table
    BY <1>1, <2>2, <2>3 DEF table
  <2>4. CASE k # NULL /\ lock' = MissLock(Bucket(k)) /\ UNCHANGED <<nodes, count>>
    <3>1. Hash[k] \in Slot
      BY <2>4, HashAssumption
    <3>2. lock' \in {"free", "held"} /\ FullTableNeverBlocks'
      BY <2>4, <3>1 DEF MissLock, Bucket, FullTableNeverBlocks
    <3>. QED
      BY <1>0, <2>2, <2>4, <3>2, SameTableIInv DEF TypeOK
  <2>5. CASE /\ k # NULL /\ lock = "free"
             /\ Matching(Bucket(k), k) # {}
             /\ nodes' = [nodes EXCEPT ![Hash[k]] = Unlink(@, First(Matching(Bucket(k), k)))]
             /\ count' = count - 1
             /\ UNCHANGED lock
    BY <2>2, <2>5, UnlinkIInv
  <2>. QED
    BY <2>1, <2>3, <2>4, <2>5 DEF delete_kv_hashtable, CountAfterDelete
<1>4. ASSUME \/ \E k \in Key \cup {NULL} : CmdHGET(k) \/ CmdHEXIST(k)
             \/ CmdHCOUNT
             \/ UNCHANGED vars
      PROVE  IInv'
  <2>1. UNCHANGED <<nodes, count, lock, server>>
    BY <1>4 DEF CmdHGET, CmdHEXIST, CmdHCOUNT, Running, vars, table
  <2>. QED
    BY <1>1, <2>1
<1>5. ASSUME Relock PROVE IInv'
  BY <1>0, <1>5, SameTableIInv DEF Relock, FullTableNeverBlocks, TypeOK
<1>6. ASSUME NEW k \in Key, NEW v \in Value, CreateNodeFails(k, v) PROVE IInv'
  BY <1>0, <1>6, SameTableIInv DEF CreateNodeFails, FullTableNeverBlocks, TypeOK
<1>. QED
  BY <1>2, <1>3, <1>4, <1>5, <1>6 DEF Next

\* Every reachable state of the hash engine satisfies the invariant.
THEOREM Invariance == Spec => []IInv
BY InitIInv, NextIInv, PTL DEF Spec

\* Every node hangs in the bucket its key is looked for in and no key has two
\* (put_kv_hashtable, delete_kv_hashtable), for every hash function.
THEOREM ChainsStayWellFormed == Spec => []ChainsWellFormed
<1>1. IInv => ChainsWellFormed
  BY DEF IInv
<1>. QED
  BY <1>1, Invariance, PTL

\* HCOUNT reads a counter that is the number of nodes in the chains.
THEOREM CountIsExact == Spec => []CountExact
<1>1. IInv => CountExact
  BY DEF IInv
<1>. QED
  BY <1>1, Invariance, PTL

\* The mutex stays held only after a HDELETE in an empty bucket: a table with
\* a node in every bucket never blocks the server.
THEOREM BlocksOnlyOnEmptyBucket == Spec => []FullTableNeverBlocks
<1>1. IInv => FullTableNeverBlocks
  BY DEF IInv
<1>. QED
  BY <1>1, Invariance, PTL
-----------------------------------------------------------------------------
(***************************************************************************)
(* The hash engine implements KVMap, for keys below MAX_KEY_LEN bytes.     *)
(***************************************************************************)

\* HGET finds the value of the node of its key, and NULL exactly when no node
\* of the key's bucket has the key.
GetIsLookup ==
    \A k \in Key :
       /\ \A i \in DOMAIN nodes[Hash[k]] : nodes[Hash[k]][i].key = k =>
             get_kv_hashtable(k) = nodes[Hash[k]][i].value /\ get_kv_hashtable(k) # NULL
       /\ (\A i \in DOMAIN nodes[Hash[k]] : nodes[Hash[k]][i].key # k) =>
             get_kv_hashtable(k) = NULL

\* HGET is that lookup before and after every step.
LEMMA GetIsLookupHolds == (IInv => GetIsLookup) /\ (IInv' => GetIsLookup')
<1>1. IInv => GetIsLookup
  <2>. SUFFICES ASSUME IInv, NEW k \in Key
                PROVE  /\ \A i \in DOMAIN nodes[Hash[k]] : nodes[Hash[k]][i].key = k =>
                             /\ get_kv_hashtable(k) = nodes[Hash[k]][i].value
                             /\ get_kv_hashtable(k) # NULL
                       /\ (\A i \in DOMAIN nodes[Hash[k]] : nodes[Hash[k]][i].key # k) =>
                             get_kv_hashtable(k) = NULL
    BY DEF GetIsLookup
  <2>1. k # NULL /\ Hash[k] \in Slot
    BY HashAssumption
  <2>2. CASE Matching(Bucket(k), k) = {}
    BY <2>2 DEF get_kv_hashtable, Matching, Bucket
  <2>3. CASE Matching(Bucket(k), k) # {}
    <3>. DEFINE at == First(Matching(Bucket(k), k))
    <3>1. Matching(Bucket(k), k) = {at} /\ at \in DOMAIN Bucket(k) /\ Bucket(k)[at].key = k
      BY <2>3, OneMatch DEF IInv
    <3>2. get_kv_hashtable(k) = Bucket(k)[at].value
      BY <2>1, <2>3 DEF get_kv_hashtable
    <3>. HIDE DEF at
    <3>3. Bucket(k)[at].value \in Value
      BY <2>1, <3>1, ChainTypes DEF IInv, ChainsWellFormed, Bucket, Node
    <3>4. Bucket(k)[at].value # NULL
      BY <3>3, HashAssumption
    <3>5. \A i \in DOMAIN Bucket(k) : Bucket(k)[i].key = k => i = at
      BY <3>1 DEF Matching
    <3>. QED
      BY <3>1, <3>2, <3>4, <3>5 DEF Bucket
  <2>. QED
    BY <2>2, <2>3
<1>. QED
  BY <1>1, PTL

\* The abstract map holds as many keys as the table has nodes.
LEMMA StoredCount ==
    ASSUME LongKey = {}, IInv
    PROVE  Cardinality(Map!Stored) = count
<1>. DEFINE f == [x \in NodeIds |-> nodes[x[1]][x[2]].key]
<1>1. \A x \in NodeIds : /\ x[1] \in Slot /\ x[2] \in DOMAIN nodes[x[1]]
                         /\ x = <<x[1], x[2]>>
  BY DEF NodeIds, NodesOf
<1>2. Map!Stored = {k \in Key : get_kv_hashtable(k) # NULL}
  BY DEF Map!Stored
<1>3. \A x \in NodeIds : /\ f[x] \in Key
                         /\ Hash[f[x]] = x[1]
                         /\ Matching(nodes[x[1]], f[x]) = {x[2]}
  <2>. SUFFICES ASSUME NEW x \in NodeIds
                PROVE  /\ f[x] \in Key
                       /\ Hash[f[x]] = x[1]
                       /\ Matching(nodes[x[1]], f[x]) = {x[2]}
    OBVIOUS
  <2>1. nodes[x[1]][x[2]] \in Node
    BY <1>1, ChainTypes DEF IInv, ChainsWellFormed
  <2>2. f[x] = nodes[x[1]][x[2]].key /\ f[x] \in Key
    BY <2>1 DEF Node
  <2>. QED
    BY <1>1, <2>2 DEF IInv, ChainsWellFormed
<1>4. f \in [NodeIds -> Map!Stored]
  <2>. SUFFICES ASSUME NEW x \in NodeIds PROVE f[x] \in Map!Stored
    OBVIOUS
  <2>1. x[2] \in DOMAIN nodes[Hash[f[x]]] /\ nodes[Hash[f[x]]][x[2]].key = f[x]
    BY <1>1, <1>3
  <2>. QED
    BY <1>2, <1>3, <2>1, GetIsLookupHolds DEF GetIsLookup
<1>. HIDE DEF f
<1>5. \A x, y \in NodeIds : f[x] = f[y] => x = y
  BY <1>1, <1>3
<1>6. \A k \in Map!Stored : \E x \in NodeIds : f[x] = k
  <2>. SUFFICES ASSUME NEW k \in Map!Stored PROVE \E x \in NodeIds : f[x] = k
    OBVIOUS
  <2>1. k \in Key /\ get_kv_hashtable(k) # NULL /\ Hash[k] \in Slot
    BY <1>2, HashAssumption
  <2>2. PICK i \in DOMAIN nodes[Hash[k]] : nodes[Hash[k]][i].key = k
    BY <2>1, GetIsLookupHolds DEF GetIsLookup
  <2>3. <<Hash[k], i>> \in NodeIds
    BY <2>1, <2>2 DEF NodeIds, NodesOf
  <2>4. f[<<Hash[k], i>>] = k
    BY <2>2, <2>3 DEF f
  <2>. QED
    BY <2>3, <2>4
<1>7. f \in Bijection(NodeIds, Map!Stored)
  BY <1>4, <1>5, <1>6 DEF Bijection, Injection, Surjection, IsInjective
<1>8. Cardinality(Map!Stored) = Cardinality(NodeIds)
  BY <1>7, FS_Bijection DEF ExistsBijection, IInv
<1>. QED
  BY <1>8, CountIsNodes DEF IInv

\* The map's instance of FiniteSets is ours.
LEMMA SameCardinality == \A S : Map!Cardinality(S) = Cardinality(S)
BY Zenon DEF Map!Cardinality, Cardinality

\* A step that leaves the chains alone leaves the abstract map alone.
LEMMA SameMap ==
    ASSUME nodes' = nodes
    PROVE  [k \in Key |-> get_kv_hashtable(k)]' = [k \in Key |-> get_kv_hashtable(k)]
BY DEF get_kv_hashtable, Bucket, Matching, First

\* Two tables in which a key has the same node, or none, map it alike.
LEMMA SameLookup ==
    ASSUME IInv, IInv', NEW k \in Key,
           \A n \in Node : (\E i \in DOMAIN nodes[Hash[k]] : nodes[Hash[k]][i] = n /\ n.key = k)
                       <=> (\E i \in DOMAIN nodes'[Hash[k]] : nodes'[Hash[k]][i] = n /\ n.key = k)
    PROVE  get_kv_hashtable(k)' = get_kv_hashtable(k)
<1>1. Hash[k] \in Slot
  BY HashAssumption
<1>2. \A i \in DOMAIN nodes[Hash[k]] : nodes[Hash[k]][i] \in Node
  BY <1>1, ChainTypes DEF IInv, ChainsWellFormed
<1>3. \A i \in DOMAIN nodes'[Hash[k]] : nodes'[Hash[k]][i] \in Node
  BY <1>1 DEF IInv, ChainsWellFormed, TypeOK
<1>4. CASE \E i \in DOMAIN nodes[Hash[k]] : nodes[Hash[k]][i].key = k
  <2>1. PICK i \in DOMAIN nodes[Hash[k]] : nodes[Hash[k]][i].key = k
    BY <1>4
  <2>2. PICK j \in DOMAIN nodes'[Hash[k]] : nodes'[Hash[k]][j] = nodes[Hash[k]][i]
    BY <1>2, <2>1
  <2>3. get_kv_hashtable(k) = nodes[Hash[k]][i].value
    BY <2>1, GetIsLookupHolds DEF GetIsLookup
  <2>4. get_kv_hashtable(k)' = nodes'[Hash[k]][j].value
    BY <2>1, <2>2, GetIsLookupHolds DEF GetIsLookup
  <2>. QED
    BY <2>2, <2>3, <2>4
<1>5. CASE \A i \in DOMAIN nodes[Hash[k]] : nodes[Hash[k]][i].key # k
  <2>1. \A i \in DOMAIN nodes'[Hash[k]] : nodes'[Hash[k]][i].key # k
    BY <1>3, <1>5
  <2>2. get_kv_hashtable(k)' = NULL /\ get_kv_hashtable(k) = NULL
    BY <1>5, <2>1, GetIsLookupHolds DEF GetIsLookup
  <2>. QED
    BY <2>2
<1>. QED
  BY <1>4, <1>5

\* A HSET that links a node is SetNew of the map.
LEMMA LinkIsSetNew ==
    ASSUME LongKey = {}, IInv, IInv', NEW k \in Key, NEW v \in Value, ~ KeyPresent(k),
           nodes' = [nodes EXCEPT ![Hash[k]] = <<create_node(k, v)>> \o @],
           Answer("SET", k, v, SUCCESS)
    PROVE  Map!SetNew(k, v)
<1>. DEFINE s == Hash[k]
            n == [key |-> k, value |-> v]
            chain == nodes[s]
            new == <<n>> \o chain
<1>1. s \in Slot /\ nodes \in [Slot -> Seq(Node)] /\ n \in Node /\ create_node(k, v) = n
  BY HashAssumption DEF IInv, ChainsWellFormed, TypeOK, Node, create_node, NodeKey
<1>2. /\ DOMAIN new = 1 .. Len(chain) + 1
      /\ new[1] = n
      /\ \A i \in 1 .. Len(chain) : new[i + 1] = chain[i]
      /\ \A i \in 2 .. Len(chain) + 1 : new[i] = chain[i - 1]
      /\ DOMAIN chain = 1 .. Len(chain) /\ Len(chain) \in Nat
  BY <1>1, LinkFront
<1>. HIDE DEF new
<1>3. nodes'[s] = new /\ \A q \in Slot \ {s} : nodes'[q] = nodes[q]
  BY <1>1 DEF new
<1>4. get_kv_hashtable(k) = NULL
  BY DEF get_kv_hashtable, KeyPresent
<1>5. get_kv_hashtable(k)' = v
  <2>1. 1 \in DOMAIN nodes'[Hash[k]] /\ nodes'[Hash[k]][1] = n
    BY <1>2, <1>3
  <2>. QED
    BY <2>1, GetIsLookupHolds DEF GetIsLookup
<1>6. \A q \in Key : q # k => get_kv_hashtable(q)' = get_kv_hashtable(q)
  <2>. SUFFICES ASSUME NEW q \in Key, q # k
                PROVE  get_kv_hashtable(q)' = get_kv_hashtable(q)
    OBVIOUS
  <2>1. Hash[q] \in Slot
    BY HashAssumption
  <2>2. CASE Hash[q] # s
    <3>1. nodes'[Hash[q]] = nodes[Hash[q]]
      BY <1>3, <2>1, <2>2
    <3>. QED
      BY <3>1, SameLookup
  <2>3. CASE Hash[q] = s
    <3>1. ASSUME NEW m, m.key = q
          PROVE  (\E i \in DOMAIN chain : chain[i] = m) <=> (\E i \in DOMAIN new : new[i] = m)
      <4>1. ASSUME NEW i \in DOMAIN chain, chain[i] = m
            PROVE  \E j \in DOMAIN new : new[j] = m
        <5>1. i + 1 \in DOMAIN new /\ new[i + 1] = chain[i]
          BY <1>2
        <5>. QED
          BY <4>1, <5>1
      <4>2. ASSUME NEW i \in DOMAIN new, new[i] = m
            PROVE  \E j \in DOMAIN chain : chain[j] = m
        <5>1. i # 1
          BY <1>2, <3>1, <4>2
        <5>2. i - 1 \in DOMAIN chain /\ new[i] = chain[i - 1]
          BY <1>2, <5>1
        <5>. QED
          BY <4>2, <5>2
      <4>. QED
        BY <4>1, <4>2
    <3>2. nodes'[Hash[q]] = new /\ nodes[Hash[q]] = chain
      BY <1>3, <2>3
    <3>. HIDE DEF chain
    <3>3. \A m \in Node : (\E i \in DOMAIN nodes[Hash[q]] : nodes[Hash[q]][i] = m /\ m.key = q)
                      <=> (\E i \in DOMAIN nodes'[Hash[q]] : nodes'[Hash[q]][i] = m /\ m.key = q)
      BY <3>1, <3>2
    <3>. QED
      BY <3>3, SameLookup
  <2>. QED
    BY <2>2, <2>3
<1>7. [q \in Key |-> get_kv_hashtable(q)]'
         = [[q \in Key |-> get_kv_hashtable(q)] EXCEPT ![k] = v]
  BY <1>5, <1>6
<1>8. Map!Cardinality(Map!Stored) # -1
  <2>1. count \in Nat
    BY DEF IInv, ChainsWellFormed, TypeOK
  <2>2. Map!Cardinality(Map!Stored) = count
    BY StoredCount, SameCardinality
  <2>. QED
    BY <2>1, <2>2
<1>. QED
  BY <1>4, <1>7, <1>8 DEF Map!SetNew, Map!Answer, Answer, SUCCESS, Map!SUCCESS

\* A HDELETE that unlinks the node of its key is a successful Delete of the
\* map.
LEMMA UnlinkIsDelete ==
    ASSUME IInv, IInv', NEW k \in Key, Matching(Bucket(k), k) # {},
           nodes' = [nodes EXCEPT ![Hash[k]] = Unlink(@, First(Matching(Bucket(k), k)))],
           Answer("DELETE", k, NULL, SUCCESS)
    PROVE  Map!Delete(k)
<1>. DEFINE s == Hash[k]
            at == First(Matching(Bucket(k), k))
            chain == nodes[s]
            new == Unlink(chain, at)
<1>1. s \in Slot /\ nodes \in [Slot -> Seq(Node)] /\ chain \in Seq(Node)
  BY HashAssumption DEF IInv, ChainsWellFormed, TypeOK
<1>2. at \in DOMAIN chain /\ chain[at].key = k /\ \A i \in DOMAIN chain : chain[i].key = k => i = at
  <2>1. Matching(Bucket(k), k) = {at} /\ at \in DOMAIN Bucket(k) /\ Bucket(k)[at].key = k
    BY OneMatch DEF IInv
  <2>2. Bucket(k) = chain
    BY DEF Bucket
  <2>. HIDE DEF at
  <2>. QED
    BY <2>1, <2>2 DEF Matching
<1>3. nodes' = [nodes EXCEPT ![s] = new]
  OBVIOUS
<1>. HIDE DEF at
<1>4. /\ DOMAIN new = 1 .. Len(chain) - 1
      /\ \A j \in 1 .. Len(chain) - 1 : new[j] = IF j < at THEN chain[j] ELSE chain[j + 1]
      /\ DOMAIN chain = 1 .. Len(chain) /\ Len(chain) \in Nat
  BY <1>1, <1>2, UnlinkAt DEF Unlink
<1>. HIDE DEF new
<1>5. nodes'[s] = new /\ \A q \in Slot \ {s} : nodes'[q] = nodes[q]
  BY <1>1, <1>3
<1>6. get_kv_hashtable(k) # NULL
  BY <1>2, GetIsLookupHolds DEF GetIsLookup
<1>7. get_kv_hashtable(k)' = NULL
  <2>1. ASSUME NEW i \in DOMAIN new PROVE new[i].key # k
    <3>. DEFINE j == IF i < at THEN i ELSE i + 1
    <3>1. j \in DOMAIN chain /\ j # at /\ new[i] = chain[j]
      BY <1>2, <1>4
    <3>. QED
      BY <1>2, <3>1
  <2>. QED
    BY <1>5, <2>1, GetIsLookupHolds DEF GetIsLookup
<1>8. \A q \in Key : q # k => get_kv_hashtable(q)' = get_kv_hashtable(q)
  <2>. SUFFICES ASSUME NEW q \in Key, q # k
                PROVE  get_kv_hashtable(q)' = get_kv_hashtable(q)
    OBVIOUS
  <2>1. Hash[q] \in Slot
    BY HashAssumption
  <2>2. CASE Hash[q] # s
    <3>1. nodes'[Hash[q]] = nodes[Hash[q]]
      BY <1>5, <2>1, <2>2
    <3>. QED
      BY <3>1, SameLookup
  <2>3. CASE Hash[q] = s
    <3>1. ASSUME NEW m, m.key = q
          PROVE  (\E i \in DOMAIN chain : chain[i] = m) <=> (\E i \in DOMAIN new : new[i] = m)
      <4>1. ASSUME NEW i \in DOMAIN chain, chain[i] = m
            PROVE  \E j \in DOMAIN new : new[j] = m
        <5>1. i # at
          BY <1>2, <3>1, <4>1
        <5>2. CASE i < at
          BY <1>2, <1>4, <4>1, <5>2
        <5>3. CASE i > at
          <6>1. i - 1 \in DOMAIN new /\ new[i - 1] = chain[i]
            BY <1>2, <1>4, <5>3
          <6>. QED
            BY <4>1, <6>1
        <5>. QED
          BY <1>2, <1>4, <5>1, <5>2, <5>3
      <4>2. ASSUME NEW i \in DOMAIN new, new[i] = m
            PROVE  \E j \in DOMAIN chain : chain[j] = m
        BY <1>4, <4>2
      <4>. QED
        BY <4>1, <4>2
    <3>2. nodes'[Hash[q]] = new /\ nodes[Hash[q]] = chain
      BY <1>5, <2>3
    <3>. HIDE DEF chain
    <3>3. \A m \in Node : (\E i \in DOMAIN nodes[Hash[q]] : nodes[Hash[q]][i] = m /\ m.key = q)
                      <=> (\E i \in DOMAIN nodes'[Hash[q]] : nodes'[Hash[q]][i] = m /\ m.key = q)
      BY <3>1, <3>2
    <3>. QED
      BY <3>3, SameLookup
  <2>. QED
    BY <2>2, <2>3
<1>9. [q \in Key |-> get_kv_hashtable(q)]'
         = [[q \in Key |-> get_kv_hashtable(q)] EXCEPT ![k] = NULL]
  BY <1>7, <1>8
<1>10. Map!Lookup(k) # NULL
  BY <1>6 DEF Map!Lookup
<1>. QED
  BY <1>9, <1>10 DEF Map!Delete, Map!Answer, Answer, SUCCESS, Map!SUCCESS

\* The abstract lookup answers what the engine's search does, also for the
\* missing key.
LEMMA LookupIsGet ==
    ASSUME IInv, NEW k \in Key \cup {NULL}
    PROVE  /\ Map!Lookup(k) = get_kv_hashtable(k)
           /\ k # NULL => (Matching(Bucket(k), k) = {} <=> Map!Lookup(k) = NULL)
<1>1. CASE k \in Key
  <2>1. Map!Lookup(k) = get_kv_hashtable(k)
    BY <1>1 DEF Map!Lookup
  <2>2. Matching(Bucket(k), k) = {} <=> get_kv_hashtable(k) = NULL
    BY <1>1, GetIsLookupHolds DEF GetIsLookup, Matching, Bucket
  <2>. QED
    BY <2>1, <2>2
<1>2. CASE k = NULL
  BY <1>2, HashAssumption DEF Map!Lookup, get_kv_hashtable
<1>. QED
  BY <1>1, <1>2

\* Every step of the engine is a step of the map or a stutter: a command that
\* waits for the mutex or crashes has not changed the map.
LEMMA NextIsMapNext ==
    ASSUME LongKey = {}, IInv, IInv', [Next]_vars
    PROVE  [Map!Next]_(Map!vars)
<1>0. /\ SUCCESS = Map!SUCCESS /\ FAILED = Map!FAILED /\ NO_EXIST = Map!NO_EXIST
      /\ IInv
  BY DEF SUCCESS, FAILED, NO_EXIST, Map!SUCCESS, Map!FAILED, Map!NO_EXIST
<1>1. ASSUME NEW k \in Key \cup {NULL}, NEW v \in Value \cup {NULL}, CmdHSET(k, v)
      PROVE  Map!Next
  <2>1. PICK ret \in {0, 1, -1} : /\ put_kv_hashtable(k, v, ret)
                                  /\ Answer("SET", k, v, StatusReply(ret))
    BY <1>1 DEF CmdHSET
  <2>2. CASE ret = 0
    <3>1. /\ k \in Key /\ v \in Value /\ ~ KeyPresent(k)
          /\ nodes' = [nodes EXCEPT ![Hash[k]] = <<create_node(k, v)>> \o @]
      BY <2>1, <2>2 DEF put_kv_hashtable
    <3>2. Answer("SET", k, v, SUCCESS)
      BY <2>1, <2>2 DEF StatusReply
    <3>3. Map!SetNew(k, v)
      BY <3>1, <3>2, LinkIsSetNew
    <3>. QED
      BY <3>1, <3>3 DEF Map!Next
  <2>3. CASE ret # 0
    <3>1. nodes' = nodes /\ (k = NULL \/ v = NULL \/ KeyPresent(k))
      BY <2>1, <2>3 DEF put_kv_hashtable, table
    <3>2. Map!Answer("SET", k, v, Map!FAILED)
      BY <1>0, <2>1, <2>3 DEF Answer, Map!Answer, StatusReply
    <3>3. Map!Lookup(k) # NULL \/ k = NULL \/ v = NULL
      BY <3>1, LookupIsGet DEF KeyPresent
    <3>4. Map!SetRefused(k, v)
      BY <3>1, <3>2, <3>3, SameMap DEF Map!SetRefused
    <3>. QED
      BY <3>4 DEF Map!Next
  <2>. QED
    BY <2>2, <2>3
<1>2. ASSUME NEW k \in Key \cup {NULL}, CmdHDELETE(k) PROVE Map!Next
  <2>1. PICK ret \in {0, -1, -2} : /\ delete_kv_hashtable(k, ret)
                                   /\ Answer("DELETE", k, NULL, StatusReply(ret))
    BY <1>2 DEF CmdHDELETE
  <2>2. CASE ret = 0
    <3>1. /\ k \in Key /\ Matching(Bucket(k), k) # {}
          /\ nodes' = [nodes EXCEPT ![Hash[k]] = Unlink(@, First(Matching(Bucket(k), k)))]
      BY <2>1, <2>2 DEF delete_kv_hashtable
    <3>2. Answer("DELETE", k, NULL, SUCCESS)
      BY <2>1, <2>2 DEF StatusReply
    <3>3. Map!Delete(k)
      BY <3>1, <3>2, UnlinkIsDelete
    <3>. QED
      BY <3>3 DEF Map!Next
  <2>3. CASE ret # 0
    <3>1. nodes' = nodes /\ (k = NULL \/ Matching(Bucket(k), k) = {})
      BY <2>1, <2>3 DEF delete_kv_hashtable, table
    <3>2. Map!Lookup(k) = NULL
      BY <3>1, LookupIsGet DEF get_kv_hashtable
    <3>3. Map!Answer("DELETE", k, NULL, Map!FAILED)
      BY <1>0, <2>1, <2>3 DEF Answer, Map!Answer, StatusReply
    <3>4. Map!Delete(k)
      BY <3>1, <3>2, <3>3, SameMap DEF Map!Delete
    <3>. QED
      BY <3>4 DEF Map!Next
  <2>. QED
    BY <2>2, <2>3
<1>3. ASSUME NEW k \in Key \cup {NULL}, CmdHGET(k) PROVE Map!Next
  <2>1. GetReply(get_kv_hashtable(k), NULL) = Map!GetReply(Map!Lookup(k), NULL)
    BY <1>0, LookupIsGet DEF GetReply, Map!GetReply, ValueReply, Map!ValueReply
  <2>2. Map!Get(k)
    BY <1>3, <2>1, SameMap DEF CmdHGET, Map!Get, Answer, Map!Answer, table
  <2>. QED
    BY <2>2 DEF Map!Next
<1>4. ASSUME NEW k \in Key \cup {NULL}, CmdHEXIST(k) PROVE Map!Next
  <2>1. ExistReply(exist_kv_hashtable(k)) = Map!ExistReply(Map!Lookup(k) # NULL)
    BY LookupIsGet
    DEF exist_kv_hashtable, ExistReply, Map!ExistReply, IntReply, Map!IntReply
  <2>2. Map!Exist(k)
    BY <1>4, <2>1, SameMap DEF CmdHEXIST, Map!Exist, Answer, Map!Answer, table
  <2>. QED
    BY <2>2 DEF Map!Next
<1>5. ASSUME CmdHCOUNT PROVE Map!Next
  <2>1. IntReply(count_kv_hashtable) = Map!IntReply(Map!Cardinality(Map!Stored))
    BY StoredCount, SameCardinality DEF count_kv_hashtable, IntReply, Map!IntReply
  <2>2. Map!Count
    BY <1>5, <2>1, SameMap DEF CmdHCOUNT, Map!Count, Answer, Map!Answer, table
  <2>. QED
    BY <2>2 DEF Map!Next
<1>6. ASSUME \/ Relock
             \/ \E k \in Key, v \in Value : CreateNodeFails(k, v)
             \/ UNCHANGED vars
      PROVE  UNCHANGED Map!vars
  <2>1. nodes' = nodes /\ reply' = reply
    BY <1>6 DEF Relock, CreateNodeFails, vars
  <2>. QED
    BY <2>1, SameMap DEF Map!vars
<1>. QED
  BY <1>1, <1>2, <1>3, <1>4, <1>5, <1>6 DEF Next

\* An empty table is the empty map.
LEMMA InitIsMapInit == Init => Map!Init
<1>. SUFFICES ASSUME Init PROVE Map!Init
  OBVIOUS
<1>1. \A k \in Key : get_kv_hashtable(k) = NULL
  BY HashAssumption DEF Init, init_hashtable, get_kv_hashtable, Matching, Bucket
<1>. QED
  BY <1>1 DEF Init, Map!Init, NO_EXIST, Map!NO_EXIST

\* The hash engine is the unbounded map its clients assume, up to the moment
\* it blocks or crashes: every answer of HSET, HGET, HCOUNT, HDELETE and
\* HEXIST is the map's, for every hash function and number of buckets.  The
\* hypothesis excludes keys of MAX_KEY_LEN bytes and more, which create_node
\* stores under another text than the one they are looked for with.
THEOREM Refinement ==
    ASSUME LongKey = {}
    PROVE  Spec => Refines
<1>1. Init => Map!Init
  BY InitIsMapInit
<1>2. IInv /\ IInv' /\ [Next]_vars => [Map!Next]_(Map!vars)
  BY NextIsMapNext
<1>. QED
  BY <1>1, <1>2, Invariance, PTL DEF Spec, Map!Spec, Refines
=============================================================================
