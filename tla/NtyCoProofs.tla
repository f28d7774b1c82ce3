---------------------------- MODULE NtyCoProofs ----------------------------
(***************************************************************************)
(* NtyCo for every set of coroutines and descriptors and every program     *)
(* that calls the library in any order.                                    *)
(*                                                                         *)
(* Why the checked invariants hold is a chain: epoll_wait is called with   *)
(* the ready queue empty, so no coroutine of a reported descriptor is      *)
(* queued, and none can be queued without running first (EventInv); so an  *)
(* event resumes a coroutine that is nowhere else, FDEOF is on the running *)
(* coroutine only, and it leaves its hook next (StatusInv); so a queued    *)
(* coroutine never has FDEOF.  Queue lemmas come first: the links of the   *)
(* ready queue are those of a list without repetitions.                    *)
(***************************************************************************)
EXTENDS NtyCo, CommonLemmas

-----------------------------------------------------------------------------
(***************************************************************************)
(* The inductive invariant.                                                *)
(***************************************************************************)
CoType == [alive : BOOLEAN, status : SUBSET Bits, ops : 0 .. Renice - 1,
           sleep_usecs : Nat, fd : Fd \cup {NULL}, call : Used \cup {NULL}]
QueueType == [first : Co \cup {NULL}, last : Co \cup {"head"},
              next : [Co -> Co \cup {NULL}], prev : [Co -> Co \cup {"head", NULL}]]

Types ==
    /\ ready \in QueueType
    /\ sleeping \subseteq Co /\ IsFiniteSet(sleeping)
    /\ waiting \in [Fd -> Co \cup {NULL}]
    /\ co \in [Co -> CoType]
    /\ curr \in Co \cup {NULL}
    /\ phase \in {"turn", "expired", "ready", "epoll", "events", "done"}
    /\ events \in Seq([fd : Fd, hup : BOOLEAN])
    /\ registered \subseteq open /\ IsFiniteSet(registered) /\ open \subseteq Fd
    /\ now \in Nat
    /\ slept \in BOOLEAN

\* The ready queue is a list.
Listed(q) == \E n \in Nat : \E s \in [1 .. n -> Co] : Q!Lists(q, s, n)
QueueInv == Listed(ready)

\* Where a coroutine can be: who is not freed runs, is queued or is in a hook.
PlaceInv ==
    /\ curr # NULL => co[curr].alive
    /\ \A c \in Ready \cup sleeping : co[c].alive
    /\ \A c \in Co : co[c].call # NULL => co[c].alive /\ co[c].fd \in Fd
    /\ \A c \in Co : co[c].alive => c = curr \/ c \in Ready \/ co[c].call # NULL

\* The waiting tree holds exactly the coroutines in a hook, and every
\* registered descriptor has one.
WaitInv ==
    /\ \A c \in Co, f \in Fd : waiting[f] = c <=> co[c].call # NULL /\ co[c].fd = f
    /\ \A f \in registered : waiting[f] # NULL

\* The events still to be handled are of different descriptors, whose
\* coroutines are neither queued nor running.
EventInv ==
    /\ events # <<>> => phase = "events"
    /\ \A i \in DOMAIN events : /\ waiting[events[i].fd] \in Co
                                /\ waiting[events[i].fd] \notin Ready
                                /\ waiting[events[i].fd] # curr
    /\ \A i, j \in DOMAIN events : events[i].fd = events[j].fd => i = j

\* A coroutine outside a hook has no wait bit, and FDEOF is seen by the
\* running coroutine in its hook alone.
StatusInv == \A c \in Co :
    /\ co[c].call = NULL => "WAIT_READ" \notin co[c].status
    /\ "FDEOF" \in co[c].status => c = curr /\ co[c].call # NULL /\ c \notin Ready

\* Without sleeping, the running coroutine is not queued.
SleepInv == ~ slept => sleeping = {} /\ curr \notin Ready

\* The keys of the sleeping tree are different from each other, from zero and
\* from the key any other coroutine still has from its last sleep, which lies
\* in the past.
TimerInv ==
    /\ \A d \in sleeping : co[d].sleep_usecs > 0
    /\ \A d \in sleeping, c \in Co : c # d => co[c].sleep_usecs # co[d].sleep_usecs
    /\ \A c \in Co \ sleeping : co[c].sleep_usecs <= now

ProcInv ==
    /\ proc # "already waits"
    /\ ~ slept => proc \notin {"dangling pointer", "broken queue"}

IInv == /\ Types /\ QueueInv /\ PlaceInv /\ WaitInv /\ EventInv
        /\ StatusInv /\ SleepInv /\ TimerInv /\ ProcInv
-----------------------------------------------------------------------------
(***************************************************************************)
(* The tail queue.                                                         *)
(***************************************************************************)
\* The empty queue of TAILQ_INIT.
LEMMA EmptyQueue ==
    /\ Q!TAILQ_INIT \in QueueType
    /\ Listed(Q!TAILQ_INIT)
    /\ Q!Queued(Q!TAILQ_INIT) = {}
<1>. DEFINE q == Q!TAILQ_INIT
            s == [i \in 1 .. 0 |-> NULL]
<1>1. q \in QueueType
  BY DEF Q!TAILQ_INIT, Q!Head, QueueType
<1>2. Q!Queued(q) = {}
  BY DEF Q!Queued, Q!TAILQ_INIT
<1>3. s \in [1 .. 0 -> Co] /\ Q!Lists(q, s, 0)
  BY <1>2 DEF Q!Lists, Q!TAILQ_INIT, Q!Head
<1>. QED
  BY <1>1, <1>2, <1>3 DEF Listed

\* What TAILQ_INSERT_TAIL does to the fields.
LEMMA InsertTailFields ==
    ASSUME NEW q \in QueueType, NEW e \in Co
    PROVE  LET r == Q!TAILQ_INSERT_TAIL(q, e)
           IN  /\ r \in QueueType
               /\ r.first = IF q.last = "head" THEN e ELSE q.first
               /\ r.last = e
               /\ \A d \in Co : r.next[d] = IF d = q.last THEN e
                                            ELSE IF d = e THEN NULL ELSE q.next[d]
               /\ \A d \in Co : r.prev[d] = IF d = e THEN q.last ELSE q.prev[d]
  BY NtyCoAssumption DEF Q!TAILQ_INSERT_TAIL, Q!Store, Q!Head, QueueType

\* TAILQ_INSERT_TAIL of what is not queued puts it at the end of the list.
LEMMA TailInserted ==
    ASSUME NEW q \in QueueType, Listed(q), NEW e \in Co, e \notin Q!Queued(q)
    PROVE  /\ Q!TAILQ_INSERT_TAIL(q, e) \in QueueType
           /\ Listed(Q!TAILQ_INSERT_TAIL(q, e))
           /\ Q!Queued(Q!TAILQ_INSERT_TAIL(q, e)) = Q!Queued(q) \cup {e}
<1>. DEFINE r == Q!TAILQ_INSERT_TAIL(q, e)
<1>1. PICK n \in Nat : \E s \in [1 .. n -> Co] : Q!Lists(q, s, n)
  BY DEF Listed
<1>2. PICK s \in [1 .. n -> Co] : Q!Lists(q, s, n)
  BY <1>1
<1>3. /\ r \in QueueType
      /\ r.first = IF q.last = "head" THEN e ELSE q.first
      /\ r.last = e
      /\ \A d \in Co : r.next[d] = IF d = q.last THEN e
                                   ELSE IF d = e THEN NULL ELSE q.next[d]
      /\ \A d \in Co : r.prev[d] = IF d = e THEN q.last ELSE q.prev[d]
  BY InsertTailFields
<1>. HIDE DEF r
<1>4. q.last # NULL
  BY NtyCoAssumption DEF QueueType
<1>5. Q!Queued(r) = Q!Queued(q) \cup {e}
  BY <1>3, <1>4 DEF Q!Queued
<1>. DEFINE t == [i \in 1 .. n + 1 |-> IF i = n + 1 THEN e ELSE s[i]]
<1>6. /\ n + 1 \in Nat
      /\ t \in [1 .. n + 1 -> Co]
      /\ t[n + 1] = e
      /\ \A i \in 1 .. n : t[i] = s[i]
  OBVIOUS
<1>. HIDE DEF t
<1>7. /\ \A i, j \in 1 .. n : s[i] = s[j] => i = j
      /\ Q!Queued(q) = {s[i] : i \in 1 .. n}
      /\ q.first = IF n = 0 THEN NULL ELSE s[1]
      /\ q.last = IF n = 0 THEN "head" ELSE s[n]
      /\ \A i \in 1 .. n : /\ q.prev[s[i]] = IF i = 1 THEN "head" ELSE s[i - 1]
                           /\ q.next[s[i]] = IF i = n THEN NULL ELSE s[i + 1]
  BY <1>2 DEF Q!Lists, Q!Head
<1>8. \A i \in 1 .. n : s[i] \in Co /\ s[i] # e
  BY <1>7
<1>9. \A i, j \in 1 .. n + 1 : t[i] = t[j] => i = j
  <2>. TAKE i, j \in 1 .. n + 1
  <2>1. i = n + 1 \/ i \in 1 .. n
    OBVIOUS
  <2>2. j = n + 1 \/ j \in 1 .. n
    OBVIOUS
  <2>. QED
    BY <2>1, <2>2, <1>6, <1>7, <1>8
<1>10. Q!Queued(r) = {t[i] : i \in 1 .. n + 1}
  BY <1>5, <1>6, <1>7
<1>11. /\ r.first = IF n + 1 = 0 THEN NULL ELSE t[1]
       /\ r.last = IF n + 1 = 0 THEN "head" ELSE t[n + 1]
  <2>1. CASE n = 0
    BY <2>1, <1>3, <1>6, <1>7
  <2>2. CASE n # 0
    <3>1. n \in 1 .. n /\ 1 \in 1 .. n
      BY <2>2
    <3>2. q.last # "head"
      BY <3>1, <2>2, <1>7, <1>8, NtyCoAssumption
    <3>. QED
      BY <3>1, <3>2, <2>2, <1>3, <1>6, <1>7
  <2>. QED
    BY <2>1, <2>2
<1>12. ASSUME NEW i \in 1 .. n + 1
       PROVE  /\ r.prev[t[i]] = IF i = 1 THEN "head" ELSE t[i - 1]
              /\ r.next[t[i]] = IF i = n + 1 THEN NULL ELSE t[i + 1]
  <2>1. CASE i = n + 1
    <3>1. r.prev[t[i]] = q.last /\ r.next[t[i]] = NULL
      <4>1. e # q.last
        BY <1>7, <1>8, NtyCoAssumption
      <4>. QED
        BY <2>1, <1>3, <1>6, <4>1
    <3>2. i # 1 => i - 1 \in 1 .. n /\ i - 1 = n
      BY <2>1
    <3>. QED
      BY <3>1, <3>2, <2>1, <1>6, <1>7
  <2>2. CASE i \in 1 .. n
    <3>1. r.prev[t[i]] = q.prev[s[i]]
      BY <2>2, <1>3, <1>6, <1>8
    <3>2. r.prev[t[i]] = IF i = 1 THEN "head" ELSE t[i - 1]
      <4>1. i # 1 => i - 1 \in 1 .. n
        BY <2>2
      <4>. QED
        BY <3>1, <4>1, <2>2, <1>6, <1>7
    <3>3. CASE i = n
      BY <3>3, <2>2, <1>3, <1>6, <1>7, <1>8
    <3>4. CASE i # n
      <4>1. i + 1 \in 1 .. n /\ n \in 1 .. n
        BY <3>4, <2>2
      <4>2. s[i] # q.last
        BY <4>1, <3>4, <2>2, <1>7
      <4>. QED
        BY <4>1, <4>2, <3>2, <3>4, <2>2, <1>3, <1>6, <1>7, <1>8
    <3>. QED
      BY <3>2, <3>3, <3>4
  <2>. QED
    BY <2>1, <2>2
<1>13. Q!Lists(r, t, n + 1)
  BY <1>9, <1>10, <1>11, <1>12 DEF Q!Lists, Q!Head
<1>14. Listed(r)
  BY <1>13, <1>6 DEF Listed
<1>. QED
  BY <1>3, <1>5, <1>14 DEF r

\* What TAILQ_REMOVE does to the fields, when it removes the first element.
LEMMA RemoveFirstFields ==
    ASSUME NEW q \in QueueType, NEW e \in Co, q.prev[e] = "head"
    PROVE  LET r == Q!TAILQ_REMOVE(q, e)
           IN  /\ r \in QueueType
               /\ r.first = q.next[e]
               /\ r.last = IF q.next[e] = NULL THEN "head" ELSE q.last
               /\ \A d \in Co : r.next[d] = IF d = e THEN NULL ELSE q.next[d]
               /\ \A d \in Co : r.prev[d] = IF d = e THEN NULL
                                            ELSE IF d = q.next[e] THEN "head" ELSE q.prev[d]
<1>1. CASE q.next[e] = NULL
  BY <1>1, NtyCoAssumption DEF Q!TAILQ_REMOVE, Q!Store, Q!Head, QueueType
<1>2. CASE q.next[e] # NULL
  <2>1. q.next[e] \in Co
    BY <1>2 DEF QueueType
  <2>. QED
    BY <1>2, <2>1, NtyCoAssumption DEF Q!TAILQ_REMOVE, Q!Store, Q!Head, QueueType
<1>. QED
  BY <1>1, <1>2

\* TAILQ_FIRST is the null pointer just when nothing is queued.
LEMMA FirstOfEmpty ==
    ASSUME NEW q \in QueueType, Listed(q)
    PROVE  q.first = NULL <=> Q!Queued(q) = {}
<1>1. PICK n \in Nat : \E s \in [1 .. n -> Co] : Q!Lists(q, s, n)
  BY DEF Listed
<1>2. PICK s \in [1 .. n -> Co] : Q!Lists(q, s, n)
  BY <1>1
<1>3. /\ \A i, j \in 1 .. n : s[i] = s[j] => i = j
      /\ Q!Queued(q) = {s[i] : i \in 1 .. n}
      /\ q.first = IF n = 0 THEN NULL ELSE s[1]
      /\ q.last = IF n = 0 THEN "head" ELSE s[n]
      /\ \A i \in 1 .. n : /\ q.prev[s[i]] = IF i = 1 THEN "head" ELSE s[i - 1]
                           /\ q.next[s[i]] = IF i = n THEN NULL ELSE s[i + 1]
  BY <1>2 DEF Q!Lists, Q!Head
<1>4. q.first = NULL <=> n = 0
  BY <1>3, NtyCoAssumption
<1>5. n # 0 => 1 \in 1 .. n
  OBVIOUS
<1>. QED
  BY <1>3, <1>4, <1>5

\* TAILQ_REMOVE of TAILQ_FIRST takes it, and nothing else, from the list.
LEMMA FirstRemoved ==
    ASSUME NEW q \in QueueType, Listed(q), q.first # NULL
    PROVE  /\ q.first \in Q!Queued(q) /\ q.first \in Co
           /\ Q!TAILQ_REMOVE(q, q.first) \in QueueType
           /\ Listed(Q!TAILQ_REMOVE(q, q.first))
           /\ Q!Queued(Q!TAILQ_REMOVE(q, q.first)) = Q!Queued(q) \ {q.first}
<1>1. PICK n \in Nat : \E s \in [1 .. n -> Co] : Q!Lists(q, s, n)
  BY DEF Listed
<1>2. PICK s \in [1 .. n -> Co] : Q!Lists(q, s, n)
  BY <1>1
<1>3. /\ \A i, j \in 1 .. n : s[i] = s[j] => i = j
      /\ Q!Queued(q) = {s[i] : i \in 1 .. n}
      /\ q.first = IF n = 0 THEN NULL ELSE s[1]
      /\ q.last = IF n = 0 THEN "head" ELSE s[n]
      /\ \A i \in 1 .. n : /\ q.prev[s[i]] = IF i = 1 THEN "head" ELSE s[i - 1]
                           /\ q.next[s[i]] = IF i = n THEN NULL ELSE s[i + 1]
  BY <1>2 DEF Q!Lists, Q!Head
<1>4. n # 0
  BY <1>3
<1>. DEFINE e == s[1]
            r == Q!TAILQ_REMOVE(q, e)
            m == n - 1
            t == [i \in 1 .. m |-> s[i + 1]]
<1>5. n # 0 /\ m \in Nat /\ 1 \in 1 .. n /\ n = m + 1
  BY <1>4
<1>6. q.first = e /\ e \in Co /\ e \in Q!Queued(q) /\ q.prev[e] = "head"
  BY <1>5, <1>3
<1>7. /\ r \in QueueType
      /\ r.first = q.next[e]
      /\ r.last = IF q.next[e] = NULL THEN "head" ELSE q.last
      /\ \A d \in Co : r.next[d] = IF d = e THEN NULL ELSE q.next[d]
      /\ \A d \in Co : r.prev[d] = IF d = e THEN NULL
                                   ELSE IF d = q.next[e] THEN "head" ELSE q.prev[d]
  BY <1>6, RemoveFirstFields
<1>. HIDE DEF r
<1>8. q.next[e] = IF m = 0 THEN NULL ELSE s[2]
  BY <1>5, <1>3
<1>9. \A i \in 1 .. n : s[i] \in Co /\ s[i] # NULL /\ q.prev[s[i]] # NULL
  BY <1>3, NtyCoAssumption DEF Q!Queued
<1>10. Q!Queued(r) = Q!Queued(q) \ {e}
  <2>1. \A d \in Co : r.prev[d] # NULL <=> q.prev[d] # NULL /\ d # e
    <3>1. m # 0 => 2 \in 1 .. n
      BY <1>5
    <3>2. q.next[e] \in Co => q.prev[q.next[e]] # NULL /\ q.next[e] # e
      BY <3>1, <1>5, <1>8, <1>9, <1>3, NtyCoAssumption
    <3>. QED
      BY <3>2, <1>7, NtyCoAssumption
  <2>. QED
    BY <2>1 DEF Q!Queued
<1>11. \A i \in 1 .. m : i + 1 \in 1 .. n
  BY <1>5
<1>12. t \in [1 .. m -> Co] /\ \A i \in 1 .. m : t[i] = s[i + 1]
  BY <1>11
<1>13. m \in Nat /\ n = m + 1
  BY <1>5
<1>. HIDE DEF t, e, m
<1>14. \A i, j \in 1 .. m : t[i] = t[j] => i = j
  BY <1>11, <1>12, <1>3
<1>15. Q!Queued(r) = {t[i] : i \in 1 .. m}
  <2>1. ASSUME NEW x \in Q!Queued(r) PROVE \E i \in 1 .. m : x = t[i]
    <3>1. PICK i \in 1 .. n : x = s[i]
      BY <1>10, <1>3
    <3>2. i # 1
      BY <3>1, <1>10 DEF e
    <3>3. i - 1 \in 1 .. m /\ (i - 1) + 1 = i
      BY <3>2, <1>13
    <3>. QED
      BY <3>1, <3>3, <1>12
  <2>2. \A i \in 1 .. m : t[i] \in Q!Queued(r)
    <3>. TAKE i \in 1 .. m
    <3>1. i + 1 # 1 /\ 1 \in 1 .. n
      BY <1>13
    <3>. QED
      BY <3>1, <1>10, <1>11, <1>12, <1>3 DEF e
  <2>. QED
    BY <2>1, <2>2
<1>16. /\ r.first = IF m = 0 THEN NULL ELSE t[1]
       /\ r.last = IF m = 0 THEN "head" ELSE t[m]
  <2>1. CASE m = 0
    BY <2>1, <1>7, <1>8
  <2>2. CASE m # 0
    <3>1. 1 \in 1 .. m /\ m \in 1 .. m /\ 2 \in 1 .. n
      BY <2>2, <1>13
    <3>2. t[1] = s[2] /\ t[m] = s[n]
      BY <3>1, <1>12, <1>13
    <3>. QED
      BY <2>2, <3>1, <3>2, <1>7, <1>8, <1>9, <1>13, <1>3
  <2>. QED
    BY <2>1, <2>2
<1>17. ASSUME NEW i \in 1 .. m
       PROVE  /\ r.prev[t[i]] = IF i = 1 THEN "head" ELSE t[i - 1]
              /\ r.next[t[i]] = IF i = m THEN NULL ELSE t[i + 1]
  <2>1. /\ t[i] = s[i + 1] /\ i + 1 \in 1 .. n /\ 1 \in 1 .. n
        /\ i \in 1 .. n /\ i + 1 # 1 /\ m # 0 /\ 2 \in 1 .. n
    BY <1>11, <1>12, <1>13
  <2>2. t[i] \in Co /\ t[i] # e
    BY <2>1, <1>9, <1>3 DEF e
  <2>3. q.prev[t[i]] = s[i]
    <3>1. q.prev[s[i + 1]] = s[(i + 1) - 1] /\ (i + 1) - 1 = i
      BY <2>1, <1>3
    <3>. QED
      BY <3>1, <2>1
  <2>4. q.next[t[i]] = IF i + 1 = n THEN NULL ELSE s[i + 1 + 1]
    BY <2>1, <1>3
  <2>5. r.next[t[i]] = IF i = m THEN NULL ELSE t[i + 1]
    <3>1. i # m => i + 1 \in 1 .. m
      BY <1>13
    <3>. QED
      BY <3>1, <2>2, <2>4, <1>7, <1>12, <1>13
  <2>6. t[i] = q.next[e] <=> i = 1
    BY <2>1, <1>8, <1>3
  <2>7. i # 1 => i - 1 \in 1 .. m /\ t[i - 1] = s[i]
    BY <1>12, <1>13
  <2>. QED
    BY <2>2, <2>3, <2>5, <2>6, <2>7, <1>7
<1>18. Q!Lists(r, t, m)
  BY <1>14, <1>15, <1>16, <1>17 DEF Q!Lists, Q!Head
<1>19. Listed(r)
  BY <1>18, <1>12, <1>13 DEF Listed
<1>. QED
  BY <1>6, <1>7, <1>10, <1>19 DEF r

\* A listed queue is well formed: the list is as long as the queue is large.
LEMMA ListedIsWellFormed ==
    ASSUME NEW q \in QueueType, Listed(q)
    PROVE  Q!QueueWellFormed(q)
<1>1. PICK n \in Nat : \E s \in [1 .. n -> Co] : Q!Lists(q, s, n)
  BY DEF Listed
<1>2. PICK s \in [1 .. n -> Co] : Q!Lists(q, s, n)
  BY <1>1
<1>3. s \in [1 .. n -> Q!Queued(q)]
  BY <1>2 DEF Q!Lists
<1>4. s \in Bijection(1 .. n, Q!Queued(q))
  BY <1>2, <1>3 DEF Q!Lists, Bijection, Injection, Surjection, IsInjective
<1>5. Cardinality(Q!Queued(q)) = n
  BY <1>4, FS_CountingElements DEF ExistsBijection
<1>. QED
  <2>1. Q!Cardinality(Q!Queued(q)) = Cardinality(Q!Queued(q))
    BY DEF Q!Cardinality, Cardinality
  <2>. QED
    BY <1>2, <1>3, <1>5, <2>1 DEF Q!QueueWellFormed
-----------------------------------------------------------------------------
(***************************************************************************)
(* The sleeping tree.                                                      *)
(***************************************************************************)
\* nty_schedule_sched_sleepdown finds a key that no entry has: of more keys
\* than there are entries one is free.
LEMMA FreeKeyIsFree ==
    ASSUME NEW S \in SUBSET Co, IsFiniteSet(S), co \in [Co -> CoType], NEW u \in Nat
    PROVE  /\ FreeKey(S, u) \in Nat /\ FreeKey(S, u) >= u
           /\ \A d \in S : co[d].sleep_usecs # FreeKey(S, u)
<1>. DEFINE n == Cardinality(S)
            Key(d) == co[d].sleep_usecs
            K == {k \in u .. u + n : \A d \in S : Key(d) # k}
<1>1. n \in Nat
  BY FS_CardinalityType
<1>2. \A d \in S : Key(d) \in Nat
  BY DEF CoType
<1>. HIDE DEF n, Key
<1>3. K # {}
  <2>. SUFFICES ASSUME K = {} PROVE FALSE
    OBVIOUS
  <2>. DEFINE f == [k \in u .. u + n |-> CHOOSE d \in S : Key(d) = k]
  <2>1. \A k \in u .. u + n : f[k] \in S /\ Key(f[k]) = k
    OBVIOUS
  <2>. HIDE DEF f
  <2>2. f \in Injection(u .. u + n, S)
    <3>1. f \in [u .. u + n -> S]
      BY <2>1 DEF f
    <3>2. DOMAIN f = u .. u + n
      BY <3>1
    <3>3. IsInjective(f)
      BY <2>1, <3>2 DEF IsInjective
    <3>. QED
      BY <3>1, <3>3 DEF Injection
  <2>3. Cardinality(u .. u + n) <= n
    BY <2>2, FS_Injection DEF n
  <2>4. Cardinality(u .. u + n) = n + 1
    <3>1. u \in Int /\ u + n \in Int /\ ~ (u > u + n) /\ (u + n) - u + 1 = n + 1
      BY <1>1
    <3>. QED
      BY <3>1, FS_Interval
  <2>. QED
    BY <1>1, <2>3, <2>4
<1>4. K \in SUBSET Nat
  BY <1>1
<1>5. PICK k \in K : \A j \in K : k <= j
  BY <1>3, <1>4, LeastExists
<1>6. k \in u .. u + n /\ \A d \in S : Key(d) # k
  BY <1>5
<1>7. \A j \in u .. k - 1 : \E d \in S : Key(d) = j
  <2>. TAKE j \in u .. k - 1
  <2>1. j \in u .. u + n /\ ~ (k <= j)
    BY <1>1, <1>6
  <2>. QED
    BY <2>1, <1>5
<1>8. /\ FreeKey(S, u) \in u .. u + n
      /\ \A d \in S : Key(d) # FreeKey(S, u)
  BY <1>6, <1>7 DEF FreeKey, Key, n
<1>. QED
  BY <1>1, <1>8 DEF Key

\* RB_MIN of a tree that is not empty is in the tree.
LEMMA MinIsSleeping ==
    ASSUME Types, sleeping # {}
    PROVE  RB_MIN \in sleeping
<1>. DEFINE K == {co[d].sleep_usecs : d \in sleeping}
<1>1. \A d \in sleeping : d \in Co /\ co[d].sleep_usecs \in Nat
  BY DEF Types, CoType
<1>2. K \in SUBSET Nat /\ K # {}
  BY <1>1
<1>3. PICK k \in K : \A j \in K : k <= j
  BY <1>2, LeastExists
<1>4. \E c \in sleeping : \A d \in sleeping : co[c].sleep_usecs <= co[d].sleep_usecs
  BY <1>3
<1>. QED
  BY <1>4 DEF RB_MIN

-----------------------------------------------------------------------------
(***************************************************************************)
(* Each step keeps the invariant.                                          *)
(***************************************************************************)
\* What the types say of single fields.
Shape ==
    /\ NULL \notin Co /\ NULL \notin Fd /\ curr \in Co \cup {NULL}
    /\ Ready \subseteq Co /\ sleeping \subseteq Co
    /\ waiting \in [Fd -> Co \cup {NULL}]
    /\ registered \subseteq Fd /\ open \subseteq Fd
    /\ now \in Nat /\ 0 \in 0 .. Renice - 1
    /\ \A i \in DOMAIN events : events[i].fd \in Fd
    /\ \A d \in Co : co[d].sleep_usecs \in Nat

LEMMA ShapeOfTypes ==
    ASSUME Types
    PROVE  Shape
<1>1. \A i \in DOMAIN events : events[i].fd \in Fd
  <2>1. events \in Seq([fd : Fd, hup : BOOLEAN])
    BY DEF Types
  <2>2. \A i \in DOMAIN events : events[i] \in [fd : Fd, hup : BOOLEAN]
    BY <2>1, Elements
  <2>. QED
    BY <2>2
<1>2. \A d \in Co : co[d].sleep_usecs \in Nat
  BY DEF Types, CoType
<1>. QED
  BY <1>1, <1>2, NtyCoAssumption DEF Types, Shape, Ready, Q!Queued

\* The parts of the actions that change more than proc.
Counts(c) ==
    /\ Nice(c) /\ co' = [co EXCEPT ![c].ops = @ + 1]
    /\ UNCHANGED <<ready, trees, kernel, slept, proc>> /\ Stays

Requeues(c) ==
    /\ UserCode(c) /\ c \notin Ready
    /\ ready' = Q!TAILQ_INSERT_TAIL(ready, c)
    /\ co' = [co EXCEPT ![c].ops = 0]
    /\ nty_coroutine_yield(c)
    /\ UNCHANGED <<trees, kernel, slept, proc>>

SetsTimer(c, ms) ==
    /\ UserCode(c) /\ ms # 0
    /\ nty_schedule_sched_sleepdown(c, ms)
    /\ slept' = TRUE
    /\ UNCHANGED <<ready, waiting, kernel, proc>> /\ Stays

Exits(c) ==
    /\ UserCode(c) /\ c \notin Ready \cup sleeping
    /\ nty_coroutine_free(c)
    /\ nty_coroutine_yield(c)
    /\ UNCHANGED <<ready, trees, kernel, slept, proc>>

Waits(c, f, h, status) ==
    /\ Running(c)
    /\ waiting[f] \in {NULL, c}
    /\ waiting' = [waiting EXCEPT ![f] = c]
    /\ registered' = registered \cup ({f} \cap open)
    /\ co' = [co EXCEPT ![c].fd = f, ![c].call = h, ![c].ops = 0, ![c].status = status]
    /\ nty_coroutine_yield(c)
    /\ UNCHANGED <<ready, sleeping, open, now, slept, proc>>

Leaves(c) ==
    /\ Running(c) /\ co[c].call # NULL
    /\ waiting' = Unlinked(c) /\ registered' = Deregistered(c)
    /\ co' = [co EXCEPT ![c].call = NULL, ![c].fd = NULL, ![c].status = Descheduled(c)]
    /\ open \subseteq open' /\ open' \subseteq Fd
    /\ UNCHANGED <<ready, sleeping, now, slept, proc>> /\ Stays

Moves(p, q) ==
    /\ Scheduling(p) /\ (p = "events" => events = <<>>) /\ phase' = q
    /\ q \in {"turn", "expired", "ready", "epoll", "events", "done"}
    /\ UNCHANGED <<ready, sleeping, waiting, co, curr, events, kernel, slept, proc>>

TimerResumes(c) ==
    /\ Scheduling("expired") /\ c \in sleeping /\ co[c].sleep_usecs <= now
    /\ sleeping' = sleeping \ {c}
    /\ nty_coroutine_resume(c, co[c].status)
    /\ UNCHANGED <<phase, ready, waiting, events, kernel, slept, proc>>

ReadyResumes(c) ==
    /\ Scheduling("ready") /\ c # NULL /\ c = Q!TAILQ_FIRST(ready)
    /\ ready' = Q!TAILQ_REMOVE(ready, c)
    /\ nty_coroutine_resume(c, co[c].status)
    /\ UNCHANGED <<phase, trees, events, kernel, slept, proc>>

Polls ==
    /\ Scheduling("epoll") /\ Q!TAILQ_EMPTY(ready)
    /\ phase' = "events"
    /\ \E S \in SUBSET registered : \E fds \in SetToSeqs(S) :
         \E hup \in [S -> BOOLEAN] :
             events' = [i \in DOMAIN fds |-> [fd |-> fds[i], hup |-> hup[fds[i]]]]
    /\ UNCHANGED <<ready, trees, co, curr, kernel, slept, proc>>

EventResumes(c) ==
    /\ Scheduling("events") /\ events # <<>>
    /\ c = waiting[Last(events).fd]
    /\ nty_coroutine_resume(c, IF Last(events).hup THEN {"FDEOF"} ELSE {})
    /\ events' = Front(events)
    /\ UNCHANGED <<phase, ready, trees, kernel, slept, proc>>

\* nty_coroutine_create: the new coroutine is queued.
LEMMA CreateKeepsInv ==
    ASSUME IInv, NEW c \in Co, nty_coroutine_create(c)
    PROVE  IInv'
<1>1. /\ Types /\ QueueInv /\ PlaceInv /\ WaitInv /\ EventInv
      /\ StatusInv /\ SleepInv /\ TimerInv /\ ProcInv
  BY DEF IInv
<1>2. Shape
  BY <1>1, ShapeOfTypes
<1>3. PICK new \in Co \ Alive : /\ co' = [co EXCEPT ![new] = Created]
                             /\ ready' = Q!TAILQ_INSERT_TAIL(ready, new)
  BY DEF nty_coroutine_create
<1>4. /\ UNCHANGED <<sleeping, waiting, registered, open, now, slept, proc>>
      /\ UNCHANGED <<curr, phase, last_co_ready, events>>
      /\ curr = c
  BY DEF nty_coroutine_create, trees, kernel, Stays, UserCode, Running
<1>5. /\ new \in Co /\ ~ co[new].alive /\ new \notin Ready /\ new \notin sleeping
      /\ co[new].call = NULL /\ new # c
  BY <1>1, <1>2, <1>3, <1>4 DEF Alive, PlaceInv, Shape
<1>6. ready' \in QueueType /\ Listed(ready') /\ Ready' = Ready \cup {new}
  BY <1>1, <1>3, <1>5, TailInserted DEF Types, QueueInv, Ready
<1>7. Created \in CoType
  BY <1>2 DEF Created, Unused, CoType, Bits, Shape
<1>8. co' \in [Co -> CoType]
  BY <1>1, <1>3, <1>7 DEF Types
<1>9. /\ co'[new].alive = TRUE /\ co'[new].fd = NULL /\ co'[new].call = NULL
      /\ \A d \in Co \ {new} : /\ co'[d].alive = co[d].alive
                            /\ co'[d].fd = co[d].fd
                            /\ co'[d].call = co[d].call
  BY <1>1, <1>3 DEF Types, Created, Unused
<1>10. /\ co'[new].status = {"NEW"}
       /\ \A d \in Co \ {new} : co'[d].status = co[d].status
  BY <1>1, <1>3 DEF Types, Created, Unused
<1>11. /\ co'[new].sleep_usecs = 0
       /\ \A d \in Co \ {new} : co'[d].sleep_usecs = co[d].sleep_usecs
  BY <1>1, <1>3 DEF Types, Created, Unused
<1>12. Types'
  BY <1>1, <1>4, <1>8, <1>6 DEF Types
<1>13. QueueInv'
  BY <1>6 DEF QueueInv
<1>14. PlaceInv'
  BY <1>1, <1>2, <1>4, <1>6, <1>9, <1>5 DEF PlaceInv, Shape
<1>15. WaitInv'
  BY <1>1, <1>2, <1>4, <1>9, <1>5 DEF WaitInv, Shape
<1>16. EventInv'
  BY <1>1, <1>2, <1>4, <1>5, <1>6 DEF EventInv, WaitInv, Shape
<1>17. StatusInv'
  BY <1>1, <1>2, <1>4, <1>6, <1>9, <1>10, <1>5 DEF StatusInv, Shape
<1>18. SleepInv'
  BY <1>1, <1>2, <1>4, <1>6, <1>5 DEF SleepInv, Shape
<1>19. TimerInv'
  BY <1>1, <1>2, <1>4, <1>11, <1>5 DEF TimerInv, Shape
<1>20. ProcInv'
  BY <1>1, <1>4 DEF ProcInv
<1>. QED
  BY <1>12, <1>13, <1>14, <1>15, <1>16, <1>17, <1>18, <1>19, <1>20 DEF IInv

\* nty_coroutine_renice below its limit counts.
LEMMA CountKeepsInv ==
    ASSUME IInv, NEW c \in Co, Counts(c)
    PROVE  IInv'
<1>1. /\ Types /\ QueueInv /\ PlaceInv /\ WaitInv /\ EventInv
      /\ StatusInv /\ SleepInv /\ TimerInv /\ ProcInv
  BY DEF IInv
<1>2. Shape
  BY <1>1, ShapeOfTypes
<1>3. /\ UNCHANGED <<ready, sleeping, waiting, registered, open, now, slept, proc>>
      /\ UNCHANGED <<curr, phase, last_co_ready, events>>
  BY DEF Counts, trees, kernel, Stays
<1>4. Ready' = Ready
  BY <1>3 DEF Ready
<1>5. co[c].ops + 1 \in 0 .. Renice - 1
  BY <1>1, NtyCoAssumption DEF Types, CoType, Counts, Nice
<1>6. co' \in [Co -> CoType]
  BY <1>1, <1>5 DEF Counts, Types, CoType
<1>7. \A d \in Co : co'[d].alive = co[d].alive /\ co'[d].fd = co[d].fd /\ co'[d].call = co[d].call
  BY <1>1 DEF Counts, Types, CoType
<1>8. \A d \in Co : co'[d].status = co[d].status
  BY <1>1 DEF Counts, Types, CoType
<1>9. \A d \in Co : co'[d].sleep_usecs = co[d].sleep_usecs
  BY <1>1 DEF Counts, Types, CoType
<1>10. Types'
  BY <1>1, <1>3, <1>6 DEF Types
<1>11. QueueInv'
  BY <1>1, <1>3 DEF QueueInv
<1>12. PlaceInv'
  BY <1>1, <1>2, <1>3, <1>4, <1>7 DEF PlaceInv, Shape
<1>13. WaitInv'
  BY <1>1, <1>2, <1>3, <1>7 DEF WaitInv, Shape
<1>14. EventInv'
  BY <1>1, <1>2, <1>3, <1>4 DEF EventInv, Shape
<1>15. StatusInv'
  BY <1>1, <1>2, <1>3, <1>4, <1>7, <1>8 DEF StatusInv, Shape
<1>16. SleepInv'
  BY <1>1, <1>2, <1>3, <1>4 DEF SleepInv, Shape
<1>17. TimerInv'
  BY <1>1, <1>2, <1>3, <1>9 DEF TimerInv, Shape
<1>18. ProcInv'
  BY <1>1, <1>3 DEF ProcInv
<1>. QED
  BY <1>10, <1>11, <1>12, <1>13, <1>14, <1>15, <1>16, <1>17, <1>18 DEF IInv

\* A coroutine that queues itself and yields.
LEMMA RequeueKeepsInv ==
    ASSUME IInv, NEW c \in Co, Requeues(c)
    PROVE  IInv'
<1>1. /\ Types /\ QueueInv /\ PlaceInv /\ WaitInv /\ EventInv
      /\ StatusInv /\ SleepInv /\ TimerInv /\ ProcInv
  BY DEF IInv
<1>2. Shape
  BY <1>1, ShapeOfTypes
<1>3. /\ UNCHANGED <<sleeping, waiting, registered, open, now, slept, proc>>
      /\ co[c].call = NULL /\ c \notin Ready
  BY DEF Requeues, trees, kernel, UserCode
<1>4. curr' = NULL /\ UNCHANGED events /\ curr = c
  BY DEF Requeues, nty_coroutine_yield, UserCode, Running
<1>5. phase' = phase \/ (phase = "ready" /\ phase' = "epoll")
  BY DEF Requeues, nty_coroutine_yield, EndOfRound
<1>6. ready' \in QueueType /\ Listed(ready') /\ Ready' = Ready \cup {c}
  BY <1>1, <1>3, TailInserted DEF Requeues, Types, QueueInv, Ready
<1>7. co[c] \in CoType /\ 0 \in 0 .. Renice - 1
  BY <1>1, <1>2 DEF Types, Shape
<1>8. [co[c] EXCEPT !.ops = 0] \in CoType
  BY <1>7 DEF CoType
<1>9. co' \in [Co -> CoType]
  BY <1>1, <1>8 DEF Requeues, Types
<1>10. \A d \in Co : co'[d].alive = co[d].alive /\ co'[d].fd = co[d].fd /\ co'[d].call = co[d].call
  BY <1>1 DEF Requeues, Types, CoType
<1>11. \A d \in Co : co'[d].status = co[d].status
  BY <1>1 DEF Requeues, Types, CoType
<1>12. \A d \in Co : co'[d].sleep_usecs = co[d].sleep_usecs
  BY <1>1 DEF Requeues, Types, CoType
<1>13. Types'
  BY <1>1, <1>3, <1>9, <1>4, <1>5, <1>6 DEF Types
<1>14. QueueInv'
  BY <1>6 DEF QueueInv
<1>15. PlaceInv'
  BY <1>1, <1>2, <1>3, <1>6, <1>10, <1>4 DEF PlaceInv, Shape
<1>16. WaitInv'
  BY <1>1, <1>2, <1>3, <1>10 DEF WaitInv, Shape
<1>17. EventInv'
  BY <1>1, <1>2, <1>3, <1>6, <1>4, <1>5 DEF EventInv, Shape
<1>18. StatusInv'
  BY <1>1, <1>2, <1>3, <1>6, <1>10, <1>11, <1>4 DEF StatusInv, Shape
<1>19. SleepInv'
  BY <1>1, <1>2, <1>3, <1>6, <1>4 DEF SleepInv, Shape
<1>20. TimerInv'
  BY <1>1, <1>2, <1>3, <1>12 DEF TimerInv, Shape
<1>21. ProcInv'
  BY <1>1, <1>3 DEF ProcInv
<1>. QED
  BY <1>13, <1>14, <1>15, <1>16, <1>17, <1>18, <1>19, <1>20, <1>21 DEF IInv

\* nty_coroutine_sleep with a time: the key is free.
LEMMA TimerKeepsInv ==
    ASSUME IInv, NEW c \in Co, NEW ms \in Msecs, SetsTimer(c, ms)
    PROVE  IInv'
<1>1. /\ Types /\ QueueInv /\ PlaceInv /\ WaitInv /\ EventInv
      /\ StatusInv /\ SleepInv /\ TimerInv /\ ProcInv
  BY DEF IInv
<1>2. Shape
  BY <1>1, ShapeOfTypes
<1>3. /\ UNCHANGED <<ready, waiting, registered, open, now, proc>>
      /\ UNCHANGED <<curr, phase, last_co_ready, events>>
      /\ curr = c /\ slept' = TRUE
  BY DEF SetsTimer, kernel, Stays, UserCode, Running
<1>4. Ready' = Ready
  BY <1>3 DEF Ready
<1>5. FoundUnder(c) \subseteq {c}
  BY <1>1, <1>2 DEF FoundUnder, TimerInv, Shape
<1>6. sleeping' = sleeping \cup {c} /\ sleeping \subseteq (sleeping \ FoundUnder(c)) \cup {c}
  BY <1>5 DEF SetsTimer, nty_schedule_sched_sleepdown
<1>7. \E k \in Nat :
         /\ k > now
         /\ \A d \in sleeping \ FoundUnder(c) : co[d].sleep_usecs # k
         /\ co' = [co EXCEPT ![c].sleep_usecs = k]
  <2>. DEFINE S == sleeping \ FoundUnder(c)
              k == FreeKey(S, WakeTime(ms))
  <2>1. WakeTime(ms) \in Nat /\ WakeTime(ms) > now
    <3>1. ms \in Nat \ {0} /\ Msec \in Nat \ {0} /\ now \in Nat
      BY <1>1, NtyCoAssumption DEF Types, SetsTimer
    <3>2. ms * Msec \in Nat /\ ms * Msec > 0
      BY <3>1
    <3>. QED
      BY <3>1, <3>2 DEF WakeTime
  <2>2. S \in SUBSET Co /\ IsFiniteSet(S) /\ co \in [Co -> CoType]
    BY <1>1, FS_Difference DEF Types
  <2>3. /\ k \in Nat /\ k >= WakeTime(ms)
        /\ \A d \in S : co[d].sleep_usecs # k
    BY <2>1, <2>2, FreeKeyIsFree
  <2>4. k > now
    BY <1>1, <2>1, <2>3 DEF Types
  <2>5. co' = [co EXCEPT ![c].sleep_usecs = k]
    BY DEF SetsTimer, nty_schedule_sched_sleepdown
  <2>. QED
    BY <2>3, <2>4, <2>5
<1>8. PICK k \in Nat :
         /\ k > now
         /\ \A d \in sleeping \ FoundUnder(c) : co[d].sleep_usecs # k
         /\ co' = [co EXCEPT ![c].sleep_usecs = k]
  BY <1>7
<1>9. /\ co \in [Co -> CoType] /\ co[c] \in CoType
      /\ k \in Nat /\ co' = [co EXCEPT ![c].sleep_usecs = k]
  BY <1>1, <1>8 DEF Types
<1>10. [co[c] EXCEPT !.sleep_usecs = k] \in CoType
  BY <1>9 DEF CoType
<1>11. co' \in [Co -> CoType]
  BY <1>9, <1>10
<1>12. \A d \in Co : co'[d].alive = co[d].alive /\ co'[d].fd = co[d].fd /\ co'[d].call = co[d].call
  BY <1>9 DEF CoType
<1>13. \A d \in Co : co'[d].status = co[d].status
  BY <1>9 DEF CoType
<1>14. /\ co'[c].sleep_usecs = k
       /\ \A d \in Co \ {c} : co'[d].sleep_usecs = co[d].sleep_usecs
  BY <1>9 DEF CoType
<1>15. co[c].alive
  BY <1>1, <1>2, <1>3 DEF PlaceInv, Shape
<1>16. k > now /\ \A d \in sleeping \ {c} : co[d].sleep_usecs # k
  BY <1>6, <1>8
<1>17. Types'
  BY <1>1, <1>3, <1>11, <1>6, FS_AddElement DEF Types
<1>18. QueueInv'
  BY <1>1, <1>3 DEF QueueInv
<1>19. PlaceInv'
  BY <1>1, <1>2, <1>3, <1>4, <1>12, <1>6, <1>15 DEF PlaceInv, Shape
<1>20. WaitInv'
  BY <1>1, <1>2, <1>3, <1>12 DEF WaitInv, Shape
<1>21. EventInv'
  BY <1>1, <1>2, <1>3, <1>4 DEF EventInv, Shape
<1>22. StatusInv'
  BY <1>1, <1>2, <1>3, <1>4, <1>12, <1>13 DEF StatusInv, Shape
<1>23. SleepInv'
  BY <1>3 DEF SleepInv
<1>24. TimerInv'
  BY <1>1, <1>2, <1>3, <1>14, <1>6, <1>16 DEF TimerInv, Shape
<1>25. ProcInv'
  BY <1>1, <1>3 DEF ProcInv
<1>. QED
  BY <1>17, <1>18, <1>19, <1>20, <1>21, <1>22, <1>23, <1>24, <1>25 DEF IInv

\* A coroutine whose function returned is freed.
LEMMA ExitKeepsInv ==
    ASSUME IInv, NEW c \in Co, Exits(c)
    PROVE  IInv'
<1>1. /\ Types /\ QueueInv /\ PlaceInv /\ WaitInv /\ EventInv
      /\ StatusInv /\ SleepInv /\ TimerInv /\ ProcInv
  BY DEF IInv
<1>2. Shape
  BY <1>1, ShapeOfTypes
<1>3. /\ UNCHANGED <<ready, sleeping, waiting, registered, open, now, slept, proc>>
      /\ co[c].call = NULL /\ c \notin Ready /\ c \notin sleeping
  BY DEF Exits, trees, kernel, UserCode
<1>4. curr' = NULL /\ UNCHANGED events /\ curr = c
  BY DEF Exits, nty_coroutine_yield, UserCode, Running
<1>5. phase' = phase \/ (phase = "ready" /\ phase' = "epoll")
  BY DEF Exits, nty_coroutine_yield, EndOfRound
<1>6. Ready' = Ready
  BY <1>3 DEF Ready
<1>7. Unused \in CoType
  BY <1>2 DEF Unused, CoType, Bits, Shape
<1>8. co' \in [Co -> CoType]
  BY <1>1, <1>7 DEF Types, nty_coroutine_free, Exits
<1>9. /\ co'[c].alive = FALSE /\ co'[c].fd = NULL /\ co'[c].call = NULL
      /\ \A d \in Co \ {c} : /\ co'[d].alive = co[d].alive
                            /\ co'[d].fd = co[d].fd
                            /\ co'[d].call = co[d].call
  BY <1>1 DEF Types, Unused, nty_coroutine_free, Exits
<1>10. /\ co'[c].status = {}
       /\ \A d \in Co \ {c} : co'[d].status = co[d].status
  BY <1>1 DEF Types, Unused, nty_coroutine_free, Exits
<1>11. /\ co'[c].sleep_usecs = 0
       /\ \A d \in Co \ {c} : co'[d].sleep_usecs = co[d].sleep_usecs
  BY <1>1 DEF Types, Unused, nty_coroutine_free, Exits
<1>12. Types'
  BY <1>1, <1>3, <1>8, <1>4, <1>5 DEF Types
<1>13. QueueInv'
  BY <1>1, <1>3 DEF QueueInv
<1>14. PlaceInv'
  BY <1>1, <1>2, <1>3, <1>6, <1>9, <1>4 DEF PlaceInv, Shape
<1>15. WaitInv'
  BY <1>1, <1>2, <1>3, <1>9 DEF WaitInv, Shape
<1>16. EventInv'
  BY <1>1, <1>2, <1>3, <1>6, <1>4, <1>5 DEF EventInv, Shape
<1>17. StatusInv'
  BY <1>1, <1>2, <1>3, <1>6, <1>9, <1>10, <1>4 DEF StatusInv, Shape
<1>18. SleepInv'
  BY <1>1, <1>2, <1>3, <1>6, <1>4 DEF SleepInv, Shape
<1>19. TimerInv'
  BY <1>1, <1>2, <1>3, <1>11 DEF TimerInv, Shape
<1>20. ProcInv'
  BY <1>1, <1>3 DEF ProcInv
<1>. QED
  BY <1>12, <1>13, <1>14, <1>15, <1>16, <1>17, <1>18, <1>19, <1>20 DEF IInv

\* socket opens a descriptor, and close closes one.
LEMMA DescriptorKeepsInv ==
    ASSUME IInv, NEW c \in Co, socket(c) \/ close(c)
    PROVE  IInv'
<1>1. /\ Types /\ QueueInv /\ PlaceInv /\ WaitInv /\ EventInv
      /\ StatusInv /\ SleepInv /\ TimerInv /\ ProcInv
  BY DEF IInv
<1>2. Shape
  BY <1>1, ShapeOfTypes
<1>3. /\ UNCHANGED <<ready, sleeping, waiting, co, now, slept, proc>>
      /\ UNCHANGED <<curr, phase, last_co_ready, events>>
      /\ registered' \subseteq open' /\ open' \subseteq Fd /\ registered' \subseteq registered
  BY <1>1 DEF socket, close, trees, Stays, Types
<1>4. Ready' = Ready
  BY <1>3 DEF Ready
<1>5. Types'
  BY <1>1, <1>3, FS_Subset DEF Types
<1>6. QueueInv'
  BY <1>1, <1>3 DEF QueueInv
<1>7. PlaceInv'
  BY <1>1, <1>3, <1>4 DEF PlaceInv
<1>8. WaitInv'
  BY <1>1, <1>3 DEF WaitInv
<1>9. EventInv'
  BY <1>1, <1>3, <1>4 DEF EventInv
<1>10. StatusInv'
  BY <1>1, <1>3, <1>4 DEF StatusInv
<1>11. SleepInv'
  BY <1>1, <1>3, <1>4 DEF SleepInv
<1>12. TimerInv'
  BY <1>1, <1>3 DEF TimerInv
<1>13. ProcInv'
  BY <1>1, <1>3 DEF ProcInv
<1>. QED
  BY <1>5, <1>6, <1>7, <1>8, <1>9, <1>10, <1>11, <1>12, <1>13 DEF IInv

\* nty_poll_inner up to its yield: a coroutine enters a hook, or polls again.
LEMMA WaitKeepsInv ==
    ASSUME IInv, NEW c \in Co, NEW f \in Fd, NEW h \in Used, NEW st \in SUBSET Bits,
           Waits(c, f, h, st), "FDEOF" \notin st, co[c].call # NULL => co[c].fd = f
    PROVE  IInv'
<1>1. /\ Types /\ QueueInv /\ PlaceInv /\ WaitInv /\ EventInv
      /\ StatusInv /\ SleepInv /\ TimerInv /\ ProcInv
  BY DEF IInv
<1>2. Shape
  BY <1>1, ShapeOfTypes
<1>3. UNCHANGED <<ready, sleeping, open, now, slept, proc>>
  BY DEF Waits
<1>4. curr' = NULL /\ UNCHANGED events /\ curr = c
  BY DEF Waits, nty_coroutine_yield, UserCode, Running
<1>5. phase' = phase \/ (phase = "ready" /\ phase' = "epoll")
  BY DEF Waits, nty_coroutine_yield, EndOfRound
<1>6. Ready' = Ready
  BY <1>3 DEF Ready
<1>7. co[c].alive /\ h # NULL
  BY <1>1, <1>2, <1>4, NtyCoAssumption DEF PlaceInv, Shape
<1>8. co[c] \in CoType /\ 0 \in 0 .. Renice - 1
  BY <1>1, <1>2 DEF Types, Shape
<1>9. [co[c] EXCEPT !.fd = f, !.call = h, !.ops = 0, !.status = st] \in CoType
  BY <1>8 DEF CoType
<1>10. co' = [co EXCEPT ![c] = [co[c] EXCEPT !.fd = f, !.call = h, !.ops = 0, !.status = st]]
  BY <1>1 DEF Types, Waits
<1>11. co' \in [Co -> CoType]
  BY <1>1, <1>9, <1>10 DEF Types
<1>12. /\ co'[c].alive = co[c].alive /\ co'[c].fd = f /\ co'[c].call = h
       /\ \A d \in Co \ {c} : /\ co'[d].alive = co[d].alive
                             /\ co'[d].fd = co[d].fd
                             /\ co'[d].call = co[d].call
  BY <1>1, <1>10 DEF Types, CoType
<1>13. /\ co'[c].status = st
       /\ \A d \in Co \ {c} : co'[d].status = co[d].status
  BY <1>1, <1>10 DEF Types, CoType
<1>14. \A d \in Co : co'[d].sleep_usecs = co[d].sleep_usecs
  BY <1>1, <1>10 DEF Types, CoType
<1>15. /\ waiting' \in [Fd -> Co \cup {NULL}] /\ waiting[f] \in {NULL, c}
       /\ waiting'[f] = c /\ \A g \in Fd \ {f} : waiting'[g] = waiting[g]
  BY <1>2 DEF Shape, Waits
<1>16. /\ registered' \subseteq open /\ registered' \subseteq registered \cup {f}
       /\ IsFiniteSet(registered')
  <2>1. registered' \subseteq open /\ registered' \in SUBSET (registered \cup {f})
    BY <1>1 DEF Waits, Types
  <2>2. IsFiniteSet(registered \cup {f})
    BY <1>1, FS_AddElement DEF Types
  <2>. QED
    BY <2>1, <2>2, FS_Subset
<1>17. Types'
  BY <1>1, <1>3, <1>11, <1>4, <1>5, <1>15, <1>16 DEF Types
<1>18. QueueInv'
  BY <1>1, <1>3 DEF QueueInv
<1>19. PlaceInv'
  BY <1>1, <1>2, <1>3, <1>6, <1>12, <1>4, <1>7 DEF PlaceInv, Shape
<1>20. WaitInv'
  BY <1>1, <1>2, <1>7, <1>12, <1>15, <1>16 DEF WaitInv, Shape
<1>21. EventInv'
  BY <1>1, <1>2, <1>3, <1>6, <1>4, <1>5, <1>15 DEF EventInv, Shape
<1>22. StatusInv'
  BY <1>1, <1>2, <1>3, <1>6, <1>12, <1>13, <1>4, <1>7 DEF StatusInv, Shape
<1>23. SleepInv'
  BY <1>1, <1>2, <1>3, <1>6, <1>4 DEF SleepInv, Shape
<1>24. TimerInv'
  BY <1>1, <1>2, <1>3, <1>14 DEF TimerInv, Shape
<1>25. ProcInv'
  BY <1>1, <1>3 DEF ProcInv
<1>. QED
  BY <1>17, <1>18, <1>19, <1>20, <1>21, <1>22, <1>23, <1>24, <1>25 DEF IInv

\* A hook that returns leaves the waiting tree.
LEMMA LeaveKeepsInv ==
    ASSUME IInv, NEW c \in Co, Leaves(c)
    PROVE  IInv'
<1>1. /\ Types /\ QueueInv /\ PlaceInv /\ WaitInv /\ EventInv
      /\ StatusInv /\ SleepInv /\ TimerInv /\ ProcInv
  BY DEF IInv
<1>2. Shape
  BY <1>1, ShapeOfTypes
<1>3. /\ UNCHANGED <<ready, sleeping, now, slept, proc>>
      /\ UNCHANGED <<curr, phase, last_co_ready, events>>
      /\ curr = c
  BY DEF Leaves, Stays, Running
<1>4. co[c].alive /\ co[c].call # NULL /\ co[c].fd \in Fd /\ waiting[co[c].fd] = c
  BY <1>1 DEF Leaves, PlaceInv, WaitInv
<1>5. Ready' = Ready
  BY <1>3 DEF Ready
<1>6. /\ waiting' \in [Fd -> Co \cup {NULL}] /\ registered' = registered \ {co[c].fd}
      /\ waiting'[co[c].fd] = NULL
      /\ \A g \in Fd \ {co[c].fd} : waiting'[g] = waiting[g]
  BY <1>2, <1>4 DEF Leaves, Unlinked, Deregistered, Shape
<1>7. registered' \subseteq open' /\ open' \subseteq Fd /\ IsFiniteSet(registered')
  BY <1>1, <1>6, FS_RemoveElement, FS_Subset DEF Leaves, Types
<1>8. [co[c] EXCEPT !.call = NULL, !.fd = NULL, !.status = {}] \in CoType
  BY <1>1 DEF Types, CoType
<1>9. co' = [co EXCEPT ![c] = [co[c] EXCEPT !.call = NULL, !.fd = NULL, !.status = {}]]
  BY <1>1 DEF Types, Leaves, Descheduled
<1>10. co' \in [Co -> CoType]
  BY <1>1, <1>8, <1>9 DEF Types
<1>11. /\ co'[c].alive = co[c].alive /\ co'[c].fd = NULL /\ co'[c].call = NULL
       /\ \A d \in Co \ {c} : /\ co'[d].alive = co[d].alive
                             /\ co'[d].fd = co[d].fd
                             /\ co'[d].call = co[d].call
  BY <1>1, <1>9 DEF Types, CoType
<1>12. /\ co'[c].status = {}
       /\ \A d \in Co \ {c} : co'[d].status = co[d].status
  BY <1>1, <1>9 DEF Types, CoType
<1>13. \A d \in Co : co'[d].sleep_usecs = co[d].sleep_usecs
  BY <1>1, <1>9 DEF Types, CoType
<1>14. Types'
  BY <1>1, <1>3, <1>10, <1>6, <1>7 DEF Types
<1>15. QueueInv'
  BY <1>1, <1>3 DEF QueueInv
<1>16. PlaceInv'
  BY <1>1, <1>2, <1>3, <1>5, <1>11, <1>4 DEF PlaceInv, Shape
<1>17. WaitInv'
  BY <1>1, <1>2, <1>4, <1>11, <1>6 DEF WaitInv, Shape
<1>18. EventInv'
  BY <1>1, <1>2, <1>3, <1>5, <1>4, <1>6 DEF EventInv, Shape
<1>19. StatusInv'
  BY <1>1, <1>2, <1>3, <1>5, <1>11, <1>12 DEF StatusInv, Shape
<1>20. SleepInv'
  BY <1>1, <1>2, <1>3, <1>5 DEF SleepInv, Shape
<1>21. TimerInv'
  BY <1>1, <1>2, <1>3, <1>13 DEF TimerInv, Shape
<1>22. ProcInv'
  BY <1>1, <1>3 DEF ProcInv
<1>. QED
  BY <1>14, <1>15, <1>16, <1>17, <1>18, <1>19, <1>20, <1>21, <1>22 DEF IInv

\* nty_schedule_run goes from one of its loops to the next.
LEMMA PhaseKeepsInv ==
    ASSUME IInv, NEW p, NEW q, Moves(p, q)
    PROVE  IInv'
<1>1. /\ Types /\ QueueInv /\ PlaceInv /\ WaitInv /\ EventInv
      /\ StatusInv /\ SleepInv /\ TimerInv /\ ProcInv
  BY DEF IInv
<1>2. Shape
  BY <1>1, ShapeOfTypes
<1>3. /\ UNCHANGED <<ready, sleeping, waiting, co, curr, events>>
      /\ UNCHANGED <<registered, open, now, slept, proc>>
      /\ phase' \in {"turn", "expired", "ready", "epoll", "events", "done"}
  BY DEF Moves, kernel
<1>4. Ready' = Ready
  BY <1>3 DEF Ready
<1>5. events = <<>>
  BY <1>1 DEF Moves, Scheduling, EventInv
<1>6. Types'
  BY <1>1, <1>3 DEF Types
<1>7. QueueInv'
  BY <1>1, <1>3 DEF QueueInv
<1>8. PlaceInv'
  BY <1>1, <1>3, <1>4 DEF PlaceInv
<1>9. WaitInv'
  BY <1>1, <1>3 DEF WaitInv
<1>10. EventInv'
  BY <1>1, <1>3, <1>4, <1>5 DEF EventInv
<1>11. StatusInv'
  BY <1>1, <1>3, <1>4 DEF StatusInv
<1>12. SleepInv'
  BY <1>1, <1>3, <1>4 DEF SleepInv
<1>13. TimerInv'
  BY <1>1, <1>3 DEF TimerInv
<1>14. ProcInv'
  BY <1>1, <1>3 DEF ProcInv
<1>. QED
  BY <1>6, <1>7, <1>8, <1>9, <1>10, <1>11, <1>12, <1>13, <1>14 DEF IInv

\* A coroutine whose timer is due is resumed, wherever it is.
LEMMA ExpiredKeepsInv ==
    ASSUME IInv, NEW c \in Co, TimerResumes(c)
    PROVE  IInv'
<1>1. /\ Types /\ QueueInv /\ PlaceInv /\ WaitInv /\ EventInv
      /\ StatusInv /\ SleepInv /\ TimerInv /\ ProcInv
  BY DEF IInv
<1>2. Shape
  BY <1>1, ShapeOfTypes
<1>3. /\ UNCHANGED <<phase, ready, waiting, events, registered, open, now, slept, proc>>
      /\ sleeping' = sleeping \ {c} /\ curr' = c
  BY DEF TimerResumes, kernel, nty_coroutine_resume
<1>4. Ready' = Ready
  BY <1>3 DEF Ready
<1>5. c \in sleeping /\ co[c].sleep_usecs <= now /\ curr = NULL /\ phase = "expired"
  BY DEF TimerResumes, Scheduling
<1>6. events = <<>> /\ slept
  BY <1>1, <1>5 DEF EventInv, SleepInv
<1>7. c \in Co /\ co \in [Co -> CoType] /\ co[c] \in CoType
  BY <1>1, <1>5 DEF Types
<1>8. PICK st \in SUBSET Bits : st \subseteq co[c].status /\ co' = [co EXCEPT ![c].status = st]
  <2>. DEFINE st == IF "NEW" \in co[c].status THEN {} ELSE co[c].status
  <2>1. co[c].status \in SUBSET Bits
    BY <1>7 DEF CoType
  <2>2. st \in SUBSET Bits /\ st \subseteq co[c].status
    BY <2>1
  <2>3. co' = [co EXCEPT ![c].status = st]
    BY DEF TimerResumes, nty_coroutine_resume, nty_coroutine_init
  <2>. QED
    BY <2>2, <2>3
<1>9. [co[c] EXCEPT !.status = st] \in CoType
  BY <1>7, <1>8 DEF CoType
<1>10. co' \in [Co -> CoType]
  BY <1>7, <1>8, <1>9
<1>11. \A d \in Co : co'[d].alive = co[d].alive /\ co'[d].fd = co[d].fd /\ co'[d].call = co[d].call
  BY <1>7, <1>8 DEF CoType
<1>12. /\ co'[c].status = st
       /\ \A d \in Co \ {c} : co'[d].status = co[d].status
  BY <1>7, <1>8 DEF CoType
<1>13. \A d \in Co : co'[d].sleep_usecs = co[d].sleep_usecs
  BY <1>7, <1>8 DEF CoType
<1>14. \A d \in Co : "FDEOF" \notin co'[d].status
  BY <1>1, <1>2, <1>5, <1>8, <1>12 DEF StatusInv, Shape
<1>15. Types'
  BY <1>1, <1>3, <1>10, <1>5, FS_RemoveElement DEF Types
<1>16. QueueInv'
  BY <1>1, <1>3 DEF QueueInv
<1>17. PlaceInv'
  BY <1>1, <1>2, <1>3, <1>4, <1>11, <1>5 DEF PlaceInv, Shape
<1>18. WaitInv'
  BY <1>1, <1>2, <1>3, <1>11 DEF WaitInv, Shape
<1>19. EventInv'
  BY <1>1, <1>2, <1>3, <1>4, <1>6 DEF EventInv, Shape
<1>20. StatusInv'
  BY <1>1, <1>8, <1>11, <1>12, <1>14 DEF StatusInv
<1>21. SleepInv'
  BY <1>3, <1>6 DEF SleepInv
<1>22. TimerInv'
  BY <1>1, <1>2, <1>3, <1>13, <1>5 DEF TimerInv, Shape
<1>23. ProcInv'
  BY <1>1, <1>3 DEF ProcInv
<1>. QED
  BY <1>15, <1>16, <1>17, <1>18, <1>19, <1>20, <1>21, <1>22, <1>23 DEF IInv

\* The first coroutine of the ready queue is resumed.
LEMMA ReadyKeepsInv ==
    ASSUME IInv, NEW c, ReadyResumes(c)
    PROVE  IInv'
<1>1. /\ Types /\ QueueInv /\ PlaceInv /\ WaitInv /\ EventInv
      /\ StatusInv /\ SleepInv /\ TimerInv /\ ProcInv
  BY DEF IInv
<1>2. Shape
  BY <1>1, ShapeOfTypes
<1>3. /\ UNCHANGED <<phase, sleeping, waiting, events, registered, open, now, slept, proc>>
      /\ curr' = c
  BY DEF ReadyResumes, trees, kernel, nty_coroutine_resume
<1>4. /\ c \in Co /\ c \in Ready
      /\ ready' \in QueueType /\ Listed(ready') /\ Ready' = Ready \ {c}
  BY <1>1, FirstRemoved DEF ReadyResumes, Types, QueueInv, Ready, Q!TAILQ_FIRST
<1>5. c \in Co /\ curr = NULL /\ phase = "ready"
  BY <1>4 DEF ReadyResumes, Scheduling
<1>6. events = <<>>
  BY <1>1, <1>5 DEF EventInv
<1>7. c \in Co /\ co \in [Co -> CoType] /\ co[c] \in CoType
  BY <1>1, <1>5 DEF Types
<1>8. PICK st \in SUBSET Bits : st \subseteq co[c].status /\ co' = [co EXCEPT ![c].status = st]
  <2>. DEFINE st == IF "NEW" \in co[c].status THEN {} ELSE co[c].status
  <2>1. co[c].status \in SUBSET Bits
    BY <1>7 DEF CoType
  <2>2. st \in SUBSET Bits /\ st \subseteq co[c].status
    BY <2>1
  <2>3. co' = [co EXCEPT ![c].status = st]
    BY DEF ReadyResumes, nty_coroutine_resume, nty_coroutine_init
  <2>. QED
    BY <2>2, <2>3
<1>9. [co[c] EXCEPT !.status = st] \in CoType
  BY <1>7, <1>8 DEF CoType
<1>10. co' \in [Co -> CoType]
  BY <1>7, <1>8, <1>9
<1>11. \A d \in Co : co'[d].alive = co[d].alive /\ co'[d].fd = co[d].fd /\ co'[d].call = co[d].call
  BY <1>7, <1>8 DEF CoType
<1>12. /\ co'[c].status = st
       /\ \A d \in Co \ {c} : co'[d].status = co[d].status
  BY <1>7, <1>8 DEF CoType
<1>13. \A d \in Co : co'[d].sleep_usecs = co[d].sleep_usecs
  BY <1>7, <1>8 DEF CoType
<1>14. \A d \in Co : "FDEOF" \notin co'[d].status
  BY <1>1, <1>2, <1>5, <1>8, <1>12 DEF StatusInv, Shape
<1>15. Types'
  BY <1>1, <1>3, <1>10, <1>5, <1>4 DEF Types
<1>16. QueueInv'
  BY <1>4 DEF QueueInv
<1>17. PlaceInv'
  BY <1>1, <1>2, <1>3, <1>4, <1>11, <1>5 DEF PlaceInv, Shape
<1>18. WaitInv'
  BY <1>1, <1>2, <1>3, <1>11 DEF WaitInv, Shape
<1>19. EventInv'
  BY <1>1, <1>2, <1>3, <1>4, <1>6 DEF EventInv, Shape
<1>20. StatusInv'
  BY <1>1, <1>4, <1>8, <1>11, <1>12, <1>14 DEF StatusInv
<1>21. SleepInv'
  BY <1>1, <1>2, <1>3, <1>4 DEF SleepInv, Shape
<1>22. TimerInv'
  BY <1>1, <1>2, <1>3, <1>13 DEF TimerInv, Shape
<1>23. ProcInv'
  BY <1>1, <1>3 DEF ProcInv
<1>. QED
  BY <1>15, <1>16, <1>17, <1>18, <1>19, <1>20, <1>21, <1>22, <1>23 DEF IInv

\* epoll_wait is called with nothing queued, and reports a descriptor once.
LEMMA PollKeepsInv ==
    ASSUME IInv, Polls
    PROVE  IInv'
<1>1. /\ Types /\ QueueInv /\ PlaceInv /\ WaitInv /\ EventInv
      /\ StatusInv /\ SleepInv /\ TimerInv /\ ProcInv
  BY DEF IInv
<1>2. Shape
  BY <1>1, ShapeOfTypes
<1>3. /\ UNCHANGED <<ready, sleeping, waiting, co, curr, registered, open, now, slept, proc>>
      /\ phase' = "events"
  BY DEF Polls, trees, kernel
<1>4. Ready' = Ready
  BY <1>3 DEF Ready
<1>5. curr = NULL /\ Ready = {}
  BY <1>1, FirstOfEmpty DEF Polls, Scheduling, Types, QueueInv, Ready, Q!TAILQ_EMPTY
<1>6. PICK S \in SUBSET registered : \E fds \in SetToSeqs(S) : \E hup \in [S -> BOOLEAN] :
             events' = [i \in DOMAIN fds |-> [fd |-> fds[i], hup |-> hup[fds[i]]]]
  BY DEF Polls
<1>7. PICK fds \in SetToSeqs(S) : \E hup \in [S -> BOOLEAN] :
             events' = [i \in DOMAIN fds |-> [fd |-> fds[i], hup |-> hup[fds[i]]]]
  BY <1>6
<1>8. PICK hup \in [S -> BOOLEAN] :
             events' = [i \in DOMAIN fds |-> [fd |-> fds[i], hup |-> hup[fds[i]]]]
  BY <1>7
<1>9. /\ fds \in [1 .. Cardinality(S) -> S]
      /\ \A i, j \in 1 .. Cardinality(S) : fds[i] = fds[j] => i = j
  BY <1>7 DEF SetToSeqs
<1>10. S \subseteq Fd /\ IsFiniteSet(S) /\ Cardinality(S) \in Nat
  BY <1>1, <1>6, FS_Subset, FS_CardinalityType DEF Types
<1>11. /\ DOMAIN events' = 1 .. Cardinality(S)
       /\ \A i \in 1 .. Cardinality(S) : events'[i].fd = fds[i] /\ fds[i] \in S
  BY <1>8, <1>9
<1>12. events' \in Seq([fd : Fd, hup : BOOLEAN])
  <2>1. events' \in [1 .. Cardinality(S) -> [fd : Fd, hup : BOOLEAN]]
    BY <1>8, <1>9, <1>10
  <2>. QED
    BY <2>1, <1>10, IsSequence
<1>13. \A f \in S : waiting[f] \in Co
  BY <1>1, <1>2, <1>6 DEF WaitInv, Shape
<1>14. Types'
  BY <1>1, <1>3, <1>12 DEF Types
<1>15. QueueInv'
  BY <1>1, <1>3 DEF QueueInv
<1>16. PlaceInv'
  BY <1>1, <1>3, <1>4 DEF PlaceInv
<1>17. WaitInv'
  BY <1>1, <1>3 DEF WaitInv
<1>18. EventInv'
  BY <1>2, <1>3, <1>5, <1>4, <1>9, <1>11, <1>13 DEF EventInv, Shape
<1>19. StatusInv'
  BY <1>1, <1>3, <1>4 DEF StatusInv
<1>20. SleepInv'
  BY <1>1, <1>3, <1>4 DEF SleepInv
<1>21. TimerInv'
  BY <1>1, <1>3 DEF TimerInv
<1>22. ProcInv'
  BY <1>1, <1>3 DEF ProcInv
<1>. QED
  BY <1>14, <1>15, <1>16, <1>17, <1>18, <1>19, <1>20, <1>21, <1>22 DEF IInv

\* The coroutine of an event is resumed: it waits for this event alone.
LEMMA EventKeepsInv ==
    ASSUME IInv, NEW c, EventResumes(c)
    PROVE  IInv'
<1>1. /\ Types /\ QueueInv /\ PlaceInv /\ WaitInv /\ EventInv
      /\ StatusInv /\ SleepInv /\ TimerInv /\ ProcInv
  BY DEF IInv
<1>2. Shape
  BY <1>1, ShapeOfTypes
<1>3. /\ UNCHANGED <<phase, ready, sleeping, waiting, registered, open, now, slept, proc>>
      /\ curr' = c /\ curr = NULL /\ phase = "events"
  BY DEF EventResumes, Scheduling, trees, kernel, nty_coroutine_resume
<1>4. Ready' = Ready
  BY <1>3 DEF Ready
<1>5. /\ events \in Seq([fd : Fd, hup : BOOLEAN]) /\ events # <<>>
      /\ Len(events) \in Nat /\ DOMAIN events = 1 .. Len(events) /\ Len(events) \in DOMAIN events
      /\ Last(events) = events[Len(events)]
  BY <1>1, FrontOf DEF Types, EventResumes, Front, Last
<1>6. /\ events' \in Seq([fd : Fd, hup : BOOLEAN])
      /\ DOMAIN events' = 1 .. Len(events) - 1
      /\ \A i \in 1 .. Len(events) - 1 :
            events'[i] = events[i] /\ i \in DOMAIN events /\ i # Len(events)
  <2>. DEFINE T == [fd : Fd, hup : BOOLEAN]
  <2>. HIDE DEF T
  <2>1. PICK f : f = SubSeq(events, 1, Len(events) - 1)
    OBVIOUS
  <2>2. events' = f
    BY <2>1 DEF EventResumes, Front
  <2>3. events \in Seq(T) /\ events # <<>>
    BY <1>5 DEF T
  <2>4. /\ f \in Seq(T) /\ DOMAIN f = 1 .. Len(events) - 1
        /\ \A i \in 1 .. Len(events) - 1 :
              f[i] = events[i] /\ i \in DOMAIN events /\ i # Len(events)
    BY <2>1, <2>3, FrontOf
  <2>. QED
    BY <2>2, <2>4 DEF T
<1>7. c = waiting[events[Len(events)].fd] /\ events[Len(events)].fd \in Fd
  BY <1>2, <1>5 DEF EventResumes, Shape
<1>8. c \in Co /\ c \notin Ready
  BY <1>1, <1>5, <1>7 DEF EventInv
<1>9. co[c].call # NULL /\ co[c].alive /\ co[c].fd = events[Len(events)].fd
  BY <1>1, <1>7, <1>8 DEF WaitInv, PlaceInv
<1>10. \A i \in 1 .. Len(events) - 1 : waiting[events[i].fd] # c
  <2>. TAKE i \in 1 .. Len(events) - 1
  <2>1. i \in DOMAIN events /\ i # Len(events) /\ events[i].fd \in Fd
    BY <1>2, <1>6 DEF Shape
  <2>2. events[i].fd # events[Len(events)].fd
    BY <1>1, <1>5, <2>1 DEF EventInv
  <2>. QED
    BY <1>1, <1>8, <1>9, <2>1, <2>2 DEF WaitInv
<1>11. c \in Co /\ co \in [Co -> CoType] /\ co[c] \in CoType
  BY <1>1, <1>8 DEF Types
<1>12. PICK st \in SUBSET Bits : st \subseteq {"FDEOF"} /\ co' = [co EXCEPT ![c].status = st]
  BY DEF EventResumes, nty_coroutine_resume, Bits
<1>13. [co[c] EXCEPT !.status = st] \in CoType
  BY <1>11, <1>12 DEF CoType
<1>14. co' \in [Co -> CoType]
  BY <1>11, <1>12, <1>13
<1>15. \A d \in Co : co'[d].alive = co[d].alive /\ co'[d].fd = co[d].fd /\ co'[d].call = co[d].call
  BY <1>11, <1>12 DEF CoType
<1>16. /\ co'[c].status = st
       /\ \A d \in Co \ {c} : co'[d].status = co[d].status
  BY <1>11, <1>12 DEF CoType
<1>17. \A d \in Co : co'[d].sleep_usecs = co[d].sleep_usecs
  BY <1>11, <1>12 DEF CoType
<1>18. Types'
  BY <1>1, <1>3, <1>14, <1>8, <1>6 DEF Types
<1>19. QueueInv'
  BY <1>1, <1>3 DEF QueueInv
<1>20. PlaceInv'
  BY <1>1, <1>2, <1>3, <1>4, <1>15, <1>8, <1>9 DEF PlaceInv, Shape
<1>21. WaitInv'
  BY <1>1, <1>2, <1>3, <1>15 DEF WaitInv, Shape
<1>22. EventInv'
  BY <1>1, <1>2, <1>3, <1>8, <1>4, <1>6, <1>10 DEF EventInv, Shape
<1>23. StatusInv'
  BY <1>1, <1>2, <1>3, <1>4, <1>15, <1>16, <1>8, <1>9, <1>12 DEF StatusInv, Shape
<1>24. SleepInv'
  BY <1>1, <1>2, <1>3, <1>4, <1>8 DEF SleepInv, Shape
<1>25. TimerInv'
  BY <1>1, <1>2, <1>3, <1>17 DEF TimerInv, Shape
<1>26. ProcInv'
  BY <1>1, <1>3 DEF ProcInv
<1>. QED
  BY <1>18, <1>19, <1>20, <1>21, <1>22, <1>23, <1>24, <1>25, <1>26 DEF IInv

\* Time passes.
LEMMA TickKeepsInv ==
    ASSUME IInv, Tick
    PROVE  IInv'
<1>1. /\ Types /\ QueueInv /\ PlaceInv /\ WaitInv /\ EventInv
      /\ StatusInv /\ SleepInv /\ TimerInv /\ ProcInv
  BY DEF IInv
<1>2. Shape
  BY <1>1, ShapeOfTypes
<1>3. /\ UNCHANGED <<ready, sleeping, waiting, co, curr, phase, events>>
      /\ UNCHANGED <<registered, open, slept, proc>>
      /\ now' = now + 1
  BY DEF Tick, trees
<1>4. Ready' = Ready
  BY <1>3 DEF Ready
<1>5. Types'
  BY <1>1, <1>3 DEF Types
<1>6. QueueInv'
  BY <1>1, <1>3 DEF QueueInv
<1>7. PlaceInv'
  BY <1>1, <1>3, <1>4 DEF PlaceInv
<1>8. WaitInv'
  BY <1>1, <1>3 DEF WaitInv
<1>9. EventInv'
  BY <1>1, <1>3, <1>4 DEF EventInv
<1>10. StatusInv'
  BY <1>1, <1>3, <1>4 DEF StatusInv
<1>11. SleepInv'
  BY <1>1, <1>3, <1>4 DEF SleepInv
<1>12. TimerInv'
  BY <1>1, <1>2, <1>3 DEF TimerInv, Shape
<1>13. ProcInv'
  BY <1>1, <1>3 DEF ProcInv
<1>. QED
  BY <1>5, <1>6, <1>7, <1>8, <1>9, <1>10, <1>11, <1>12, <1>13 DEF IInv

\* A step in which the process fails changes proc alone.
LEMMA FailKeepsInv ==
    ASSUME IInv, NEW how, Fail(how), how # "already waits",
           ~ slept => how \notin {"dangling pointer", "broken queue"}
    PROVE  IInv'
<1>1. /\ Types /\ QueueInv /\ PlaceInv /\ WaitInv /\ EventInv
      /\ StatusInv /\ SleepInv /\ TimerInv /\ ProcInv
  BY DEF IInv
<1>2. Shape
  BY <1>1, ShapeOfTypes
<1>3. /\ UNCHANGED <<ready, sleeping, waiting, co, curr, phase, events>>
      /\ UNCHANGED <<registered, open, now, slept>>
      /\ proc' = how
  BY DEF Fail, trees, kernel, Stays
<1>4. Ready' = Ready
  BY <1>3 DEF Ready
<1>5. Types'
  BY <1>1, <1>3 DEF Types
<1>6. QueueInv'
  BY <1>1, <1>3 DEF QueueInv
<1>7. PlaceInv'
  BY <1>1, <1>3, <1>4 DEF PlaceInv
<1>8. WaitInv'
  BY <1>1, <1>3 DEF WaitInv
<1>9. EventInv'
  BY <1>1, <1>3, <1>4 DEF EventInv
<1>10. StatusInv'
  BY <1>1, <1>3, <1>4 DEF StatusInv
<1>11. SleepInv'
  BY <1>1, <1>3, <1>4 DEF SleepInv
<1>12. TimerInv'
  BY <1>1, <1>3 DEF TimerInv
<1>13. ProcInv'
  BY <1>3 DEF ProcInv
<1>. QED
  BY <1>5, <1>6, <1>7, <1>8, <1>9, <1>10, <1>11, <1>12, <1>13 DEF IInv

\* A coroutine queues itself and yields; it is queued already only if it
\* runs because a timer resumed it.
LEMMA RequeueStep ==
    ASSUME IInv, NEW c \in Co, UserCode(c), Requeue(c)
    PROVE  IInv'
<1>1. CASE c \in Ready /\ Fail("broken queue")
  <2>1. slept
    BY <1>1 DEF IInv, SleepInv, UserCode, Running
  <2>. QED
    BY <1>1, <2>1, FailKeepsInv
<1>2. CASE Requeues(c)
  BY <1>2, RequeueKeepsInv
<1>. QED
  BY <1>1, <1>2 DEF Requeue, Requeues

\* nty_schedule_sched_wait with a status that has no wait bit: it does not
\* find the coroutine waiting already.
LEMMA SchedWaitStep ==
    ASSUME IInv, NEW c \in Co, NEW f \in Fd, NEW h \in Used, NEW status \in SUBSET Bits,
           Running(c), co[c].call # NULL => co[c].fd = f,
           "WAIT_READ" \notin status, "FDEOF" \notin status,
           nty_schedule_sched_wait(c, f, h, status)
    PROVE  IInv'
<1>. DEFINE st == status \cup (IF h.ev = "out" THEN {"WAIT_READ"} ELSE {})
<1>1. status \cap {"WAIT_READ", "WAIT_WRITE"} = {}
  BY DEF Bits
<1>2. st \in SUBSET Bits /\ "FDEOF" \notin st
  BY DEF Bits
<1>3. CASE Fail("descriptor taken")
  BY <1>3, FailKeepsInv
<1>4. CASE Waits(c, f, h, st)
  <2>. HIDE DEF st
  <2>. QED
    BY <1>2, <1>4, WaitKeepsInv
<1>. QED
  BY <1>1, <1>3, <1>4 DEF nty_schedule_sched_wait, Waits

\* A call of a hook.
LEMMA CallHookStep ==
    ASSUME IInv, NEW c \in Co, CallHook(c)
    PROVE  IInv'
<1>1. PICK h \in Used, f \in Fd : UserCode(c) /\ nty_schedule_sched_wait(c, f, h, co[c].status)
  BY DEF CallHook
<1>2. co[c].status \in SUBSET Bits
  BY DEF IInv, Types, CoType
<1>3. /\ Running(c) /\ co[c].call = NULL
      /\ "WAIT_READ" \notin co[c].status /\ "FDEOF" \notin co[c].status
  BY <1>1 DEF UserCode, IInv, StatusInv
<1>. QED
  BY <1>1, <1>2, <1>3, SchedWaitStep

\* A hook after its poll: it polls again, fails its assertion or returns.
LEMMA HookResumedStep ==
    ASSUME IInv, NEW c \in Co, HookResumed(c)
    PROVE  IInv'
<1>. DEFINE h == co[c].call
            f == co[c].fd
<1>1. Running(c) /\ h # NULL
  BY DEF HookResumed
<1>2. h \in Used /\ f \in Fd /\ Descheduled(c) = {}
  <2>1. h \in Used \cup {NULL}
    BY DEF IInv, Types, CoType
  <2>. QED
    BY <1>1, <2>1 DEF IInv, PlaceInv, Descheduled
<1>3. CASE nty_schedule_sched_wait(c, f, h, Descheduled(c))
  <2>. HIDE DEF h, f
  <2>1. Descheduled(c) \in SUBSET Bits /\ co[c].fd = f
    BY <1>2 DEF f
  <2>. QED
    BY <1>1, <1>2, <1>3, <2>1, SchedWaitStep
<1>4. CASE Fail("assert(0)")
  BY <1>4, FailKeepsInv
<1>5. CASE Leaves(c)
  BY <1>5, LeaveKeepsInv
<1>6. open \subseteq Fd
  BY DEF IInv, Types
<1>. QED
  BY <1>1, <1>3, <1>4, <1>5, <1>6 DEF HookResumed, Leaves

\* What a running coroutine does.
LEMMA CoroutineStep ==
    ASSUME IInv, NEW c \in Co, Coroutine(c)
    PROVE  IInv'
<1>1. CASE nty_coroutine_create(c)
  BY <1>1, CreateKeepsInv
<1>2. CASE nty_coroutine_renice(c)
  BY <1>2, RequeueStep, CountKeepsInv DEF nty_coroutine_renice, Counts
<1>3. CASE nty_coroutine_sleep(c)
  BY <1>3, RequeueStep, TimerKeepsInv DEF nty_coroutine_sleep, SetsTimer
<1>4. CASE Exit(c)
  <2>1. CASE c \in Ready \cup sleeping /\ Fail("dangling pointer")
    <3>1. slept
      BY <1>4, <2>1 DEF Exit, UserCode, Running, IInv, SleepInv
    <3>. QED
      BY <2>1, <3>1, FailKeepsInv
  <2>2. CASE Exits(c)
    BY <2>2, ExitKeepsInv
  <2>. QED
    BY <1>4, <2>1, <2>2 DEF Exit, Exits
<1>5. CASE socket(c) \/ nty_socket(c) \/ close(c) \/ nty_close(c)
  BY <1>5, DescriptorKeepsInv DEF nty_socket, nty_close
<1>6. CASE CallHook(c)
  BY <1>6, CallHookStep
<1>7. CASE HookResumed(c)
  BY <1>7, HookResumedStep
<1>. QED
  BY <1>1, <1>2, <1>3, <1>4, <1>5, <1>6, <1>7 DEF Coroutine

\* What the scheduler does.
LEMMA SchedulerStep ==
    ASSUME IInv, nty_schedule_run
    PROVE  IInv'
<1>1. CASE NextTurn
  <2>1. Moves("turn", "done") \/ Moves("turn", "expired")
    BY <1>1 DEF NextTurn, Moves, trees
  <2>. QED
    BY <2>1, PhaseKeepsInv
<1>2. CASE nty_schedule_expired
  <2>1. CASE Due
    <3>. DEFINE c == RB_MIN
    <3>1. c \in sleeping /\ c \in Co
      BY <2>1, MinIsSleeping DEF Due, IInv, Types
    <3>2. TimerResumes(c)
      BY <1>2, <2>1, <3>1 DEF nty_schedule_expired, TimerResumes, Due
    <3>. HIDE DEF c
    <3>. QED
      BY <3>1, <3>2, ExpiredKeepsInv
  <2>2. CASE ~ Due
    <3>1. Moves("expired", "ready")
      BY <1>2, <2>2 DEF nty_schedule_expired, Moves
    <3>. QED
      BY <3>1, PhaseKeepsInv
  <2>. QED
    BY <2>1, <2>2
<1>3. CASE ReadyLoop
  <2>1. CASE Q!TAILQ_EMPTY(ready)
    <3>1. Moves("ready", "epoll")
      BY <1>3, <2>1 DEF ReadyLoop, Moves, trees
    <3>. QED
      BY <3>1, PhaseKeepsInv
  <2>2. CASE ~ Q!TAILQ_EMPTY(ready)
    <3>1. ReadyResumes(Q!TAILQ_FIRST(ready))
      BY <1>3, <2>2 DEF ReadyLoop, ReadyResumes, Q!TAILQ_EMPTY, Q!TAILQ_FIRST
    <3>. QED
      BY <3>1, ReadyKeepsInv
  <2>. QED
    BY <2>1, <2>2
<1>4. CASE nty_schedule_epoll
  <2>1. Moves("epoll", "turn") \/ Polls
    BY <1>4 DEF nty_schedule_epoll, Moves, Polls, trees
  <2>. QED
    BY <2>1, PhaseKeepsInv, PollKeepsInv
<1>5. CASE EventLoop
  <2>1. CASE events # <<>>
    <3>1. EventResumes(waiting[Last(events).fd])
      BY <1>5, <2>1 DEF EventLoop, EventResumes
    <3>. QED
      BY <3>1, EventKeepsInv
  <2>2. CASE events = <<>>
    <3>1. Moves("events", "turn")
      BY <1>5, <2>2 DEF EventLoop, Moves, trees
    <3>. QED
      BY <3>1, PhaseKeepsInv
  <2>. QED
    BY <2>1, <2>2
<1>. QED
  BY <1>1, <1>2, <1>3, <1>4, <1>5 DEF nty_schedule_run
-----------------------------------------------------------------------------
(***************************************************************************)
(* The theorems.                                                           *)
(***************************************************************************)
\* One coroutine is queued when nty_schedule_run begins.
LEMMA InitInv ==
    ASSUME Init
    PROVE  IInv
<1>1. PICK c \in Co : /\ co = [d \in Co |-> IF d = c THEN Created ELSE Unused]
                      /\ ready = Q!TAILQ_INSERT_TAIL(Q!TAILQ_INIT, c)
  BY DEF Init
<1>2. /\ sleeping = {} /\ waiting = [f \in Fd |-> NULL]
      /\ curr = NULL /\ phase = "turn" /\ events = <<>>
      /\ registered = {} /\ open = {} /\ now = 0
      /\ slept = FALSE /\ proc = "running"
  BY DEF Init
<1>3. ready \in QueueType /\ Listed(ready) /\ Ready = {c}
  BY <1>1, EmptyQueue, TailInserted DEF Ready
<1>4. Created \in CoType /\ Unused \in CoType
  <2>1. 0 \in 0 .. Renice - 1
    BY NtyCoAssumption
  <2>. QED
    BY <2>1 DEF Created, Unused, CoType, Bits
<1>5. \A d \in Co : /\ co[d].alive = (d = c) /\ co[d].call = NULL
                     /\ co[d].sleep_usecs = 0
                     /\ "WAIT_READ" \notin co[d].status /\ "FDEOF" \notin co[d].status
  BY <1>1 DEF Created, Unused
<1>6. Types
  <2>1. co \in [Co -> CoType]
    BY <1>1, <1>4
  <2>2. <<>> \in Seq([fd : Fd, hup : BOOLEAN])
    OBVIOUS
  <2>. QED
    BY <1>2, <1>3, <2>1, <2>2, FS_EmptySet DEF Types
<1>7. QueueInv /\ PlaceInv
  BY <1>2, <1>3, <1>5 DEF QueueInv, PlaceInv
<1>8. WaitInv /\ EventInv
  BY <1>2, <1>5, NtyCoAssumption DEF WaitInv, EventInv
<1>9. StatusInv /\ SleepInv /\ TimerInv /\ ProcInv
  BY <1>2, <1>3, <1>5, NtyCoAssumption DEF StatusInv, SleepInv, TimerInv, ProcInv
<1>. QED
  BY <1>6, <1>7, <1>8, <1>9 DEF IInv

LEMMA StepInv ==
    ASSUME IInv, [Next]_vars
    PROVE  IInv'
<1>1. CASE UNCHANGED vars
  BY <1>1 DEF vars, IInv, Types, QueueInv, PlaceInv, WaitInv, EventInv, StatusInv,
              SleepInv, TimerInv, ProcInv, Ready
<1>2. CASE nty_schedule_run
  BY <1>2, SchedulerStep
<1>3. CASE \E c \in Co : Coroutine(c)
  BY <1>3, CoroutineStep
<1>4. CASE Tick
  BY <1>4, TickKeepsInv
<1>. QED
  BY <1>1, <1>2, <1>3, <1>4 DEF Next

\* Every reachable state satisfies the inductive invariant.
THEOREM Invariance == Spec => []IInv
<1>1. Init => IInv
  BY InitInv
<1>2. IInv /\ [Next]_vars => IInv'
  BY StepInv
<1>. QED
  BY <1>1, <1>2, PTL DEF Spec

\* However the coroutines of a program call the library, one that is neither
\* running nor freed is in the ready queue or under the descriptor its hook
\* polls, and nobody else is under it.
THEOREM NothingIsLost == Spec => []NoLostCoroutine
<1>1. IInv => NoLostCoroutine
  <2>. SUFFICES ASSUME IInv PROVE NoLostCoroutine
    OBVIOUS
  <2>1. \A c \in Co : /\ co[c].status \subseteq Bits /\ co[c].ops \in 0 .. Renice - 1
                       /\ co[c].sleep_usecs \in Nat
                       /\ co[c].fd \in Fd \cup {NULL} /\ co[c].call \in Used \cup {NULL}
    BY DEF IInv, Types, CoType
  <2>2. TypeOK
    BY <2>1 DEF IInv, Types, TypeOK
  <2>3. \A c \in Alive : c = curr \/ c \in Ready \/ co[c].call # NULL
    BY DEF IInv, PlaceInv, Alive
  <2>4. \A c \in Co, f \in Fd :
            waiting[f] = c <=> c \in Alive /\ co[c].call # NULL /\ co[c].fd = f
    BY DEF IInv, PlaceInv, WaitInv, Alive
  <2>. QED
    BY <2>2, <2>3, <2>4 DEF NoLostCoroutine
<1>. QED
  BY <1>1, Invariance, PTL

\* nty_schedule_search_wait never returns the null pointer that the event
\* loop would dereference.
THEOREM EventsAreWaitedFor == Spec => []EventsHaveWaiter
<1>1. IInv => EventsHaveWaiter
  BY NtyCoAssumption DEF IInv, EventInv, EventsHaveWaiter
<1>. QED
  BY <1>1, Invariance, PTL

\* The links of the ready queue are those of one list, of coroutines that the
\* ready loop can resume.
THEOREM QueueIsSound == Spec => []ReadyCanRun
<1>1. IInv => ReadyCanRun
  <2>. SUFFICES ASSUME IInv PROVE ReadyCanRun
    OBVIOUS
  <2>1. Q!QueueWellFormed(ready)
    BY ListedIsWellFormed DEF IInv, Types, QueueInv
  <2>2. Ready \subseteq Co
    BY DEF Ready, Q!Queued
  <2>3. Ready \subseteq Alive /\ \A c \in Ready : "FDEOF" \notin co[c].status
    BY <2>2 DEF IInv, PlaceInv, StatusInv, Alive
  <2>. QED
    BY <2>1, <2>3 DEF ReadyCanRun
<1>. QED
  BY <1>1, Invariance, PTL

\* The assertion of nty_schedule_sched_wait never fails.
THEOREM NobodyWaitsTwice == Spec => []NotAlreadyWaiting
<1>1. IInv => NotAlreadyWaiting
  BY DEF IInv, ProcInv, NotAlreadyWaiting
<1>. QED
  BY <1>1, Invariance, PTL

\* Without nty_coroutine_sleep for a time no coroutine is queued twice or
\* freed while something points to it.
THEOREM NoSleepNoDangling == Spec => []SafeWithoutSleep
<1>1. IInv => SafeWithoutSleep
  BY DEF IInv, ProcInv, SafeWithoutSleep
<1>. QED
  BY <1>1, Invariance, PTL

\* No coroutine's nty_coroutine_sleep takes another's timer from the tree.
THEOREM TimersStayWithOwner == Spec => TimersAreOwn
<1>. DEFINE Own == \A c \in sleeping \ sleeping' : c \in {curr, curr'}
<1>1. ASSUME IInv, Next PROVE Own
  <2>1. CASE nty_schedule_expired
    BY <2>1 DEF nty_schedule_expired, nty_coroutine_resume
  <2>2. CASE NextTurn \/ ReadyLoop \/ nty_schedule_epoll \/ EventLoop \/ Tick
    BY <2>2 DEF NextTurn, ReadyLoop, nty_schedule_epoll, EventLoop, Tick, trees
  <2>3. ASSUME NEW c \in Co, nty_coroutine_sleep(c) PROVE Own
    <3>1. FoundUnder(c) \subseteq {c}
      BY <1>1, ShapeOfTypes DEF IInv, FoundUnder, TimerInv, Shape
    <3>2. curr = c
      BY <2>3 DEF nty_coroutine_sleep, UserCode, Running
    <3>3. ASSUME Requeue(c) PROVE UNCHANGED sleeping
      BY <3>3 DEF Requeue, Fail, trees
    <3>4. PICK ms \in Msecs : Requeue(c) \/ nty_schedule_sched_sleepdown(c, ms)
      BY <2>3 DEF nty_coroutine_sleep
    <3>. QED
      BY <3>1, <3>2, <3>3, <3>4 DEF nty_schedule_sched_sleepdown
  <2>4. ASSUME NEW c \in Co, Coroutine(c), ~ nty_coroutine_sleep(c) PROVE UNCHANGED sleeping
    <3>1. CASE nty_coroutine_create(c) \/ nty_coroutine_renice(c) \/ Exit(c)
      BY <3>1 DEF nty_coroutine_create, nty_coroutine_renice, Requeue, Exit, Fail, trees
    <3>2. CASE socket(c) \/ nty_socket(c) \/ close(c) \/ nty_close(c)
      BY <3>2 DEF socket, nty_socket, close, nty_close, trees
    <3>3. ASSUME NEW f, NEW h, NEW st, nty_schedule_sched_wait(c, f, h, st)
          PROVE  UNCHANGED sleeping
      BY <3>3 DEF nty_schedule_sched_wait, Fail, trees
    <3>4. CASE CallHook(c)
      BY <3>3, <3>4 DEF CallHook
    <3>5. CASE HookResumed(c)
      BY <3>3, <3>5 DEF HookResumed, Fail, trees
    <3>. QED
      BY <2>4, <3>1, <3>2, <3>4, <3>5 DEF Coroutine
  <2>. QED
    BY <1>1, <2>1, <2>2, <2>3, <2>4 DEF Next, nty_schedule_run
<1>2. IInv /\ [Next]_vars => [Own]_vars
  BY <1>1
<1>. QED
  BY <1>2, Invariance, PTL DEF Spec, TimersAreOwn
=============================================================================
