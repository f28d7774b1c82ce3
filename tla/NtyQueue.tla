------------------------------ MODULE NtyQueue ------------------------------
(***************************************************************************)
(* The tail queue macros of nty_queue.h, as operators on a queue           *)
(*   [first, last, next, prev].                                            *)
(* tqh_last and tqe_prev hold the address of a pointer to an element: of   *)
(* the tqe_next of the element before, or of tqh_first.  Such an address   *)
(* is modelled by what it lies in, an element or Head.                     *)
(***************************************************************************)
EXTENDS Integers, FiniteSets

CONSTANTS Elem,   \* what can be queued
          NULL    \* the null pointer

Head == "head"

TAILQ_INIT == [first |-> NULL, last |-> Head,
               next |-> [e \in Elem |-> NULL], prev |-> [e \in Elem |-> NULL]]

TAILQ_EMPTY(q) == q.first = NULL
TAILQ_FIRST(q) == q.first

\* *addr, and q after *addr = e.
Deref(q, addr) == IF addr = Head THEN q.first ELSE q.next[addr]
Store(q, addr, e) ==
    IF addr = Head THEN [q EXCEPT !.first = e] ELSE [q EXCEPT !.next[addr] = e]

\* The cast of tqh_last to a queue head reads its second field: tqe_prev of
\* the last element, or tqh_last again when the queue is empty.
TAILQ_LAST(q) == Deref(q, IF q.last = Head THEN q.last ELSE q.prev[q.last])

TAILQ_INSERT_TAIL_First(q, e) ==  \* mutant: TAILQ_INSERT_HEAD
    LET q1 == [q EXCEPT !.next[e] = q.first, !.prev[e] = Head, !.first = e]
    IN  IF q.first = NULL THEN [q1 EXCEPT !.last = e] ELSE [q1 EXCEPT !.prev[q.first] = e]
TAILQ_INSERT_TAIL(q, e) ==
    LET q1 == [q EXCEPT !.next[e] = NULL, !.prev[e] = q.last]
    IN  [Store(q1, q.last, e) EXCEPT !.last = e]

\* The fields of a removed element are dead; they are cleared.
TAILQ_REMOVE_KeepsLast(q, e) ==  \* mutant: the else branch is lost
    LET q1 == IF q.next[e] # NULL THEN [q EXCEPT !.prev[q.next[e]] = q.prev[e]] ELSE q
    IN  [Store(q1, q.prev[e], q.next[e]) EXCEPT !.next[e] = NULL, !.prev[e] = NULL]
TAILQ_REMOVE(q, e) ==
    LET q1 == IF q.next[e] # NULL
              THEN [q EXCEPT !.prev[q.next[e]] = q.prev[e]]
              ELSE [q EXCEPT !.last = q.prev[e]]
    IN  [Store(q1, q.prev[e], q.next[e]) EXCEPT !.next[e] = NULL, !.prev[e] = NULL]

\* The elements of q.
Queued(q) == {e \in Elem : q.prev[e] # NULL}

\* s[1 .. n] are the elements of q from the first to the last, each once,
\* and the links say so in both directions.
Lists(q, s, n) ==
    /\ \A i, j \in 1 .. n : s[i] = s[j] => i = j
    /\ Queued(q) = {s[i] : i \in 1 .. n}
    /\ q.first = IF n = 0 THEN NULL ELSE s[1]
    /\ q.last = IF n = 0 THEN Head ELSE s[n]
    /\ \A i \in 1 .. n : /\ q.prev[s[i]] = IF i = 1 THEN Head ELSE s[i - 1]
                         /\ q.next[s[i]] = IF i = n THEN NULL ELSE s[i + 1]

\* The links are those of one queue that holds every element.
QueueWellFormed(q) ==
    LET n == Cardinality(Queued(q))
    IN  \E s \in [1 .. n -> Queued(q)] : Lists(q, s, n)
=============================================================================
