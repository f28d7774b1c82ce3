# A TLA+ verification of the KeyValueStore server

The program is a key-value server in C.  Clients send text commands over TCP
(`HSET Name Asch`); the server runs one coroutine per connection on the NtyCo
library, splits the message into tokens and hands them to one of five storage
engines, chosen by the first letter of the command.  Everything runs in one
thread: a command is executed from its `recv` to its `send` without
interruption, and the interleaving is that of coroutines at their socket calls.

## Inventory

| Part | Source | State | Operations | What makes it correct |
|---|---|---|---|---|
| array engine | `kvstore.c` 140-301 | `array_table`, `array_count`, copies of keys and values | SET GET COUNT DELETE EXIST | no key twice, no half item, the count is exact, the free-slot loop stays in the table, nothing leaks |
| hash engine | `hash.c`, wrappers in `kvstore.c` | bucket chains, `count`, a mutex | HSET HGET HCOUNT HDELETE HEXIST | a node hangs once in its bucket, the count is exact, the mutex is given back |
| dhash engine | `dhash.c` | bucket chains | DSET DGET DCOUNT DDELETE DEXIST | the values of one key keep their order, no leak |
| red-black tree engine | `rbtree.c` | nodes with parent, left, right, colour; a shared nil | RSET RGET RCOUNT RDELETE REXIST | order, colours, parent pointers, count |
| skip list engine | `skiptable.c` | levels of forward pointers, `nb_elements` | ZSET ZGET ZCOUNT ZDELETE ZEXIST | sorted levels, each a subsequence of the one below, count |
| protocol | `kvstore.c` 590-1168 | the receive and answer buffers | split into tokens, dispatch, format | every message that is a command gets its answer |
| server and readers | `kvstore.c` 1171-1291 | `cli_fd` of the accepting coroutine, `fd` of each reader | accept, create a reader, receive, answer, close | each connection has its reader, descriptors are owned, requests are answered |
| scheduler | `NtyCo/core` | ready queue, waiting and sleeping tree, epoll events, one shared stack | create, resume, yield, renice, sleep, sched_wait, desched_wait, expired, epoll, run | no coroutine lost, freed twice or in two places, no event without a coroutine, ready and due coroutines are resumed |
| socket hooks | `NtyCo/core/nty_socket.c` | none of their own | `accept`, `recv`, `send`, `connect`, ... and their `nty_` forms | each polls, yields, and leaves the tree and the interest list as it found them |
| tree and queue macros | `NtyCo/core/nty_tree.h`, `nty_queue.h` | links and colours inside the coroutines | RB_INSERT, RB_REMOVE, RB_FIND, RB_NFIND, RB_NEXT, ...; TAILQ_INSERT_TAIL, TAILQ_REMOVE, ... | a red-black search tree; a list whose tail pointer is right also when it is empty |
| test program | `testcase.c` | its place in the script | five suites and four load tests of command and expected answer | the server fulfils every expectation |

How they interact: the scheduler resumes a coroutine; the coroutine calls the
socket hooks, which put it in the waiting tree and yield; a reader that has
received calls `kvs_protocol`, which calls one engine and formats its return
code.  The engines share no state.  What the parts do share is the process:
an engine that dies or blocks on its mutex takes every client with it.

What is hard here: (1) events of one epoll batch are handled one after the
other while the coroutines resumed for the earlier ones close descriptors,
exit, and accept new connections that get the same numbers; (2) all coroutines
run on one stack that is copied out and in, and a new reader gets the address
of a cell of that stack; (3) the open-file limit and peers that reset; (4) two
representations of one fact (a count beside a table) in each engine;
(5) allocation failures in the middle of an operation; (6) a mutex in a
program with one thread; (7) commands have no end mark, so that what one
`recv` returns, a part of a command or several run together, is taken for one;
(8) a coroutine can be in the sleeping tree, the waiting tree and the ready
queue at once, because `nty_coroutine_sleep` does not yield.

The complete list, by line, is under `hazards` in `PROJECT.json`.

## Modules

| Module | What it is |
|---|---|
| `KVReplies` | the five ways `kvs_parser_protocol` formats an engine's result |
| `KVMap` | abstract: a map with optional capacity, one answer per command |
| `StackMap` | abstract: a stack of values per key |
| `CountedMap` | abstract: a map whose SETs overwrite and whose count is that of the SETs less the DELETEs |
| `ArrayStore` | the array engine; implements `KVMap` |
| `HashTable` | the hash engine; implements `KVMap` as long as it answers |
| `DHashTable` | the dhash engine; implements `StackMap` |
| `RBTree` | the red-black tree engine; implements `KVMap` but for the answer to an RGET that misses |
| `SkipTable` | the skip list engine; implements `CountedMap` |
| `KVProtocol` | tokens and the command table: what the server makes of the bytes of a `recv` |
| `KVStore` | composition: `kvs_protocol`, its dispatch and the five engine modules in one process, with the test program and a second client |
| `NtyServer` | accepting coroutine, readers, socket hooks and scheduler, as kvstore uses them |
| `NtyCo` | the coroutine library under programs that create, renice, sleep, exit and call the hooks in any order |
| `NtyQueue` | the tail queue macros, on pointers; used by `NtyCo` |
| `NtyTree` | the red-black tree macros; implements `KeyedSet` |
| `KeyedSet` | abstract: a set of elements no two of which have the same key |
| `MCx` | x with small constants for TLC |
| `xProofs` | the theorems about x: `ArrayStore`, `HashTable`, `DHashTable`, `SkipTable`, `RBTree`, `NtyServer`, `NtyCo` |
| `CommonLemmas` | facts these proofs share: least and greatest elements, sequences, chains of nodes and their number |

Definitions keep the names of the functions they model.  A definition `X_Y`
marked `mutant` is `X` with a plausible bug and stands before it; no
specification uses it.  It exists to show that a property can fail: with `X`
replaced by `X_Y`, TLC must report the violation.

### Engines

An engine's variables are the program's: the table or the chains, and the
counter.  A chain is a sequence, newest node first; the walk to the first
matching node is the least matching index.  Each command is one action, which
contains the engine function, the wrapper and the command's case of
`kvs_parser_protocol`; the answer is kept in `reply` with the command it
answers.  Early returns are disjuncts.  `heap` counts live allocations and
stands for nothing in the program: it makes a leak visible.

Missing tokens are null pointers.  `SET` asserts three tokens, so its key and
value are present; the array and hash engines test for NULL elsewhere; dhash
does not, and `NullToken` ends the process.  `oob` records a write past
`array_table`.

In `HashTable`, `lock` is the mutex.  The thread that finds it held is the one
that left it held, so `Relock` is the end of the server.  A key of
`MAX_KEY_LEN` bytes or more (`LongKey`) is stored without its terminating zero
and `strcmp` reads on into the value: the node is found under the pair of key
and value.  `_hash` and `hash_function` are constants `Hash` and
`hash_function`: any function into the buckets; that their arithmetic stays in
range is not claimed here: a key with bytes above 127 can give `_hash` a
negative sum (see the hazard at `hash.c:61`).  The bucket array
of `hash.c` is not cleared by the program; it is the first use of that memory
and the kernel hands it out as zeros, which `Init` assumes.

Values are shorter than `MAX_VALUE_LEN` in the three engines that copy them
into an array of that size (`hash.c:72`, `rbtree.c:495`, `skiptable.c:67` and
`129`): `strncpy` then copies all of the value and its final zero, and the copy
is the value.  The array and dhash engines copy by length and need no bound.

`RBTree` and `SkipTable` name a node by its key: addresses cannot be observed
and a key is in at most one node.  Keys are numbers, ordered as `strcmp` orders
the strings they stand for, and shorter than `MAX_KEY_LEN`.  So the return of
`rbtree_insert` for an equal key (`rbtree.c:229`) is never taken: the search
before it has missed.  Both engines take
and release their mutex on every path (or not at all), so it is always free
between commands and is left out.

`RBTree` has the tree's pointers and colours in `T`.  Each branch of the code
exists for the left and for the right side; the model has it once, for a side.
When a node with two children is deleted, the code unlinks its successor and
copies the successor's key and value into the node; in the model the node takes
the successor's name (`Renamed`).  One turn of `rbtree_insert_fixup` or
`rbtree_delete_fixup` is one action (`InsertFixup`, `DeleteFixup`), between the
action that changes the tree and the one that ends the loop and answers, so
that the loop's invariant can be stated and its progress checked; `Idle` keeps
other commands out, as the single thread does.  `nil` is a node like the others
whose parent `rbtree_delete` sets and nothing clears.  The refinement compares
answers with `KVMap` after mapping the one deviation, the empty value an RGET
that misses answers, to the map's answer (`MapReply`).

`SkipTable` has the forward pointers of every level; `rand()` is a choice of
the new node's height.  A freed node has height 0, so that a pointer to it is
visible.  Not included is the pointer array that `delete` does not free (a
listed hazard).

### Server and scheduler

| Model | Code |
|---|---|
| `ready` | `sched->ready` |
| `waiting[f]` | the coroutine of `sched->waiting` with descriptor f |
| `batch` | `eventlist[0 .. num_new_events - 1]`, taken from the end |
| `readers[r]` | a `server_reader`: not running yet, in `recv`, in `send`, and its `fd` |
| `cell` | the stack cell of `server`'s `cli_fd` |
| `proc` | the process: running, aborted by an assertion, killed by a signal |
| `conn`, `fdOf` | external: each client's connection and its descriptor |

An action is the stretch between a resume and the next yield: resume,
`nty_schedule_desched_wait`, the rest of the hook, the body of the coroutine,
the next hook, `nty_schedule_sched_wait`, yield.  So a reader that stays
waiting on the same descriptor leaves `waiting` unchanged.  Every hook waits
with timeout 1, for which `nty_schedule_sched_wait` returns before it puts the
coroutine to sleep; the sleeping tree stays empty and is left out.

`ServerResumed` leaves the accepted descriptor in `cell`, and `StartReader`
reads it there.  In between, readers resumed in the same batch overwrite it
(`StackJunk`): `server_reader`'s buffer lies over the cell and is cleared, so
that in the repository's build the value found is 0; the constant allows -1
too, for whatever other number the cell could hold that is no descriptor.  Descriptor 0 is the server's standard input, which is assumed quiet.

`nty_schedule_search_wait` writes through the tree's answer without a test.
There is no action for an event without a coroutine; `EventsHaveWaiter` says
that it does not occur.

A client's answers fill the socket buffer after `SendBuffer` of them, and the
send hook then waits.  A client that closes with unread answers resets the
connection: the next call returns the error (`reset`), later ones meet a
closed connection (`dead`), where a `recv` returns 0 and a `send` raises
SIGPIPE.  A send that had to wait with a part of its answer sent returns that
part after a reset (`SendCutShort`) and the reader goes on.  Left out are an
`accept` that fails below the open-file limit (an aborted connection, `fcntl`)
and a coroutine for which there is no memory.  A `recv` returns everything queued; how it is cut into commands is
the subject of `KVStore`.

### The library

`NtyCo` is the same scheduler without the server: coroutines that create
others, renice, sleep, exit and call the hooks, in any order.
`nty_coroutine_yield` and `nty_coroutine_resume` are declared in
`nty_coroutine.h` too, but only the library calls them, and so it is in the
model.  Memory for a new coroutine is always found.  The clock never goes back;
the code reads `gettimeofday`, which the system can set, and `TimersAreOwn` and
`DueIsResumed` rest on that.  A library call is one
action of the coroutine that runs (`curr`), and so is each turn of a loop of
`nty_schedule_run`; between two actions of a coroutine nothing else runs.  A
hook is a record: what it polls for and which outcomes of the system call make
it poll again, abort or return.  `nty_poll_inner` is split where it yields,
into `CallHook` and `HookResumed`; what resumes it can be its event or a timer.
The kernel is free: `epoll_wait` reports any registered descriptors in any
order, with or without EPOLLHUP, and a system call has any of its outcomes,
but always fails on a closed descriptor.

Two things the code does are kept as they are.  `nty_coroutine_sleep` with a
time enters the sleeping tree and goes on (the `//yield` at the end of
`nty_schedule_sched_sleepdown` is a comment); and `nty_schedule_sched_wait`
adds the enum values of WAIT_READ and WAIT_WRITE, 0 and 1, where bits are
meant, so that POLLIN sets nothing and POLLOUT the bit of WAIT_READ.

The ready queue is `NtyQueue`: first, last, next and prev, with `tqh_last` and
`tqe_prev` as what they are, addresses of a pointer.  The trees are sets here;
that the macros make a set of them is what `NtyTree` shows, for which
`KeyedSet` is the specification.

### The whole server

`KVStore` has the five engine modules as instances over one `proc` and one
`reply`, and `kvs_protocol` before them.  Its script is `testcase.c`, line for
line as far as the answers go.  A message is a sequence of parts: a word is
two parts, a space one, the engine's letter one, so that a stream can be cut
inside a word and before the letter (what is left of `HDELETE` is `DELETE`,
another command).  The second client sends without waiting and its stream is
cut at every place.  What happens after a write behind `tokens` or a read
behind the buffer is undefined: the process ends (`overrun`), or goes on.

## Runs

| Run | Bounds | Result |
|---|---|---|
| `array` | 3 slots, 4 keys, 2 values, failing allocations | all invariants hold; implements `KVMap` with capacity 2 |
| `hash` | 2 buckets (3 keys + 1), 2 values | chains, count, mutex; implements `KVMap` |
| `hash_blocks` | the same | violated: HDELETE in an empty bucket keeps the mutex |
| `dhash` | 2 buckets, 3 keys, 2 values, 3 nodes, 1 lost string | implements `StackMap`; only a failed DSET leaks |
| `rbtree` | 4 keys, 2 values, failing allocations | all commands: implements `KVMap`, exact count, no lost node |
| `rbtree_deep` | 10 keys, 1 value, RSET and RDELETE only | order, parents, colours, black heights; the loops' invariants and progress |
| `skiptable` | 3 keys, 3 levels, 2 values, count up to 4 | every level leads to its next node; implements `CountedMap` |
| `server` | 3 clients, one sends ahead, 2 descriptors | queue, tree and descriptors consistent; polite clients that leave at any moment do not kill the server; every request on a connection with a reader in `recv` is received |
| `server_shared_stack` | 2 clients, 2 descriptors | violated: a client accepted beside another's request is never served |
| `ntyco` | 2 coroutines, 2 descriptors, 4 kinds of hooks, 1 tick, renice yields at the second call | queue, trees and batch consistent; ready coroutines are resumed and due timers taken |
| `ntytree` | 10 keys, 11 elements | a red-black search tree; every query right; implements `KeyedSet` |
| `kvstore` | the whole script with 2 keys per load; 3 tokens, 10 parts per buffer; 5 messages of the second client | every expectation of `testcase.c` holds while the process lives; its commands neither end the process nor keep the mutex; the script ends |

Why the bounds are enough.  *Array*: with three slots the capacity is two, so
the table is full, empty and holed before and after a stored item, and two
more keys are refused; a longer table repeats these cases, and the theorems
below do not depend on the size.  *Hash, dhash*: a bucket with three nodes has
a head, a middle and an end, the three paths of the delete loops; a second
bucket gives the miss in an empty bucket beside one in a full bucket.
*Red-black tree*: ten keys are the fewest with which a delete fixup moves up
twice before it ends (eight for an insert fixup), so that a turn starts from
what an earlier turn left; below that every case is met at the first turn only.
The deep run leaves out the commands that only read (`ChangingSpec`) and does
not distinguish states by the last answer (the view `WithoutReply`): no action
reads `reply` and no property of that run mentions it.  *Skip list*: three
keys on three levels give a node in front, in the middle and at the end, of
each height, and a new node higher than, as high as and lower than the list;
a count of 4 with three keys has an overwritten one.  *Server*: two descriptors for three clients give a batch of three events
(accept and two readers), the reuse of a descriptor closed earlier in the same
batch, and the open-file limit; a client with two requests under way fills the
buffer of one answer, so that a send blocks and a reset meets it there.
`Reader` has as many names as readers can be alive: one per descriptor, one
each on descriptors 0 and -1, one new.  *NtyCo*: two coroutines
are one that acts while the other is queued, waits, sleeps or has exited, and
two descriptors give a batch whose first event changes the second.  The four hooks
have every kind of outcome; the others are the same records or have fewer
outcomes.  *NtyTree*: ten keys as for `rbtree.c`; the view leaves out what the
last call returned, which no action reads.  *KVStore*: `MAX_TOKENS` is 3, the
longest command, so that one token more overruns, and the
buffer of 10 parts holds the longest command (9) and the terminating zero.
The second client's messages have every way to end the process and, cut
anywhere, change nothing stored: that a client that stores the same keys
changes the answers is no fault.

Deadlock is checked for the array engine and the two red-black trees; in the
others the process really may end (crash, block, abort, signal, no coroutine
left), and the configurations say so.

**Fairness.**  `NtyServer` assumes weak fairness of one turn of
`nty_schedule_run`, nothing more: it is the only thread, its loop never ends,
and `nty_schedule_epoll` blocks in `epoll_wait` only when nothing is ready.
Clients are never obliged to connect, send, read or leave.  There is no
fairness between coroutines: `RequestsReceived` follows because a batch is
worked off before the next `epoll_wait`, which reports every ready descriptor.
(`epoll_wait` is given room for `NTY_CO_MAX_EVENTS`, 1024 * 1024, events; fewer
descriptors are assumed.)
`NtyCo` assumes the same of each turn of the scheduler, and of a coroutine that
it comes to its next poll or to its end: one that computes for ever stops every
other, whatever the library does.  `KVStore` assumes that the reader of the
test program gets its turns and that the program itself goes on; nothing is
assumed of the second client.

## What the violations show

Each is a disagreement with a line of the repository, quoted under `findings`
in `PROJECT.json`, and was also reproduced with the compiled server.

1. `hash.c:201` returns with the mutex held.  After an HDELETE of a key whose
   bucket is empty the next HSET, HGET, HDELETE or HEXIST hangs the server.
2. `kvstore.c:1248` passes the address of a local on the shared stack; a
   reader resumed between accept and the new reader's start overwrites it, and
   the client is never served.

Other faults are behaviours of the models without a run of their own.  The
passing properties are stated so that they exclude exactly these:

* `hash.c:71` stores a key of 128 bytes or more without a terminating zero; a
  lookup does not find it although HSET answered SUCCESS (`LongKey`, which
  `Refines` takes to be empty).
* `kvstore.c:1248` creates a reader for a failed accept; the second one waits
  on descriptor -1 too and aborts the server at the assertion of
  `nty_schedule.c:172` (`proc` in `NtyServer`).
* `SET` with other than three tokens fails an assertion, dhash commands without
  their tokens and ZDELETE or ZEXIST without a key read through a null pointer,
  and a full buffer or more than 32 tokens run over an array.  All end
  the process for every client.  So do an allocation that fails in HSET
  (`CreateNodeFails`) and, outside the models, a negative bucket index.
  `TestIsHarmless` says that the commands of `testcase.c` do none of it, and
  that none of them keeps the mutex.
* `nty_coroutine_sleep` does not yield.  A coroutine that exits with its timer
  set leaves a dangling pointer in the sleeping tree; one that is resumed by
  the timer while it is queued can be queued a second time.  `SafeWithoutSleep`
  says that neither happens without it; kvstore does not call it.
* `nty_schedule_epoll` does not poll while the ready queue is not empty, so
  coroutines that requeue themselves keep the others from their sockets.
  `ReadyIsResumed` and `DueIsResumed` claim what remains.

Three engines differ from a plain map in a way no test or document mentions.  The
abstract specifications write the difference down, and the refinements show
that it is the only one:

* `dhash.c:100` stores a key twice; a DDELETE uncovers the older value
  (`StackMap`).  `testcase.c` sets each key once before it deletes it.
* `rbtree.c:513` uses the value of the nil node: an RGET of a key that is not
  stored answers an empty line (`MapReply`) and never the
  `FAILED: NO EXIST` of `kvstore.c:768`.
* `skiptable.c:417` counts every ZSET, also one that only overwrites: after two
  ZSETs of one key ZCOUNT answers 2 (`CountedMap`).

## Proofs

Seven of the modules have theorems, checked by TLAPS, for every value of their
constants: any number of keys, values, buckets, levels, slots, clients,
descriptors and coroutines.  The bounds of the runs (`MaxNodes`, `MaxElements`,
`MaxNow`, ...) stay constants of the specification; they may be any number.

| Module | Theorem | States |
|---|---|---|
| `ArrayStoreProofs` | `TypeCorrect`, `TableWellFormed`, `CountIsExact`, `WritesInBounds`, `NothingLeaks`, `Refinement` | `TypeOK`, `ItemsWellFormed`, `CountExact`, `SetInBounds`, `NoLeak`, `Refines` |
| `HashTableProofs` | `ChainsStayWellFormed`, `CountIsExact`, `BlocksOnlyOnEmptyBucket`, `Refinement` | `ChainsWellFormed`, `CountExact`, `FullTableNeverBlocks`, `Refines` |
| `DHashTableProofs` | `TypeCorrect`, `LeaksOnlyInFailedSet`, `Refinement` | `TypeOK`, `OnlyFailedSetLeaks`, `Refines` |
| `SkipTableProofs` | `LevelsAreSound`, `Refinement` | `LevelsSkipToNext`, `Refines` |
| `RBTreeProofs` | `StaysSearchTree`, `StaysRedBlack`, `FixupsKeepInvariant`, `FixupsEnd`, `CountIsExact`, `Refinement` | `SearchTree`, `RedBlack`, `FixupInvariant`, `FixupClimbs`, `CountExact`, `Refines` |
| `NtyServerProofs` | `NothingIsLost`, `EventsAreWaitedFor`, `DescriptorsAreOwn`, `PoliteClientsAreSafe` | `NoLostCoroutine`, `EventsHaveWaiter`, `OwnOpenDescriptor`, `PoliteClientsDoNotKill` |
| `NtyCoProofs` | `NothingIsLost`, `EventsAreWaitedFor`, `QueueIsSound`, `NobodyWaitsTwice`, `NoSleepNoDangling`, `TimersStayWithOwner` | `NoLostCoroutine`, `EventsHaveWaiter`, `ReadyCanRun`, `NotAlreadyWaiting`, `SafeWithoutSleep`, `TimersAreOwn` |

The assumptions are the named `ASSUME` of each module, and nothing else: null
is neither a key nor a value, hash functions lead into the table, sizes are
positive, keys of the skip list and of the red-black tree are finitely many
integers.  TLC evaluates each
of them in a run.  `Refinement` of `HashTable` has one hypothesis more,
`LongKey = {}`: a key of `MAX_KEY_LEN` bytes is stored under another text than
the one it is looked for with, and for such keys the engine is not a map.

Each module has an inductive invariant `IInv`, which holds initially and is kept
by every step (one lemma per action); the theorems follow from it.

**Array engine.**  `IInv == TypeOK /\ ItemsWellFormed /\ CountExact /\
SetInBounds /\ NoLeak`.  None of its parts is inductive alone.  `SetInBounds`
needs the count: the guard compares `array_count` with the size, and only
`CountExact` turns this into the existence of a slot without a key
(`FreeSlotFound`); that no item is half full makes that slot one that the loop,
which tests both pointers, accepts.  `CountExact` needs the slot to be free
before, and `TypeOK` needs `CountExact` so that a delete finds a positive
count.  The refinement needs that no key has two slots (otherwise a delete
would uncover another value).

**Hash engine.**  The checked invariants are inductive together, once the
finiteness of the set of nodes is added: a count that is exact stays a natural
number, well-formed chains make the node a delete finds the only one of its
key, and a mutex that is held keeps the bucket empty that was.  The counting of
nodes over all buckets (`LinkCounts`, `UnlinkCounts`) and what linking and
unlinking do to one chain (`LinkFront`, `UnlinkAt`) are in `CommonLemmas`.

**dhash engine.**  `heap` stays a natural number because it is never less than
three per node.  The refinement maps a key to the sequence of the values of its
nodes, in the order of the chain, which is defined by counting (`Rank`: how
many nodes of the key come up to this one; `Nth`: the node of a rank), not by
recursion, so that its effect under a link and an unlink can be proved.

**Skip list engine.**  The loops of the search are recursive functions, and the
provers have no induction for them.  They need none: that every level is a
chain to the next greater node (`Chain`) names the function the loop computes,
"the last smaller node of this level" (`IsPred`), which shows that a function
with the loop's equation exists; and a node from which the loop computed
something else would have a greatest such node, from which one turn leads to a
contradiction (`WalkEnds`).  The same argument over the levels, from the top,
gives where the search turns down on each (`UpdateIs`).  With that, a link and
an unlink keep every chain (`ChainLinked`, `ChainUnlinked`).  Beyond
`LevelsSkipToNext` the invariant says that a node has no pointer above its
height, that nodes and only nodes have values, and that the count, which also
grows on an overwrite, is at least the number of nodes, so that a delete never
makes it negative.

**Red-black tree engine.**  `SearchTree` and `RedBlack` speak of recursive
functions over a tree that every rotation rebuilds, and for these the provers
have no induction.  `IInv` therefore says that a function `B` (the keys below
each node) and a function `H` (the black nodes on each way down from it) exist
that satisfy, node by node, the equations of a search tree (`Tree`) and of the
black heights (`Heights`).  These equations determine what the recursive
functions compute: of the nodes where `Subtree`, `BlackHeight`, `rbtree_search`,
`InsertBelow` or the walk to the successor computed something else, one would
have no child among them (`LowestExists`), and one turn of the function leads
to a contradiction there.

A rotation changes `B` and `H` at its two nodes only (`TurnKeepsTree`,
`TurnKeepsBalance`), whatever hangs below and above them, so each turn of a
fixup is a few equations between the heights of the nodes near `z` or `x`
(`InsertTurnKeeps`, `DeleteTurnKeeps`).  `IInv` has three cases:

* between commands (`IdleOK`): a red-black tree of exactly the allocated nodes,
  which is also what the count says;
* in the insert fixup (`InsertOK`): only `z` may have a red parent or be a red
  root; the new node is in the tree and not counted yet;
* in the delete fixup (`DeleteOK`): the link from its parent to `x` counts one
  black node more, and only `x` may clash in colour with the nodes next to it;
  the deleted key is out of the tree, still counted and still allocated.

The one more belongs to the link and not to `x`, because `x` may be nil, which
hangs in many places; that `parent` of nil, written by `rbtree_delete`, is the
place meant is part of `DeleteOK` and has to survive the rotations.  A deletion
is proved in two steps: the unlinking of a node with at most one child
(`PrunedKeeps`), then the copying of its key into `z`, which exchanges two names
that are neighbours in the order of the keys (`SwappedKeeps`).  That the loops
end (`FixupsEnd`) rests on a fact of the two functions which the code does not
mention: a turn that rotates is always a last one, since it leaves `z` below a
black parent, or makes the root the new `x`, or leaves `x` at a red node.  TLC
cannot evaluate the existence of `B` and `H`; with `Subtree` for `B` and
`BlackHeight` for `H` the cases of `IInv` are `SearchTree`, `RedBlack`,
`FixupInvariant` and `CountExact`, which the runs check.

**Server.**  The chain of reasons is: epoll is asked only when the ready queue
is empty, and reports the listening socket at most once, so that the queue
never holds more than one new reader (`QueueInv`); while it is queued the cell
holds the descriptor just accepted, or junk (`CellInv`); on a descriptor just
accepted nobody waits, since a reader on a client's descriptor keeps it open
(`OwnOpenDescriptor`); so a new reader finds its place free unless it is
descriptor 0 or -1.  The events of a batch are of different descriptors
(`BatchInv`), so what a resumed reader closes is not the descriptor of a later
event.  `ConnInv` says what a client that waits for its answers can do to its
connection: a connection with an error and a request unread, and a send that
blocks, need two under way.  That a name for the new reader is free is a pigeonhole argument over
the descriptors (`FreeReaderExists`).

**Coroutine library.**  `IInv` has nine parts.  epoll is asked when nothing is
queued, so no coroutine of a reported descriptor is queued, and none can be
queued without running first (`EventInv`); so an event resumes a coroutine that
is nowhere else, the end-of-file bit is on the running coroutine in its hook
only (`StatusInv`); so a queued coroutine never has it and can be resumed.
`TimersAreOwn` needs that a coroutine which is not asleep has its last time in
the past and that the time `sched_sleepdown` searches for, one microsecond
after the other, is free: there are more candidates than coroutines
(`FreeKeyIsFree`).  The tail queue is a list without repetitions (`Lists`),
which an insertion at the tail extends and the removal of the first shortens.
An earlier form of `QueueWellFormed` stated only that the links of each element
agree with those of its neighbours.  It was not inductive: a cycle detached
from the head satisfies it.  The present form says that the links are those of
one list that holds every queued element.

**Only model-checked.**

* Liveness (`RequestsReceived`, `EveryClientServed`, `ReadyIsResumed`,
  `DueIsResumed`, `TestEnds`): the prover has no fairness.
* `NtyTree` (`RedBlackTree`, `QueriesRight`, its refinement): the loops of the
  macros are recursive operators, of which the prover cannot reason.
* `KVStore` (`AllPass`, `TestIsHarmless`): they are about one script and what
  the commands of five engines do in it, a finite question.

## Not modelled

* The arithmetic of the two hash functions: any function into the buckets
  takes their place.
* `dest_hashtable`, `dest_dhashtable`, `dest_rbtree`, `dest_skiptable`: `main`
  calls them only after `nty_schedule_run`, whose loop a server does not leave.
* `rbtree_maxi`, `rbtree_traversal`, `createSkipList` and `print` are not
  called; the code under `#else` of `KEYTYPE_ENABLE` is not compiled.
* Of NtyCo: the copies of the shared stack (`_save_stack`, `_load_stack`; their
  effect on kvstore is `cell` in `NtyServer`) and the context switch in
  assembler; `nty_coroutine_detach`, which sets a bit that nothing tests;
  `nty_schedule_cancel_wait` and the defer and busy queues, which nothing uses.
* Of its headers, the splay trees, the lists and the simple queues: nothing
  uses them.
* The memory pool and the btree engine are compiled out; `log.c` is output;
  `split.c` is not linked.
* The programs of `kvs-client` send one command and print the answer; the
  larger load tests of `testcase.c` are compiled out.
* The samples of NtyCo, two fifths of the repository's C, are programs on
  the library (HTTP, MySQL and redis clients and servers) that the server does
  not contain.  What they may do with the library is `NtyCo`.

## Plan

All parts of the server and the library are modelled.  Of the five engines, the
server and the library every invariant, action property and refinement that a
passing run checks is also proved.  What is left:

1. `NtyTree`: its macros are the same algorithm as `rbtree.c`, without a nil
   node.  Written with recursive functions in place of recursive operators, as
   `RBTree` is, `RedBlackTree` and its refinement are open to the argument of
   `RBTreeProofs`.
