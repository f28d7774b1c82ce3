------------------------------- MODULE NtyCo -------------------------------
(***************************************************************************)
(* The coroutine library NtyCo, for programs written on it: coroutines     *)
(* that in any order create others, renice, sleep and exit and call the    *)
(* socket hooks of nty_socket.c, under the scheduler of nty_schedule.c.    *)
(* nty_coroutine_yield and nty_coroutine_resume, which nty_coroutine.h     *)
(* declares too, are called by the library only: a coroutine that yielded  *)
(* by itself, in no queue and no tree, would be lost.  The kvstore server, *)
(* which uses a part of the library, is NtyServer.                         *)
(*                                                                         *)
(* curr is the coroutine that runs; it runs until it yields.  Each library *)
(* call is an action, and so is each turn of a loop of nty_schedule_run.   *)
(* A coroutine that yields in a hook keeps the hook in its field call.     *)
(*                                                                         *)
(* What the kernel answers is external: epoll_wait reports any of the      *)
(* registered descriptors and a system call has any of its outcomes.       *)
(* Memory for a new coroutine is always found.  The clock never goes back: *)
(* the code reads gettimeofday, which the system may set.                  *)
(*                                                                         *)
(* nty_coroutine_sleep with a time puts the coroutine into the sleeping    *)
(* tree and does NOT yield: it goes on, and can be queued, wait or even    *)
(* exit while the tree still holds it.  slept remembers that some          *)
(* coroutine did so.  The model stops (proc) where the code reads freed    *)
(* memory, breaks the ready queue or fails an assertion.                   *)
(*                                                                         *)
(* Of a coroutine's status only the bits are kept that the code tests      *)
(* before it clears them.  nty_coroutine_detach sets one of the others:    *)
(* _exec sets it anyway before the coroutine is freed.                     *)
(*                                                                         *)
(* A definition X_Y marked "mutant" is X with a plausible bug.             *)
(***************************************************************************)
EXTENDS Integers, Sequences, FiniteSets, SequencesExt

CONSTANTS Co,      \* the coroutines (their addresses)
          NULL,    \* the null pointer
          Fd,      \* descriptors
          Used,    \* the hooks that the program calls
          Msecs,   \* arguments of nty_coroutine_sleep
          Msec,    \* ticks of the clock per millisecond (1000)
          Renice,  \* calls of renice that make a coroutine yield (5)
          MaxNow   \* bound: the clock

VARIABLES
    ready,          \* sched->ready, a tail queue
    sleeping,       \* sched->sleeping: the coroutines in the tree
    waiting,        \* sched->waiting: the coroutine under each descriptor
    co,             \* the coroutines' own fields
    curr,           \* sched->curr_thread
    phase,          \* where nty_schedule_run is
    last_co_ready,  \* its local variable
    events,         \* the events of epoll_wait not yet handled
    registered,     \* external: the epoll interest list
    open,           \* external: the open descriptors
    now,            \* external: microseconds since sched->birth
    slept,          \* has a coroutine slept for a time?
    proc            \* "running", or how the process failed

trees == <<sleeping, waiting>>
kernel == <<registered, open, now>>
vars == <<ready, sleeping, waiting, co, curr, phase, last_co_ready, events,
          registered, open, now, slept, proc>>

Q == INSTANCE NtyQueue WITH Elem <- Co

\* A coroutine that is not allocated, and as nty_coroutine_create leaves it.
\* call is NULL while the coroutine is in no hook.
Unused == [alive |-> FALSE, status |-> {}, ops |-> 0, sleep_usecs |-> 0,
           fd |-> NULL, call |-> NULL]
Created == [Unused EXCEPT !.alive = TRUE, !.status = {"NEW"}]

Alive == {c \in Co : co[c].alive}
Ready == Q!Queued(ready)
-----------------------------------------------------------------------------
(***************************************************************************)
(* The hooks.  ev: what the hook polls for; first: whether it tries the    *)
(* system call before it polls; again, aborts: the outcomes of the call    *)
(* after the poll that make it poll again and fail assert(0), the others   *)
(* make it return; opens: whether success opens a descriptor.              *)
(*                                                                         *)
(* Outcomes: "all": the call did what was asked for; "part": a send took a *)
(* part of the bytes; "EAGAIN": also EWOULDBLOCK and EINPROGRESS; "error": *)
(* any other errno.                                                        *)
(***************************************************************************)
Outcome == {"all", "part", "EAGAIN", "ECONNRESET", "error"}

Hook(ev, first, again, aborts, opens) ==
    [ev |-> ev, first |-> first, again |-> again, aborts |-> aborts, opens |-> opens]

nty_accept   == Hook("in", FALSE, {"EAGAIN"}, {}, TRUE)
accept       == Hook("in", FALSE, {"EAGAIN"}, {}, TRUE)
nty_connect  == Hook("out", FALSE, {"EAGAIN"}, {}, FALSE)
connect      == Hook("out", FALSE, {"EAGAIN"}, {}, FALSE)
nty_recv     == Hook("in", FALSE, {}, {}, FALSE)
read         == Hook("in", FALSE, {}, {}, FALSE)
recv         == Hook("in", FALSE, {}, {}, FALSE)
nty_recvfrom == Hook("in", FALSE, {}, {"error"}, FALSE)
recvfrom     == Hook("in", FALSE, {}, {"error"}, FALSE)
nty_send     == Hook("out", TRUE, {"part"}, {}, FALSE)
write        == Hook("out", TRUE, {"part"}, {}, FALSE)
send         == Hook("out", TRUE, {"part"}, {}, FALSE)
nty_sendto   == Hook("out", FALSE, {"part", "EAGAIN"}, {"error"}, FALSE)
sendto       == Hook("out", FALSE, {}, {"error"}, FALSE)

Hooks == {nty_accept, accept, nty_connect, connect, nty_recv, read, recv,
          nty_recvfrom, recvfrom, nty_send, write, send, nty_sendto, sendto}

ASSUME NtyCoAssumption ==
    /\ NULL \notin Co /\ NULL \notin Fd
    /\ "head" \notin Co \cup {NULL}  \* NtyQueue's address of the queue head
    /\ Used \subseteq Hooks /\ NULL \notin Hooks
    /\ Msecs \subseteq Nat /\ 0 \in Msecs
    /\ Msec \in Nat \ {0} /\ Renice \in Nat \ {0} /\ MaxNow \in Nat

\* Only a send can be partial, and a closed descriptor always fails.
Outcomes(h, f) ==
    IF f \notin open THEN {"error"}
    ELSE IF "part" \in h.again THEN Outcome ELSE Outcome \ {"part"}
-----------------------------------------------------------------------------
(***************************************************************************)
(* What a running coroutine does.                                          *)
(***************************************************************************)
Running(c) == proc = "running" /\ curr = c
UserCode(c) == Running(c) /\ co[c].call = NULL

\* nty_coroutine_yield: back in the loop of nty_schedule_run that resumed c.
\* The ready loop ends with the coroutine that was last when it began.
EndOfRound_Never(c) == FALSE  \* mutant
EndOfRound(c) == phase = "ready" /\ c = last_co_ready
nty_coroutine_yield(c) ==
    /\ curr' = NULL
    /\ phase' = IF EndOfRound(c) THEN "epoll" ELSE phase
    /\ UNCHANGED <<last_co_ready, events>>

Stays == UNCHANGED <<curr, phase, last_co_ready, events>>

Fail(how) == proc' = how /\ UNCHANGED <<ready, trees, co, slept, kernel>> /\ Stays

nty_coroutine_create(c) ==
    /\ UserCode(c)
    /\ \E new \in Co \ Alive :
         /\ co' = [co EXCEPT ![new] = Created]
         /\ ready' = Q!TAILQ_INSERT_TAIL(ready, new)
    /\ UNCHANGED <<trees, kernel, slept, proc>> /\ Stays

\* TAILQ_INSERT_TAIL of the coroutine itself, and nty_coroutine_yield, which
\* clears ops.
Requeue_NoYield(c) ==  \* mutant: the coroutine goes on
    \/ /\ c \in Ready
       /\ Fail("broken queue")
    \/ /\ c \notin Ready
       /\ ready' = Q!TAILQ_INSERT_TAIL(ready, c)
       /\ co' = [co EXCEPT ![c].ops = 0]
       /\ Stays
       /\ UNCHANGED <<trees, kernel, slept, proc>>
Requeue(c) ==
    \/ /\ c \in Ready
       /\ Fail("broken queue")
    \/ /\ c \notin Ready
       /\ ready' = Q!TAILQ_INSERT_TAIL(ready, c)
       /\ co' = [co EXCEPT ![c].ops = 0]
       /\ nty_coroutine_yield(c)
       /\ UNCHANGED <<trees, kernel, slept, proc>>

Nice(c) == co[c].ops + 1 < Renice
nty_coroutine_renice(c) ==
    /\ UserCode(c)
    /\ \/ /\ Nice(c)
          /\ co' = [co EXCEPT ![c].ops = @ + 1]
          /\ UNCHANGED <<ready, trees, kernel, slept, proc>> /\ Stays
       \/ /\ ~ Nice(c)
          /\ Requeue(c)

\* The entry RB_FIND meets for the key c has now, its own or another's.
FoundUnder(c) == {d \in sleeping : co[d].sleep_usecs = co[c].sleep_usecs}

\* The first key from `usecs' on that no entry has.
FreeKey(S, usecs) ==
    CHOOSE k \in usecs .. usecs + Cardinality(S) :
        /\ \A d \in S : co[d].sleep_usecs # k
        /\ \A j \in usecs .. k - 1 : \E d \in S : co[d].sleep_usecs = j

WakeTime_NoDelay(ms) == now  \* mutant
WakeTime(ms) == now + ms * Msec

nty_schedule_sched_sleepdown(c, ms) ==
    LET others == sleeping \ FoundUnder(c)
    IN  /\ sleeping' = others \cup {c}
        /\ co' = [co EXCEPT ![c].sleep_usecs = FreeKey(others, WakeTime(ms))]

nty_coroutine_sleep(c) ==
    /\ UserCode(c)
    /\ \E ms \in Msecs :
         \/ ms = 0 /\ Requeue(c)
         \/ /\ ms # 0
            /\ nty_schedule_sched_sleepdown(c, ms)
            /\ slept' = TRUE
            /\ UNCHANGED <<ready, waiting, kernel, proc>> /\ Stays

\* _exec after the coroutine's function returned: the coroutine exits, and
\* nty_coroutine_resume frees it.
nty_coroutine_free(c) == co' = [co EXCEPT ![c] = Unused]
Exit(c) ==
    /\ UserCode(c)
    /\ \/ /\ c \in Ready \cup sleeping
          /\ Fail("dangling pointer")
       \/ /\ c \notin Ready \cup sleeping
          /\ nty_coroutine_free(c)
          /\ nty_coroutine_yield(c)
          /\ UNCHANGED <<ready, trees, kernel, slept, proc>>

socket(c) ==
    /\ UserCode(c)
    /\ \E f \in Fd \ open : open' = open \cup {f}
    /\ UNCHANGED <<ready, trees, co, registered, now, slept, proc>> /\ Stays

nty_socket(c) == socket(c)

\* The kernel drops a closed descriptor from the interest list, and its
\* waiter, if there is one, stays in the waiting tree.
close(c) ==
    /\ UserCode(c)
    /\ \E f \in open : open' = open \ {f} /\ registered' = registered \ {f}
    /\ UNCHANGED <<ready, trees, co, now, slept, proc>> /\ Stays

nty_close(c) == close(c)
-----------------------------------------------------------------------------
(***************************************************************************)
(* nty_poll_inner, first half: register, nty_schedule_sched_wait, yield.   *)
(* POLLIN sets no status bit and POLLOUT sets the bit of WAIT_READ: the    *)
(* code adds the enum values 0 and 1, not their bits.  timeout is 1 in     *)
(* every call, so that sched_wait never puts the coroutine to sleep.       *)
(***************************************************************************)
nty_schedule_sched_wait(c, f, h, status) ==
    \/ /\ status \cap {"WAIT_READ", "WAIT_WRITE"} # {}
       /\ Fail("already waits")
    \/ /\ status \cap {"WAIT_READ", "WAIT_WRITE"} = {}
       /\ waiting[f] \notin {NULL, c}
       /\ Fail("descriptor taken")
    \/ /\ status \cap {"WAIT_READ", "WAIT_WRITE"} = {}
       /\ waiting[f] \in {NULL, c}
       /\ waiting' = [waiting EXCEPT ![f] = c]
       /\ registered' = registered \cup ({f} \cap open)
       /\ co' = [co EXCEPT ![c].fd = f, ![c].call = h, ![c].ops = 0,
                           ![c].status = status \cup
                               (IF h.ev = "out" THEN {"WAIT_READ"} ELSE {})]
       /\ nty_coroutine_yield(c)
       /\ UNCHANGED <<ready, sleeping, open, now, slept, proc>>

CallHook(c) == \E h \in Used, f \in Fd :
    /\ UserCode(c)
    /\ nty_schedule_sched_wait(c, f, h, co[c].status)

\* A send that needs no poll is done at once: nothing changes here.  The
\* same hook with any other outcome is CallHook.

\* nty_schedule_desched_wait: status is cleared before desched_sleepdown
\* tests it, so an entry in the sleeping tree stays there.
Descheduled_StatusKept(c) == co[c].status  \* mutant
Descheduled(c) == {}
Unlinked_Kept(c) == waiting  \* mutant: no RB_REMOVE
Unlinked(c) == [waiting EXCEPT ![co[c].fd] = NULL]
Deregistered_Forgotten(c) == registered  \* mutant: no EPOLL_CTL_DEL
Deregistered(c) == registered \ {co[c].fd}

\* nty_poll_inner, second half, and the hook up to its return or next poll.
HookResumed(c) ==
    /\ Running(c) /\ co[c].call # NULL
    /\ LET h == co[c].call
           f == co[c].fd
       IN  \E o \in Outcomes(h, f) :
             \/ o \in h.again /\ nty_schedule_sched_wait(c, f, h, Descheduled(c))
             \/ o \in h.aborts /\ Fail("assert(0)")
             \/ /\ o \notin h.again \cup h.aborts
                /\ waiting' = Unlinked(c)
                /\ registered' = Deregistered(c)
                /\ co' = [co EXCEPT ![c].call = NULL, ![c].fd = NULL,
                                    ![c].status = Descheduled(c)]
                /\ IF h.opens /\ o = "all"
                   THEN \E new \in {open} \cup {open \cup {g} : g \in Fd \ open} : open' = new
                   ELSE UNCHANGED open
                /\ UNCHANGED <<ready, sleeping, now, slept, proc>> /\ Stays
-----------------------------------------------------------------------------
(***************************************************************************)
(* nty_schedule_run.                                                       *)
(***************************************************************************)
Scheduling(p) == proc = "running" /\ curr = NULL /\ phase = p

\* The status nty_coroutine_init gives a new coroutine: READY alone, a bit
\* that nothing tests.
nty_coroutine_init == {}

nty_coroutine_resume(c, status) ==
    /\ curr' = c
    /\ co' = [co EXCEPT ![c].status = IF "NEW" \in status THEN nty_coroutine_init ELSE status]

nty_schedule_isdone ==
    (\A f \in Fd : waiting[f] = NULL) /\ sleeping = {} /\ Q!TAILQ_EMPTY(ready)

NextTurn ==
    /\ Scheduling("turn")
    /\ phase' = IF nty_schedule_isdone THEN "done" ELSE "expired"
    /\ UNCHANGED <<ready, trees, co, curr, last_co_ready, events, kernel, slept, proc>>

\* RB_MIN of the sleeping tree.
RB_MIN == CHOOSE c \in sleeping : \A d \in sleeping : co[c].sleep_usecs <= co[d].sleep_usecs
Due == sleeping # {} /\ co[RB_MIN].sleep_usecs <= now

nty_schedule_expired ==
    /\ Scheduling("expired")
    /\ \/ /\ Due
          /\ sleeping' = sleeping \ {RB_MIN}
          /\ nty_coroutine_resume(RB_MIN, co[RB_MIN].status)
          /\ UNCHANGED <<phase, last_co_ready>>
       \/ /\ ~ Due
          /\ phase' = "ready"
          /\ last_co_ready' = Q!TAILQ_LAST(ready)
          /\ UNCHANGED <<sleeping, co, curr>>
    /\ UNCHANGED <<ready, waiting, events, kernel, slept, proc>>

\* A coroutine with FDEOF would be freed here without being resumed; there
\* is no step for it, and ReadyCanRun says that none is needed.
ReadyLoop ==
    /\ Scheduling("ready")
    /\ \/ /\ Q!TAILQ_EMPTY(ready)
          /\ phase' = "epoll"
          /\ UNCHANGED <<ready, co, curr>>
       \/ /\ ~ Q!TAILQ_EMPTY(ready)
          /\ LET c == Q!TAILQ_FIRST(ready)
             IN  /\ ready' = Q!TAILQ_REMOVE(ready, c)
                 /\ nty_coroutine_resume(c, co[c].status)
          /\ UNCHANGED phase
    /\ UNCHANGED <<trees, last_co_ready, events, kernel, slept, proc>>

\* No epoll_wait while a timer is due or a coroutine is ready; otherwise any
\* of the registered descriptors, or none when the time is over.
nty_schedule_epoll ==
    /\ Scheduling("epoll")
    /\ \/ /\ Due \/ ~ Q!TAILQ_EMPTY(ready)
          /\ phase' = "turn"
          /\ UNCHANGED events
       \/ /\ ~ Due /\ Q!TAILQ_EMPTY(ready)
          /\ phase' = "events"
          /\ \E S \in SUBSET registered : \E fds \in SetToSeqs(S) :
               \E hup \in [S -> BOOLEAN] :
                   events' = [i \in DOMAIN fds |-> [fd |-> fds[i], hup |-> hup[fds[i]]]]
    /\ UNCHANGED <<ready, trees, co, curr, last_co_ready, kernel, slept, proc>>

\* nty_schedule_search_wait clears the status of the coroutine it finds and
\* does not test for the null pointer; EventsHaveWaiter says it need not.
EventLoop ==
    /\ Scheduling("events")
    /\ \/ /\ events = <<>>
          /\ phase' = "turn"
          /\ UNCHANGED <<events, co, curr>>
       \/ /\ events # <<>>
          /\ nty_coroutine_resume(waiting[Last(events).fd],
                                  IF Last(events).hup THEN {"FDEOF"} ELSE {})
          /\ events' = Front(events)
          /\ UNCHANGED phase
    /\ UNCHANGED <<ready, trees, last_co_ready, kernel, slept, proc>>

Tick ==
    /\ proc = "running" /\ now < MaxNow
    /\ now' = now + 1
    /\ UNCHANGED <<ready, trees, co, curr, phase, last_co_ready, events,
                   registered, open, slept, proc>>
-----------------------------------------------------------------------------
\* main has created one coroutine and called nty_schedule_run.
Init ==
    /\ \E c \in Co : /\ co = [d \in Co |-> IF d = c THEN Created ELSE Unused]
                     /\ ready = Q!TAILQ_INSERT_TAIL(Q!TAILQ_INIT, c)
    /\ sleeping = {} /\ waiting = [f \in Fd |-> NULL]
    /\ curr = NULL /\ phase = "turn" /\ last_co_ready = NULL /\ events = <<>>
    /\ registered = {} /\ open = {} /\ now = 0
    /\ slept = FALSE /\ proc = "running"

nty_schedule_run ==
    \/ NextTurn \/ nty_schedule_expired \/ ReadyLoop \/ nty_schedule_epoll \/ EventLoop

Coroutine(c) ==
    \/ nty_coroutine_create(c) \/ nty_coroutine_renice(c)
    \/ nty_coroutine_sleep(c) \/ Exit(c)
    \/ socket(c) \/ nty_socket(c) \/ close(c) \/ nty_close(c)
    \/ CallHook(c) \/ HookResumed(c)

Next == nty_schedule_run \/ (\E c \in Co : Coroutine(c)) \/ Tick

\* The scheduler is the only thread.  A coroutine comes to an end or to a
\* call that yields: no coroutine of a program can compute forever, since
\* none would ever run again.
Spec ==
    /\ Init /\ [][Next]_vars
    /\ WF_vars(nty_schedule_run)
    /\ \A c \in Co : WF_vars(Exit(c) \/ CallHook(c) \/ HookResumed(c))
-----------------------------------------------------------------------------
Bits == {"NEW", "FDEOF", "WAIT_READ"}

\* Types of the variables.
TypeOK ==
    /\ sleeping \subseteq Co
    /\ waiting \in [Fd -> Co \cup {NULL}]
    /\ \A c \in Co : /\ co[c].status \subseteq Bits
                     /\ co[c].ops \in 0 .. Renice - 1
                     /\ co[c].sleep_usecs \in Nat
                     /\ co[c].fd \in Fd \cup {NULL}
                     /\ co[c].call \in Used \cup {NULL}
    /\ curr \in Co \cup {NULL}
    /\ phase \in {"turn", "expired", "ready", "epoll", "events", "done"}
    /\ registered \subseteq open /\ open \subseteq Fd

\* A coroutine that is neither running nor freed can be resumed again: it is
\* in the ready queue, or in the waiting tree under the one descriptor its
\* hook polls.  In particular the scheduler is done only when all exited.
\* (That an event comes is not said: none does for a descriptor that another
\* coroutine has closed.)
NoLostCoroutine == TypeOK /\
    (proc = "running" =>
        /\ \A c \in Alive : c = curr \/ c \in Ready \/ co[c].call # NULL
        /\ \A c \in Co, f \in Fd :
              waiting[f] = c <=> c \in Alive /\ co[c].call # NULL /\ co[c].fd = f)

\* Every event still to be handled has its coroutine in the waiting tree,
\* although the coroutines resumed for the events before it close, open and
\* poll descriptors: nty_schedule_search_wait never meets the null pointer.
EventsHaveWaiter ==
    proc = "running" => \A i \in DOMAIN events : waiting[events[i].fd] # NULL

\* The ready queue is a well formed list of coroutines that are alive and
\* are not marked FDEOF, as the ready loop would free those unresumed.
ReadyCanRun ==
    /\ Q!QueueWellFormed(ready)
    /\ Ready \subseteq Alive
    /\ \A c \in Ready : "FDEOF" \notin co[c].status

\* The assertion at the top of nty_schedule_sched_wait: a coroutine that
\* polls is not waiting already, whatever resumed it from its last poll.
NotAlreadyWaiting == proc # "already waits"

\* A program whose coroutines never sleep for a time neither resumes a freed
\* coroutine nor queues one twice.
SafeWithoutSleep == ~ slept => proc \notin {"dangling pointer", "broken queue"}

\* A timer leaves the sleeping tree only because it is due or because its own
\* coroutine sets it anew: the entry RB_FIND meets under a key that may be
\* long out of date is never another coroutine's.  This rests on a clock that
\* does not go back: a key out of date is in the past.
TimersAreOwn ==
    [][\A c \in sleeping \ sleeping' : c \in {curr, curr'}]_vars

\* A coroutine in the ready queue is resumed, however many others requeue
\* themselves, wait or exit, as long as none sleeps for a time.
ReadyIsResumed == \A c \in Co :
    (c \in Ready /\ ~ slept) ~> (curr = c \/ slept \/ proc # "running")

\* A coroutine whose timer is due is resumed, or sets it anew, however many
\* others requeue themselves: the ready loop of nty_schedule_run stops at the
\* coroutine that was last when it began, not when the queue is empty.
DueIsResumed == \A c \in Co :
    []<> (c \in sleeping => co[c].sleep_usecs > now \/ proc # "running")
=============================================================================
