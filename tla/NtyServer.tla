----------------------------- MODULE NtyServer -----------------------------
(***************************************************************************)
(* The server of kvstore.c on its coroutine library NtyCo: the accepting   *)
(* coroutine `server', one `server_reader' per accept, and the scheduler   *)
(* that resumes them from its ready queue and from epoll.                  *)
(*                                                                         *)
(* A coroutine runs from a resume to its next yield without interruption,  *)
(* so each such stretch is one action.  It yields only inside the socket   *)
(* hooks, always with timeout 1, for which nty_schedule_sched_wait never   *)
(* puts it to sleep: the sleeping tree stays empty and is left out.        *)
(*                                                                         *)
(* All coroutines run on ONE stack, whose used part is copied out at a     *)
(* yield and back at a resume.  server hands each new reader the address   *)
(* of its local cli_fd, a cell of that stack; the reader looks at it when  *)
(* it first runs, and finds what the coroutine that ran last left there.   *)
(*                                                                         *)
(* Clients and the kernel's side of their connections are external: they   *)
(* are modelled by what the hooks of nty_socket.c see of them.  Memory for *)
(* a new coroutine is always found.                                        *)
(*                                                                         *)
(* A definition X_Y marked "mutant" is X with a plausible bug.             *)
(***************************************************************************)
EXTENDS Integers, Sequences, FiniteSets, SequencesExt

CONSTANTS Client,          \* the clients
          ClientFd,        \* descriptors accept can return (the open-file limit)
          ListenFd,        \* the listening socket
          StackJunk,       \* what a reader's frame leaves in the cell of cli_fd
          MaxOutstanding,  \* bound: requests each client sends ahead of its answers
          SendBuffer       \* bound: unread answers a socket buffer holds

Stdin == 0
BadFd == -1                              \* what a failed accept returns; no descriptor
Fd == ClientFd \cup {ListenFd, Stdin, BadFd}
Server == 0                              \* the coroutine main creates
Reader == 1 .. Cardinality(ClientFd) + 3 \* enough for every live reader
NoCo == -1
NoFd == -2

ASSUME ServerAssumption ==
    /\ ClientFd \subseteq Nat \ {Stdin, ListenFd} /\ IsFiniteSet(ClientFd)
    /\ ListenFd \in Nat \ {Stdin}
    /\ StackJunk \subseteq {Stdin, BadFd}
    /\ MaxOutstanding \in [Client -> Nat \ {0}] /\ SendBuffer \in Nat \ {0}

VARIABLES
    ready,    \* sched->ready: coroutines to resume
    waiting,  \* sched->waiting: the coroutine waiting on each descriptor
    batch,    \* the events of the last epoll_wait not yet handled
    readers,  \* state and descriptor of each server_reader
    cell,     \* the stack cell of cli_fd
    proc,     \* the process: "running", "aborted" or "killed"
    conn,     \* external: each client's connection
    fdOf      \* external: the descriptor of each accepted connection

sched == <<ready, waiting, batch, readers, cell, proc>>
net == <<conn, fdOf>>
vars == <<ready, waiting, batch, readers, cell, proc, conn, fdOf>>

\* A connection: whether and how the peer closed it ("fin": in order,
\* "reset": with an error the next call returns, "dead": after that), the
\* requests not yet received and the answers not yet read.
ConnStates == {"none", "open", "fin", "reset", "dead"}
NoConn == [st |-> "none", in |-> 0, out |-> 0]
NoReader == [st |-> "free", fd |-> NoFd]

Least(S) == CHOOSE i \in S : \A j \in S : i <= j
Backlog == {c \in Client : conn[c].st # "none" /\ fdOf[c] = NoFd}
FreeFd == {f \in ClientFd : \A c \in Client : fdOf[c] # f}
FreeReader == {r \in Reader : readers[r].st = "free"}
ClientAt(f) == CHOOSE c \in Client : fdOf[c] = f
-----------------------------------------------------------------------------
(***************************************************************************)
(* The clients and their kernel.                                           *)
(***************************************************************************)
Connect(c) ==
    /\ conn[c].st = "none"
    /\ conn' = [conn EXCEPT ![c].st = "open"]
    /\ UNCHANGED <<sched, fdOf>>

SendRequest(c) ==
    /\ conn[c].st = "open"
    /\ conn[c].in + conn[c].out < MaxOutstanding[c]
    /\ conn' = [conn EXCEPT ![c].in = @ + 1]
    /\ UNCHANGED <<sched, fdOf>>

ReadAnswer(c) ==
    /\ conn[c].st = "open" /\ conn[c].out > 0
    /\ conn' = [conn EXCEPT ![c].out = @ - 1]
    /\ UNCHANGED <<sched, fdOf>>

\* A close with unread answers resets the connection.
Disconnect(c) ==
    /\ conn[c].st = "open"
    /\ conn' = [conn EXCEPT ![c].st = IF conn[c].out > 0 THEN "reset" ELSE "fin",
                            ![c].out = 0]
    /\ UNCHANGED <<sched, fdOf>>

Readable(c) == conn[c].in > 0 \/ conn[c].st # "open"
Writable(c) == conn[c].out < SendBuffer \/ conn[c].st # "open"

\* Level triggered: what epoll_wait reports for the registered descriptors.
\* A reader on Stdin or BadFd gets no event.
ReadyFds ==
    {f \in {ListenFd} : waiting[f] # NoCo /\ Backlog # {}}
    \cup {f \in ClientFd : \E r \in Reader, c \in Client :
            /\ waiting[f] = r /\ fdOf[c] = f
            /\ \/ readers[r].st = "recv" /\ Readable(c)
               \/ readers[r].st = "send" /\ Writable(c)}
-----------------------------------------------------------------------------
(***************************************************************************)
(* nty_schedule_sched_wait: the waiting tree holds one coroutine per       *)
(* descriptor and asserts that the place is free.                          *)
(***************************************************************************)
nty_schedule_sched_wait(co, f) ==
    IF waiting[f] = NoCo
    THEN waiting' = [waiting EXCEPT ![f] = co] /\ UNCHANGED proc
    ELSE proc' = "aborted" /\ UNCHANGED waiting

nty_coroutine_create(r) ==
    /\ readers' = [readers EXCEPT ![r] = [st |-> "new", fd |-> NoFd]]
    /\ ready' = Append(ready, r)

\* The ready queue, first part: main created the accepting coroutine; it
\* binds, listens and waits in accept.
StartServer ==
    /\ proc = "running" /\ batch = <<>>
    /\ ready # <<>> /\ Head(ready) = Server
    /\ ready' = Tail(ready)
    /\ nty_schedule_sched_wait(Server, ListenFd)
    /\ UNCHANGED <<batch, readers, cell, net>>

\* The ready queue, second part: a new reader takes its descriptor from the
\* cell, clears its buffer, which lies over the cell, and waits in recv.
StartReader ==
    /\ proc = "running" /\ batch = <<>>
    /\ ready # <<>> /\ Head(ready) # Server
    /\ LET r == Head(ready)
       IN  /\ ready' = Tail(ready)
           /\ readers' = [readers EXCEPT ![r] = [st |-> "recv", fd |-> cell]]
           /\ nty_schedule_sched_wait(r, cell)
    /\ cell' \in StackJunk
    /\ UNCHANGED <<batch, net>>

NothingReady == ready = <<>>

\* With nothing left to resume, the scheduler asks epoll; the kernel reports
\* every ready descriptor, in the order they became ready.
nty_schedule_epoll ==
    /\ proc = "running" /\ batch = <<>> /\ NothingReady
    /\ ReadyFds # {}
    /\ batch' \in SetToSeqs(ReadyFds)
    /\ UNCHANGED <<ready, waiting, readers, cell, proc, net>>
-----------------------------------------------------------------------------
(***************************************************************************)
(* Events are handled from the last to the first.  The coroutine of an     *)
(* event is looked up in the waiting tree, and nty_schedule_search_wait    *)
(* writes through the result unseen: there is no step for an event without *)
(* a coroutine, and EventsHaveWaiter says that none is needed.             *)
(***************************************************************************)
Event == Last(batch)
EventTaken_WrongEnd == batch' = Tail(batch)  \* mutant
EventTaken_DropRest == batch' = <<>>         \* mutant
EventTaken == batch' = Front(batch)

\* What accept returns at the open-file limit.  (It returns the same for a
\* connection that was aborted and when fcntl fails, which is left out.)
FailedAccept == BadFd

\* server: accept returned, a reader is created for cli_fd, whatever it is,
\* and the coroutine waits in accept again.
ServerResumed ==
    /\ proc = "running" /\ batch # <<>>
    /\ waiting[Event] = Server
    /\ EventTaken
    /\ nty_coroutine_create(Least(FreeReader))
    /\ \/ /\ FreeFd # {}
          /\ cell' = Least(FreeFd)
          /\ \E c \in Backlog : fdOf' = [fdOf EXCEPT ![c] = Least(FreeFd)]
       \/ /\ FreeFd = {}
          /\ cell' = FailedAccept
          /\ UNCHANGED fdOf
    /\ UNCHANGED <<waiting, proc, conn>>

Resumes(r, st) ==
    /\ proc = "running" /\ batch # <<>>
    /\ waiting[Event] = r /\ readers[r].st = st
    /\ EventTaken
    /\ cell' \in StackJunk

\* The waiting tree after nty_schedule_desched_wait.
Descheduled_Forgotten(r) == waiting  \* mutant
Descheduled(r) == [waiting EXCEPT ![readers[r].fd] = NoCo]

CloseAndExit_NoBreak(r, c) ==  \* mutant: the loop goes on after close
    /\ conn' = [conn EXCEPT ![c] = NoConn]
    /\ fdOf' = [fdOf EXCEPT ![c] = NoFd]
    /\ UNCHANGED <<waiting, readers, ready, proc>>

\* close(fd) and return: the coroutine is freed, the descriptor is reusable.
CloseAndExit(r, c) ==
    /\ waiting' = Descheduled(r)
    /\ readers' = [readers EXCEPT ![r] = NoReader]
    /\ conn' = [conn EXCEPT ![c] = NoConn]
    /\ fdOf' = [fdOf EXCEPT ![c] = NoFd]
    /\ UNCHANGED <<ready, proc>>

\* An answer is sent while the peer has room for it; a peer that has closed
\* answers it with a reset.
CanSend(c) ==
    \/ conn[c].st = "fin"
    \/ conn[c].st = "open" /\ conn[c].out < SendBuffer
Answered(c) == IF conn[c].st = "open"
               THEN [conn[c] EXCEPT !.out = @ + 1]
               ELSE [conn[c] EXCEPT !.st = "reset"]

\* server_reader after a recv that returned data: all that is queued comes
\* in one piece and gets one answer.  A send that cannot proceed or fails
\* waits for the descriptor to become writable.
Received(r, c) ==
    /\ conn[c].in > 0
    /\ \/ /\ CanSend(c)
          /\ conn' = [conn EXCEPT ![c] = [Answered(c) EXCEPT !.in = 0]]
          /\ UNCHANGED readers
       \/ /\ conn[c].st = "open" /\ ~ CanSend(c)
          /\ conn' = [conn EXCEPT ![c].in = 0]
          /\ readers' = [readers EXCEPT ![r].st = "send"]
       \/ /\ conn[c].st = "reset"
          /\ conn' = [conn EXCEPT ![c].in = 0, ![c].st = "dead"]
          /\ readers' = [readers EXCEPT ![r].st = "send"]
    /\ UNCHANGED <<waiting, ready, proc, fdOf>>

\* Data that is received after a send was cut short: its answer is written to
\* the dead connection, and the signal comes at the first try.
ReceivedLate(r, c) ==
    /\ conn[c].in > 0 /\ conn[c].st = "dead"
    /\ conn' = [conn EXCEPT ![c].in = 0]
    /\ readers' = [readers EXCEPT ![r].st = "send"]
    /\ proc' = "killed"
    /\ UNCHANGED <<waiting, ready, fdOf>>

ReceiveFailed_Answers(r, c) ==  \* mutant: `if (ret)' instead of `if (ret > 0)'
    /\ conn[c].in = 0 /\ conn[c].st = "reset"
    /\ proc' = "killed"
    /\ UNCHANGED <<waiting, ready, readers, net>>

\* recv returned -1: neither branch of the loop, wait again.
ReceiveFailed(r, c) ==
    /\ conn[c].in = 0 /\ conn[c].st = "reset"
    /\ conn' = [conn EXCEPT ![c].st = "dead"]
    /\ UNCHANGED <<waiting, ready, readers, proc, fdOf>>

\* recv returned 0.
EndOfFile(r, c) ==
    /\ conn[c].in = 0 /\ conn[c].st \in {"fin", "dead"}
    /\ CloseAndExit(r, c)

ReaderResumedInRecv == \E r \in Reader :
    /\ Resumes(r, "recv")
    /\ LET c == ClientAt(Event)
       IN  \/ Received(r, c) \/ ReceivedLate(r, c)
           \/ ReceiveFailed(r, c) \/ EndOfFile(r, c)

\* The loop of the send hook after its wait: the answer goes out, or the
\* second try fails and send returns -1, or the bytes of the answer that the
\* first try had sent, with which the reader goes on; on a connection whose
\* error has been returned already the kernel raises SIGPIPE, which nobody
\* handles.
Resent(r, c) ==
    /\ CanSend(c)
    /\ conn' = [conn EXCEPT ![c] = Answered(c)]
    /\ readers' = [readers EXCEPT ![r].st = "recv"]
    /\ UNCHANGED <<waiting, ready, proc, fdOf>>

SendFailed(r, c) ==
    /\ conn[c].st = "reset"
    /\ CloseAndExit(r, c)

SendCutShort(r, c) ==
    /\ conn[c].st = "reset"
    /\ conn' = [conn EXCEPT ![c].st = "dead"]
    /\ readers' = [readers EXCEPT ![r].st = "recv"]
    /\ UNCHANGED <<waiting, ready, proc, fdOf>>

SigPipe(r, c) ==
    /\ conn[c].st = "dead"
    /\ proc' = "killed"
    /\ UNCHANGED <<waiting, ready, readers, net>>

ReaderResumedInSend == \E r \in Reader :
    /\ Resumes(r, "send")
    /\ LET c == ClientAt(Event)
       IN  Resent(r, c) \/ SendFailed(r, c) \/ SendCutShort(r, c) \/ SigPipe(r, c)
-----------------------------------------------------------------------------
Init ==
    /\ ready = <<Server>>
    /\ waiting = [f \in Fd |-> NoCo]
    /\ batch = <<>>
    /\ readers = [r \in Reader |-> NoReader]
    /\ cell \in StackJunk
    /\ proc = "running"
    /\ conn = [c \in Client |-> NoConn]
    /\ fdOf = [c \in Client |-> NoFd]

\* One turn of a loop of nty_schedule_run.
nty_schedule_run ==
    \/ StartServer
    \/ StartReader
    \/ nty_schedule_epoll
    \/ ServerResumed
    \/ ReaderResumedInRecv
    \/ ReaderResumedInSend

Clients == \E c \in Client :
    Connect(c) \/ SendRequest(c) \/ ReadAnswer(c) \/ Disconnect(c)

Next == nty_schedule_run \/ Clients

\* The scheduler is the process's only thread and never waits while epoll
\* has something to report; clients owe nothing.
Spec == Init /\ [][Next]_vars /\ WF_vars(nty_schedule_run)
-----------------------------------------------------------------------------
Waits(r) == readers[r].st \in {"recv", "send"}

\* Types of the variables.
TypeOK ==
    /\ ready \in Seq({Server} \cup Reader)
    /\ waiting \in [Fd -> {NoCo, Server} \cup Reader]
    /\ batch \in Seq(ClientFd \cup {ListenFd})
    /\ readers \in [Reader -> [st : {"free", "new", "recv", "send"}, fd : Fd \cup {NoFd}]]
    /\ cell \in Fd
    /\ proc \in {"running", "aborted", "killed"}
    /\ conn \in [Client -> [st : ConnStates, in : Nat, out : Nat]]
    /\ fdOf \in [Client -> ClientFd \cup {NoFd}]

\* Every event still to be handled has its coroutine in the waiting tree,
\* although coroutines resumed earlier in the same batch close descriptors
\* and accept reuses them: search_wait never meets the null pointer.
EventsHaveWaiter == \A i \in DOMAIN batch : waiting[batch[i]] # NoCo

\* No coroutine is lost and none is in two places: a reader that has run is
\* in the waiting tree under its own descriptor and nowhere else, a new one
\* is in the ready queue, and the accepting coroutine is always in one.
NoLostCoroutine == TypeOK /\
    (proc = "running" =>
        /\ \A r \in Reader : \A f \in Fd :
              waiting[f] = r <=> Waits(r) /\ readers[r].fd = f
        /\ \A r \in Reader :
              readers[r].st = "new" <=> \E i \in DOMAIN ready : ready[i] = r
        /\ waiting[ListenFd] = Server \/ ready = <<Server>>)

\* A reader on a client's descriptor is the only one there, and the
\* descriptor is open: no reader survives the close of its connection and
\* then meets the next client that gets the same number.
OwnOpenDescriptor ==
    \A r \in Reader : Waits(r) /\ readers[r].fd \in ClientFd =>
        /\ \E c \in Client : fdOf[c] = readers[r].fd
        /\ \A q \in Reader : Waits(q) /\ readers[q].fd = readers[r].fd => q = r

\* A request on a connection whose reader waits in recv is received, however
\* the scheduler orders the coroutines and whatever the other clients do,
\* unless the whole process ends.
RequestsReceived == \A c \in Client :
    (conn[c].in > 0 /\ \E r \in Reader : readers[r] = [st |-> "recv", fd |-> fdOf[c]])
        ~> (conn[c].in = 0 \/ proc # "running")

\* Clients that wait for each answer before the next request can disconnect
\* at any moment: the write to a dead connection that kills the server is
\* always one to a client that sent ahead.
PoliteClientsDoNotKill == proc = "killed" =>
    \E c \in Client, r \in Reader :
        /\ MaxOutstanding[c] > 1 /\ conn[c].st = "dead"
        /\ readers[r] = [st |-> "send", fd |-> fdOf[c]]

\* Every client that sends a request and stays has it received eventually.
EveryClientServed == \A c \in Client :
    (conn[c].st = "open" /\ conn[c].in > 0)
        ~> (conn[c].st # "open" \/ conn[c].in = 0 \/ proc # "running")
=============================================================================
