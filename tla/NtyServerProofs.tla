-------------------------- MODULE NtyServerProofs --------------------------
(***************************************************************************)
(* NtyServer for every set of clients, every limit on descriptors and      *)
(* every size of the socket buffers.                                       *)
(*                                                                         *)
(* The argument rests on how little is queued at a time: epoll is asked    *)
(* only when the ready queue is empty and reports the listening socket at  *)
(* most once, so that there is never more than one new reader.  While it   *)
(* is queued the cell of cli_fd holds the descriptor just accepted, or     *)
(* junk; and on a descriptor just accepted nobody waits, since a reader on *)
(* a client's descriptor keeps it open.                                    *)
(***************************************************************************)
EXTENDS NtyServer, CommonLemmas

-----------------------------------------------------------------------------
(***************************************************************************)
(* The inductive invariant.                                                *)
(***************************************************************************)
\* At most one coroutine is queued: the server at the start, or one reader.
QueueInv ==
    /\ ready = <<>> \/ \E x \in {Server} \cup Reader : ready = <<x>>
    /\ \A r \in Reader : readers[r].st = "new" <=> ready = <<r>>

\* The accepting coroutine waits on its socket and nobody else does.
ServerInv ==
    /\ waiting[ListenFd] = IF ready = <<Server>> THEN NoCo ELSE Server
    /\ \A f \in Fd \ {ListenFd} : waiting[f] # Server

\* The waiting tree and the readers agree.
WaitInv == proc = "running" =>
    \A r \in Reader, f \in Fd : waiting[f] = r <=> Waits(r) /\ readers[r].fd = f

\* The descriptors of waiting readers, of connections and in the cell.
ReaderFdInv == \A r \in Reader : Waits(r) => readers[r].fd \in ClientFd \cup {Stdin, BadFd}
ConnFdInv == \A c, d \in Client : fdOf[c] = fdOf[d] /\ fdOf[c] # NoFd => c = d
CellInv ==
    /\ cell \in ClientFd \cup {Stdin, BadFd}
    /\ cell \in ClientFd => /\ \E c \in Client : fdOf[c] = cell
                           /\ \A r \in Reader : Waits(r) => readers[r].fd # cell

\* The events left are of different descriptors with a coroutine each.
BatchInv ==
    /\ \A i, j \in DOMAIN batch : batch[i] = batch[j] => i = j
    /\ EventsHaveWaiter
    /\ ready # <<>> => \A i \in DOMAIN batch : batch[i] # ListenFd

\* What a client that waits for each answer can do to its connection.
ConnInv == \A c \in Client : MaxOutstanding[c] = 1 =>
    /\ conn[c].in + conn[c].out <= 1
    /\ conn[c].st \in {"reset", "dead"} => conn[c].in = 0
    /\ \A r \in Reader : readers[r].st = "send" => readers[r].fd # fdOf[c]

IInv == /\ TypeOK /\ QueueInv /\ ServerInv /\ WaitInv
        /\ ReaderFdInv /\ ConnFdInv /\ OwnOpenDescriptor /\ CellInv
        /\ BatchInv /\ ConnInv /\ PoliteClientsDoNotKill
-----------------------------------------------------------------------------
(***************************************************************************)
(* The constants, and what the types say of single fields.                 *)
(***************************************************************************)
ReaderType == [st : {"free", "new", "recv", "send"}, fd : Fd \cup {NoFd}]
ConnType == [st : ConnStates, in : Nat, out : Nat]

Shape ==
    /\ ListenFd \notin ClientFd \cup {Stdin, BadFd} /\ Stdin \notin ClientFd
    /\ BadFd \notin ClientFd /\ NoFd \notin Fd
    /\ Fd = ClientFd \cup {ListenFd, Stdin, BadFd}
    /\ Server \notin Reader /\ NoCo \notin Reader /\ Server # NoCo
    /\ StackJunk \subseteq {Stdin, BadFd}
    /\ waiting \in [Fd -> {NoCo, Server} \cup Reader]
    /\ readers \in [Reader -> ReaderType]
    /\ conn \in [Client -> ConnType]
    /\ fdOf \in [Client -> ClientFd \cup {NoFd}]
    /\ batch \in Seq(ClientFd \cup {ListenFd})
    /\ \A i \in DOMAIN batch : batch[i] \in ClientFd \cup {ListenFd}
    /\ \A c \in Client : MaxOutstanding[c] \in Nat \ {0}
    /\ SendBuffer \in Nat \ {0}

LEMMA ShapeOfTypes ==
    ASSUME TypeOK
    PROVE  Shape
<1>1. /\ ListenFd \notin ClientFd \cup {Stdin, BadFd} /\ Stdin \notin ClientFd
      /\ BadFd \notin ClientFd /\ NoFd \notin Fd
      /\ Fd = ClientFd \cup {ListenFd, Stdin, BadFd}
      /\ StackJunk \subseteq {Stdin, BadFd}
  BY ServerAssumption DEF Stdin, BadFd, NoFd, Fd
<1>2. Server \notin Reader /\ NoCo \notin Reader /\ Server # NoCo
  BY DEF Reader, Server, NoCo
<1>3. /\ waiting \in [Fd -> {NoCo, Server} \cup Reader]
      /\ readers \in [Reader -> ReaderType]
      /\ conn \in [Client -> ConnType]
      /\ fdOf \in [Client -> ClientFd \cup {NoFd}]
      /\ batch \in Seq(ClientFd \cup {ListenFd})
  BY DEF TypeOK, ReaderType, ConnType
<1>4. \A i \in DOMAIN batch : batch[i] \in ClientFd \cup {ListenFd}
  BY <1>3, Elements
<1>. QED
  BY <1>1, <1>2, <1>3, <1>4, ServerAssumption DEF Shape

\* Sequences of at most one element.
LEMMA Singles ==
    ASSUME NEW x
    PROVE  /\ Head(<<x>>) = x /\ Tail(<<x>>) = <<>>
           /\ Append(<<>>, x) = <<x>> /\ <<x>> # <<>>
           /\ \A y : <<x>> = <<y>> <=> x = y
OBVIOUS
-----------------------------------------------------------------------------
(***************************************************************************)
(* Each step keeps the invariant.                                          *)
(***************************************************************************)
\* A step of a client, which changes its connection to k.
ClientMoves(c, k) ==
    /\ k \in ConnType /\ conn' = [conn EXCEPT ![c] = k] /\ conn[c].st # "dead"
    /\ MaxOutstanding[c] = 1 => k.in + k.out <= 1 /\ (k.st \in {"reset", "dead"} => k.in = 0)
    /\ UNCHANGED <<sched, fdOf>>

\* Clients change nothing but their own connection.
LEMMA ClientKeepsInv ==
    ASSUME IInv, NEW c \in Client, NEW k, ClientMoves(c, k)
    PROVE  IInv'
<1>1. /\ TypeOK /\ QueueInv /\ ServerInv /\ WaitInv /\ ReaderFdInv /\ ConnFdInv /\ OwnOpenDescriptor
      /\ CellInv /\ BatchInv /\ ConnInv /\ PoliteClientsDoNotKill
  BY DEF IInv
<1>2. Shape
  BY <1>1, ShapeOfTypes
<1>3. /\ UNCHANGED <<ready, waiting, batch, readers, cell, proc, fdOf>>
      /\ conn[c].st # "dead"
  BY DEF ClientMoves, sched
<1>4. /\ k \in ConnType /\ conn' = [conn EXCEPT ![c] = k]
      /\ conn'[c] = k /\ \A d \in Client \ {c} : conn'[d] = conn[d]
  BY <1>2 DEF ClientMoves, Shape
<1>5. MaxOutstanding[c] = 1 => k.in + k.out <= 1 /\ (k.st \in {"reset", "dead"} => k.in = 0)
  BY DEF ClientMoves
<1>6. conn' \in [Client -> ConnType]
  BY <1>2, <1>4 DEF Shape
<1>7. TypeOK'
  BY <1>1, <1>3, <1>6 DEF TypeOK, ReaderType, ConnType
<1>8. QueueInv'
  BY <1>1, <1>3 DEF QueueInv
<1>9. ServerInv'
  BY <1>1, <1>3 DEF ServerInv
<1>10. WaitInv'
  BY <1>1, <1>3 DEF WaitInv, Waits
<1>11. ReaderFdInv'
  BY <1>1, <1>3 DEF ReaderFdInv, Waits
<1>12. ConnFdInv'
  BY <1>1, <1>3 DEF ConnFdInv
<1>13. OwnOpenDescriptor'
  BY <1>1, <1>3 DEF OwnOpenDescriptor, Waits
<1>14. CellInv'
  BY <1>1, <1>3 DEF CellInv, Waits
<1>15. BatchInv'
  BY <1>1, <1>3 DEF BatchInv, EventsHaveWaiter
<1>16. ConnInv'
  BY <1>1, <1>3, <1>4, <1>5 DEF ConnInv
<1>17. PoliteClientsDoNotKill'
  BY <1>1, <1>3, <1>4 DEF PoliteClientsDoNotKill
<1>. QED
  BY <1>7, <1>8, <1>9, <1>10, <1>11, <1>12, <1>13, <1>14, <1>15, <1>16, <1>17 DEF IInv

\* What taking the last event leaves.
TakesEvent ==
    /\ Event \in ClientFd \cup {ListenFd} /\ Event \in Fd
    /\ batch' \in Seq(ClientFd \cup {ListenFd})
    /\ \A i \in DOMAIN batch' : /\ i \in DOMAIN batch /\ batch'[i] = batch[i]
                               /\ batch[i] # Event
    /\ \E i \in DOMAIN batch : batch[i] = Event

LEMMA EventIsTaken ==
    ASSUME IInv, batch # <<>>, EventTaken
    PROVE  TakesEvent
<1>. DEFINE T == ClientFd \cup {ListenFd}
            n == Len(batch)
<1>1. BatchInv /\ Shape
  BY ShapeOfTypes DEF IInv
<1>2. batch \in Seq(T) /\ Event = batch[n]
  BY <1>1 DEF Shape, Event, Last
<1>3. PICK f : f = SubSeq(batch, 1, n - 1)
  OBVIOUS
<1>4. batch' = f
  BY <1>3 DEF EventTaken, Front
<1>. HIDE DEF T
<1>5. /\ n \in DOMAIN batch /\ f \in Seq(T) /\ DOMAIN f = 1 .. n - 1
      /\ \A i \in 1 .. n - 1 : f[i] = batch[i] /\ i \in DOMAIN batch /\ i # n
  BY <1>2, <1>3, FrontOf
<1>. HIDE DEF n
<1>6. batch[n] \in T
  BY <1>2, <1>5, Elements
<1>7. \A i \in 1 .. n - 1 : batch[i] # batch[n]
  BY <1>1, <1>5 DEF BatchInv
<1>8. T \subseteq Fd
  BY DEF T, Fd
<1>. QED
  BY <1>2, <1>4, <1>5, <1>6, <1>7, <1>8 DEF TakesEvent, T

\* A reader that is resumed waits on the descriptor of the event, which is
\* that of a connection.
ResumedWith(r, c) ==
    /\ proc = "running" /\ TakesEvent /\ cell' \in StackJunk
    /\ Waits(r) /\ readers[r].fd = Event /\ Event \in ClientFd
    /\ waiting[Event] = r /\ c \in Client /\ fdOf[c] = Event

LEMMA ResumedReader ==
    ASSUME IInv, NEW r \in Reader, NEW st, Resumes(r, st)
    PROVE  ResumedWith(r, ClientAt(Event))
<1>1. /\ ServerInv /\ WaitInv /\ OwnOpenDescriptor /\ Shape
  BY ShapeOfTypes DEF IInv
<1>2. proc = "running" /\ TakesEvent /\ waiting[Event] = r /\ cell' \in StackJunk
  BY EventIsTaken DEF Resumes
<1>3. Event \in Fd /\ Event \in ClientFd \cup {ListenFd}
  BY <1>2 DEF TakesEvent
<1>4. Event # ListenFd
  BY <1>1, <1>2 DEF ServerInv, Shape
<1>5. Waits(r) /\ readers[r].fd = Event /\ Event \in ClientFd
  BY <1>1, <1>2, <1>3, <1>4 DEF WaitInv
<1>6. \E c \in Client : fdOf[c] = Event
  BY <1>1, <1>5 DEF OwnOpenDescriptor
<1>7. ClientAt(Event) \in Client /\ fdOf[ClientAt(Event)] = Event
  BY <1>6 DEF ClientAt
<1>. QED
  BY <1>2, <1>5, <1>7 DEF ResumedWith

\* A resumed reader goes on: it waits again, in recv or in send.
GoesOn(r, c, k, s) ==
    /\ ResumedWith(r, c)
    /\ s \in {"recv", "send"} /\ readers' = [readers EXCEPT ![r].st = s]
    /\ k \in ConnType /\ conn' = [conn EXCEPT ![c] = k]
    /\ MaxOutstanding[c] = 1 => k.in + k.out <= 1 /\ (k.st \in {"reset", "dead"} => k.in = 0) /\ s = "recv"
    /\ UNCHANGED <<waiting, ready, proc, fdOf>>

\* A reader that goes on keeps its descriptor.
LEMMA GoesOnKeepsInv ==
    ASSUME IInv, NEW r \in Reader, NEW c, NEW k, NEW s, GoesOn(r, c, k, s)
    PROVE  IInv'
<1>1. /\ TypeOK /\ QueueInv /\ ServerInv /\ WaitInv /\ ReaderFdInv /\ ConnFdInv /\ OwnOpenDescriptor
      /\ CellInv /\ BatchInv /\ ConnInv /\ PoliteClientsDoNotKill
  BY DEF IInv
<1>2. Shape
  BY <1>1, ShapeOfTypes
<1>3. UNCHANGED <<waiting, ready, proc, fdOf>>
  BY DEF GoesOn
<1>4. /\ proc = "running" /\ TakesEvent /\ cell' \in {Stdin, BadFd}
      /\ Waits(r) /\ readers[r].fd = Event /\ Event \in ClientFd
      /\ waiting[Event] = r /\ c \in Client /\ fdOf[c] = Event
  BY <1>2 DEF ResumedWith, Shape, GoesOn
<1>5. /\ batch' \in Seq(ClientFd \cup {ListenFd})
      /\ \A i \in DOMAIN batch' : /\ i \in DOMAIN batch /\ batch'[i] = batch[i]
                                 /\ batch[i] # Event
  BY <1>4 DEF TakesEvent
<1>6. cell' \in Fd /\ cell' \notin ClientFd
  BY <1>2, <1>4 DEF Shape
<1>7. /\ k \in ConnType /\ conn' = [conn EXCEPT ![c] = k]
      /\ conn'[c] = k /\ \A d \in Client \ {c} : conn'[d] = conn[d]
  BY <1>2 DEF GoesOn, ResumedWith, Shape
<1>8. MaxOutstanding[c] = 1 => k.in + k.out <= 1 /\ (k.st \in {"reset", "dead"} => k.in = 0) /\ s = "recv"
  BY DEF GoesOn
<1>9. conn' \in [Client -> ConnType]
  BY <1>2, <1>4, <1>7 DEF Shape
<1>10. readers' \in [Reader -> ReaderType]
  BY <1>2 DEF GoesOn, Shape, ReaderType
<1>11. /\ readers'[r].st = s /\ s \in {"recv", "send"} /\ readers'[r].fd = readers[r].fd
       /\ \A q \in Reader \ {r} : readers'[q] = readers[q]
  BY <1>2 DEF GoesOn, Shape, ReaderType
<1>12. \A q \in Reader : (Waits(q)' <=> Waits(q)) /\ readers'[q].fd = readers[q].fd
  BY <1>4, <1>11 DEF Waits
<1>13. \A q \in Reader : readers'[q].st = "new" <=> readers[q].st = "new"
  BY <1>4, <1>11 DEF Waits
<1>14. TypeOK'
  BY <1>1, <1>3, <1>9, <1>10, <1>5, <1>6 DEF TypeOK, ReaderType, ConnType
<1>15. QueueInv'
  BY <1>1, <1>3, <1>13 DEF QueueInv
<1>16. ServerInv'
  BY <1>1, <1>3 DEF ServerInv
<1>17. WaitInv'
  BY <1>1, <1>3, <1>12 DEF WaitInv
<1>18. ReaderFdInv'
  BY <1>1, <1>12 DEF ReaderFdInv
<1>19. ConnFdInv'
  BY <1>1, <1>3 DEF ConnFdInv
<1>20. OwnOpenDescriptor'
  BY <1>1, <1>3, <1>12 DEF OwnOpenDescriptor
<1>21. CellInv'
  BY <1>4, <1>6 DEF CellInv
<1>22. BatchInv'
  BY <1>1, <1>3, <1>5 DEF BatchInv, EventsHaveWaiter
<1>23. ConnInv'
  BY <1>1, <1>2, <1>3, <1>4, <1>7, <1>8, <1>11 DEF ConnInv, ConnFdInv, Shape
<1>24. PoliteClientsDoNotKill'
  BY <1>1, <1>3, <1>4 DEF PoliteClientsDoNotKill
<1>. QED
  BY <1>14, <1>15, <1>16, <1>17, <1>18, <1>19, <1>20, <1>21, <1>22, <1>23, <1>24 DEF IInv

\* A resumed reader closes its descriptor and is freed.
Closes(r, c) == ResumedWith(r, c) /\ CloseAndExit(r, c)

\* A reader that closes its descriptor leaves nobody on it.
LEMMA CloseKeepsInv ==
    ASSUME IInv, NEW r \in Reader, NEW c, Closes(r, c)
    PROVE  IInv'
<1>1. /\ TypeOK /\ QueueInv /\ ServerInv /\ WaitInv /\ ReaderFdInv /\ ConnFdInv /\ OwnOpenDescriptor
      /\ CellInv /\ BatchInv /\ ConnInv /\ PoliteClientsDoNotKill
  BY DEF IInv
<1>2. Shape
  BY <1>1, ShapeOfTypes
<1>3. UNCHANGED <<ready, proc>>
  BY DEF Closes, CloseAndExit
<1>4. /\ proc = "running" /\ TakesEvent /\ cell' \in {Stdin, BadFd}
      /\ Waits(r) /\ readers[r].fd = Event /\ Event \in ClientFd
      /\ waiting[Event] = r /\ c \in Client /\ fdOf[c] = Event
  BY <1>2 DEF ResumedWith, Shape, Closes
<1>5. /\ batch' \in Seq(ClientFd \cup {ListenFd})
      /\ \A i \in DOMAIN batch' : /\ i \in DOMAIN batch /\ batch'[i] = batch[i]
                                 /\ batch[i] # Event
  BY <1>4 DEF TakesEvent
<1>6. cell' \in Fd /\ cell' \notin ClientFd
  BY <1>2, <1>4 DEF Shape
<1>7. /\ waiting' = [waiting EXCEPT ![Event] = NoCo] /\ waiting'[Event] = NoCo
      /\ \A f \in Fd \ {Event} : waiting'[f] = waiting[f]
  BY <1>2, <1>4 DEF Closes, CloseAndExit, Descheduled, Shape
<1>8. /\ fdOf' = [fdOf EXCEPT ![c] = NoFd] /\ fdOf'[c] = NoFd
      /\ \A d \in Client \ {c} : fdOf'[d] = fdOf[d]
  BY <1>2, <1>4 DEF Closes, CloseAndExit, Shape
<1>9. /\ conn' = [conn EXCEPT ![c] = NoConn] /\ conn'[c] = NoConn
      /\ \A d \in Client \ {c} : conn'[d] = conn[d]
  BY <1>2, <1>4 DEF Closes, CloseAndExit, Shape
<1>10. /\ readers' = [readers EXCEPT ![r] = NoReader] /\ readers'[r].st = "free"
       /\ \A q \in Reader \ {r} : readers'[q] = readers[q]
  BY <1>2 DEF Closes, CloseAndExit, Shape, NoReader
<1>11. NoConn \in ConnType /\ NoReader \in ReaderType
  BY <1>2 DEF NoConn, NoReader, ConnType, ReaderType, ConnStates
<1>12. /\ waiting' \in [Fd -> {NoCo, Server} \cup Reader] /\ readers' \in [Reader -> ReaderType]
       /\ conn' \in [Client -> ConnType] /\ fdOf' \in [Client -> ClientFd \cup {NoFd}]
  BY <1>2, <1>7, <1>8, <1>9, <1>10, <1>11 DEF Shape
<1>13. \A q \in Reader \ {r} : Waits(q) => readers[q].fd # Event
  BY <1>1, <1>4 DEF OwnOpenDescriptor
<1>14. NoConn.in = 0 /\ NoConn.out = 0 /\ NoConn.st = "none"
  BY DEF NoConn
<1>15. ~ Waits(r)' /\ \A q \in Reader \ {r} : (Waits(q)' <=> Waits(q)) /\ readers'[q].fd = readers[q].fd
  BY <1>10 DEF Waits
<1>16. \A q \in Reader : readers'[q].st = "new" <=> readers[q].st = "new"
  BY <1>4, <1>10 DEF Waits
<1>17. \A q \in Reader : readers'[q].st = "send" => readers[q].st = "send" /\ readers'[q].fd = readers[q].fd /\ readers'[q].fd \in Fd
  BY <1>1, <1>2, <1>10 DEF ReaderFdInv, Waits, Shape
<1>18. TypeOK'
  BY <1>1, <1>3, <1>12, <1>5, <1>6 DEF TypeOK, ReaderType, ConnType
<1>19. QueueInv'
  BY <1>1, <1>3, <1>16 DEF QueueInv
<1>20. ServerInv'
  BY <1>1, <1>2, <1>3, <1>4, <1>7 DEF ServerInv, Shape
<1>21. WaitInv'
  BY <1>1, <1>2, <1>3, <1>4, <1>7, <1>15 DEF WaitInv, Shape
<1>22. ReaderFdInv'
  BY <1>1, <1>15 DEF ReaderFdInv
<1>23. ConnFdInv'
  BY <1>1, <1>8 DEF ConnFdInv
<1>24. OwnOpenDescriptor'
  BY <1>1, <1>4, <1>8, <1>15, <1>13 DEF OwnOpenDescriptor
<1>25. CellInv'
  BY <1>4, <1>6 DEF CellInv
<1>26. BatchInv'
  BY <1>1, <1>2, <1>3, <1>4, <1>5, <1>7 DEF BatchInv, EventsHaveWaiter, Shape
<1>27. ConnInv'
  BY <1>1, <1>2, <1>4, <1>8, <1>9, <1>14, <1>17 DEF ConnInv, Shape
<1>28. PoliteClientsDoNotKill'
  BY <1>1, <1>3, <1>4 DEF PoliteClientsDoNotKill
<1>. QED
  BY <1>18, <1>19, <1>20, <1>21, <1>22, <1>23, <1>24, <1>25, <1>26, <1>27, <1>28 DEF IInv

\* A write to a dead connection, which is k then, kills the process.
Dies(r, c, k) ==
    /\ ResumedWith(r, c) /\ readers' = [readers EXCEPT ![r].st = "send"]
    /\ k \in ConnType /\ k.st = "dead" /\ conn' = [conn EXCEPT ![c] = k]
    /\ MaxOutstanding[c] # 1 /\ proc' = "killed"
    /\ UNCHANGED <<waiting, ready, fdOf>>

\* The write that kills the process is to a client that sent ahead.
LEMMA DeathKeepsInv ==
    ASSUME IInv, NEW r \in Reader, NEW c, NEW k, Dies(r, c, k)
    PROVE  IInv'
<1>1. /\ TypeOK /\ QueueInv /\ ServerInv /\ WaitInv /\ ReaderFdInv /\ ConnFdInv /\ OwnOpenDescriptor
      /\ CellInv /\ BatchInv /\ ConnInv /\ PoliteClientsDoNotKill
  BY DEF IInv
<1>2. Shape
  BY <1>1, ShapeOfTypes
<1>3. UNCHANGED <<waiting, ready, fdOf>> /\ proc' = "killed"
  BY DEF Dies
<1>4. /\ proc = "running" /\ TakesEvent /\ cell' \in {Stdin, BadFd}
      /\ Waits(r) /\ readers[r].fd = Event /\ Event \in ClientFd
      /\ waiting[Event] = r /\ c \in Client /\ fdOf[c] = Event
  BY <1>2 DEF ResumedWith, Shape, Dies
<1>5. /\ batch' \in Seq(ClientFd \cup {ListenFd})
      /\ \A i \in DOMAIN batch' : /\ i \in DOMAIN batch /\ batch'[i] = batch[i]
                                 /\ batch[i] # Event
  BY <1>4 DEF TakesEvent
<1>6. cell' \in Fd /\ cell' \notin ClientFd
  BY <1>2, <1>4 DEF Shape
<1>7. /\ conn' \in [Client -> ConnType] /\ conn'[c].st = "dead"
      /\ \A d \in Client \ {c} : conn'[d] = conn[d]
  BY <1>2, <1>4 DEF Dies, Shape
<1>8. MaxOutstanding[c] > 1
  BY <1>2, <1>4 DEF Dies, Shape
<1>9. /\ readers' \in [Reader -> ReaderType]
      /\ readers'[r].st = "send" /\ readers'[r].fd = readers[r].fd
      /\ \A q \in Reader \ {r} : readers'[q] = readers[q]
  BY <1>2 DEF Dies, Shape, ReaderType
<1>10. readers'[r] = [st |-> "send", fd |-> fdOf'[c]]
  BY <1>3, <1>4, <1>9 DEF ReaderType
<1>11. \A q \in Reader : (Waits(q)' <=> Waits(q)) /\ readers'[q].fd = readers[q].fd
  BY <1>4, <1>9 DEF Waits
<1>12. \A q \in Reader : readers'[q].st = "new" <=> readers[q].st = "new"
  BY <1>4, <1>9 DEF Waits
<1>13. TypeOK'
  BY <1>1, <1>3, <1>5, <1>6, <1>7, <1>9 DEF TypeOK, ReaderType, ConnType
<1>14. QueueInv'
  BY <1>1, <1>3, <1>12 DEF QueueInv
<1>15. ServerInv'
  BY <1>1, <1>3 DEF ServerInv
<1>16. WaitInv'
  BY <1>3 DEF WaitInv
<1>17. ReaderFdInv'
  BY <1>1, <1>11 DEF ReaderFdInv
<1>18. ConnFdInv'
  BY <1>1, <1>3 DEF ConnFdInv
<1>19. OwnOpenDescriptor'
  BY <1>1, <1>3, <1>11 DEF OwnOpenDescriptor
<1>20. CellInv'
  BY <1>4, <1>6 DEF CellInv
<1>21. BatchInv'
  BY <1>1, <1>3, <1>5 DEF BatchInv, EventsHaveWaiter
<1>22. ConnInv'
  <2>. SUFFICES ASSUME NEW d \in Client, MaxOutstanding[d] = 1
                PROVE  /\ conn'[d].in + conn'[d].out <= 1
                       /\ conn'[d].st \in {"reset", "dead"} => conn'[d].in = 0
                       /\ \A q \in Reader : readers'[q].st = "send" => readers'[q].fd # fdOf'[d]
    BY DEF ConnInv
  <2>1. d # c /\ fdOf[d] # Event
    BY <1>1, <1>2, <1>4, <1>8 DEF ConnFdInv, Shape
  <2>. QED
    BY <1>1, <1>3, <1>4, <1>7, <1>9, <2>1 DEF ConnInv
<1>23. PoliteClientsDoNotKill'
  BY <1>3, <1>4, <1>7, <1>8, <1>10 DEF PoliteClientsDoNotKill
<1>. QED
  BY <1>13, <1>14, <1>15, <1>16, <1>17, <1>18, <1>19, <1>20, <1>21, <1>22, <1>23 DEF IInv

\* The accepting coroutine waits in accept.
LEMMA StartServerKeepsInv ==
    ASSUME IInv, StartServer
    PROVE  IInv'
<1>1. /\ TypeOK /\ QueueInv /\ ServerInv /\ WaitInv /\ ReaderFdInv /\ ConnFdInv /\ OwnOpenDescriptor
      /\ CellInv /\ BatchInv /\ ConnInv /\ PoliteClientsDoNotKill
  BY DEF IInv
<1>2. Shape
  BY <1>1, ShapeOfTypes
<1>3. ready = <<Server>>
  <2>1. PICK x \in {Server} \cup Reader : ready = <<x>>
    BY <1>1 DEF StartServer, QueueInv
  <2>. QED
    BY <2>1, Singles DEF StartServer
<1>4. ready' = <<>> /\ waiting[ListenFd] = NoCo
  BY <1>1, <1>3, Singles DEF StartServer, ServerInv
<1>5. /\ UNCHANGED <<batch, readers, cell, conn, fdOf, proc>> /\ batch = <<>>
      /\ waiting' = [waiting EXCEPT ![ListenFd] = Server]
  BY <1>4 DEF StartServer, net, nty_schedule_sched_wait
<1>6. /\ waiting' \in [Fd -> {NoCo, Server} \cup Reader] /\ waiting'[ListenFd] = Server
      /\ \A f \in Fd \ {ListenFd} : waiting'[f] = waiting[f]
  BY <1>2, <1>5 DEF Shape
<1>7. \A r \in Reader : readers[r].st # "new" /\ <<r>> # <<>>
  BY <1>1, <1>2, <1>3, Singles DEF QueueInv, Shape
<1>8. <<>> # <<Server>> /\ <<>> \in Seq({Server} \cup Reader)
  OBVIOUS
<1>9. TypeOK'
  BY <1>1, <1>5, <1>4, <1>6, <1>8 DEF TypeOK, ReaderType, ConnType
<1>10. QueueInv'
  BY <1>5, <1>4, <1>7 DEF QueueInv
<1>11. ServerInv'
  BY <1>1, <1>4, <1>6, <1>8 DEF ServerInv
<1>12. WaitInv'
  BY <1>1, <1>2, <1>5, <1>4, <1>6 DEF WaitInv, Waits, Shape
<1>13. ReaderFdInv'
  BY <1>1, <1>5 DEF ReaderFdInv, Waits
<1>14. ConnFdInv'
  BY <1>1, <1>5 DEF ConnFdInv
<1>15. OwnOpenDescriptor'
  BY <1>1, <1>5 DEF OwnOpenDescriptor, Waits
<1>16. CellInv'
  BY <1>1, <1>5 DEF CellInv, Waits
<1>17. BatchInv'
  BY <1>5 DEF BatchInv, EventsHaveWaiter
<1>18. ConnInv'
  BY <1>1, <1>5 DEF ConnInv
<1>19. PoliteClientsDoNotKill'
  BY <1>1, <1>5 DEF PoliteClientsDoNotKill
<1>. QED
  BY <1>9, <1>10, <1>11, <1>12, <1>13, <1>14, <1>15, <1>16, <1>17, <1>18, <1>19 DEF IInv

\* A new reader waits on what it finds in the cell: the descriptor just
\* accepted, on which nobody waits, or junk.
LEMMA StartReaderKeepsInv ==
    ASSUME IInv, StartReader
    PROVE  IInv'
<1>1. /\ TypeOK /\ QueueInv /\ ServerInv /\ WaitInv /\ ReaderFdInv /\ ConnFdInv /\ OwnOpenDescriptor
      /\ CellInv /\ BatchInv /\ ConnInv /\ PoliteClientsDoNotKill
  BY DEF IInv
<1>2. Shape
  BY <1>1, ShapeOfTypes
<1>3. PICK r \in Reader : ready = <<r>>
  <2>1. PICK x \in {Server} \cup Reader : ready = <<x>>
    BY <1>1 DEF StartReader, QueueInv
  <2>. QED
    BY <2>1, Singles DEF StartReader
<1>4. Head(ready) = r /\ ready' = <<>> /\ waiting[ListenFd] = Server /\ <<r>> # <<Server>>
  <2>1. <<r>> # <<Server>>
    BY <1>2, Singles DEF Shape
  <2>. QED
    BY <1>1, <1>3, <2>1, Singles DEF StartReader, ServerInv
<1>5. /\ UNCHANGED <<batch, conn, fdOf>> /\ batch = <<>> /\ proc = "running" /\ cell' \in {Stdin, BadFd}
  BY <1>2 DEF StartReader, net, Shape
<1>6. /\ readers' = [readers EXCEPT ![r] = [st |-> "recv", fd |-> cell]]
      /\ nty_schedule_sched_wait(r, cell)
  BY <1>4 DEF StartReader
<1>7. cell \in ClientFd \cup {Stdin, BadFd} /\ cell \in Fd /\ cell # ListenFd /\ cell # NoFd
  BY <1>1, <1>2 DEF CellInv, Shape
<1>8. readers[r].st = "new" /\ \A q \in Reader \ {r} : readers[q].st # "new"
  BY <1>1, <1>3, Singles DEF QueueInv
<1>9. /\ readers' \in [Reader -> ReaderType]
      /\ readers'[r].st = "recv" /\ readers'[r].fd = cell
      /\ \A q \in Reader \ {r} : readers'[q] = readers[q]
  BY <1>2, <1>6, <1>7 DEF Shape, ReaderType
<1>10. /\ ~ Waits(r) /\ Waits(r)'
       /\ \A q \in Reader \ {r} : (Waits(q)' <=> Waits(q)) /\ readers'[q].fd = readers[q].fd
  BY <1>8, <1>9 DEF Waits
<1>11. \/ /\ waiting[cell] = NoCo /\ proc' = "running" /\ waiting' = [waiting EXCEPT ![cell] = r]
       \/ proc' = "aborted" /\ UNCHANGED waiting
  <2>1. CASE waiting[cell] = NoCo
    BY <2>1, <1>5, <1>6 DEF nty_schedule_sched_wait
  <2>2. CASE waiting[cell] # NoCo
    BY <2>2, <1>5, <1>6 DEF nty_schedule_sched_wait
  <2>. QED
    BY <2>1, <2>2
<1>12. /\ waiting' \in [Fd -> {NoCo, Server} \cup Reader]
       /\ \A f \in Fd \ {cell} : waiting'[f] = waiting[f]
       /\ waiting'[cell] \in {r, waiting[cell]}
       /\ proc' = "running" => waiting[cell] = NoCo /\ waiting'[cell] = r
  BY <1>2, <1>11, <1>7 DEF Shape
<1>13. \A q \in Reader : <<q>> # <<>>
  OBVIOUS
<1>14. <<>> # <<Server>> /\ <<>> \in Seq({Server} \cup Reader)
  OBVIOUS
<1>15. proc' \in {"running", "aborted"}
  BY <1>11
<1>16. TypeOK'
  BY <1>1, <1>2, <1>5, <1>4, <1>9, <1>12, <1>14, <1>15 DEF TypeOK, ReaderType, ConnType, Shape
<1>17. QueueInv'
  BY <1>4, <1>8, <1>9, <1>13 DEF QueueInv
<1>18. ServerInv'
  <2>1. waiting'[ListenFd] = Server /\ ready' # <<Server>>
    BY <1>2, <1>7, <1>4, <1>12, <1>14 DEF Shape
  <2>2. \A f \in Fd \ {ListenFd} : waiting'[f] # Server
    BY <1>1, <1>2, <1>12 DEF ServerInv, Shape
  <2>. QED
    BY <2>1, <2>2 DEF ServerInv
<1>19. WaitInv'
  <2>. SUFFICES ASSUME proc' = "running", NEW q \in Reader, NEW f \in Fd
                PROVE  waiting'[f] = q <=> Waits(q)' /\ readers'[q].fd = f
    BY DEF WaitInv
  <2>1. waiting[f] = q <=> Waits(q) /\ readers[q].fd = f
    BY <1>1, <1>5 DEF WaitInv
  <2>2. waiting[cell] = NoCo /\ waiting'[cell] = r /\ q # NoCo
    BY <1>2, <1>12 DEF Shape
  <2>3. CASE q = r
    BY <2>1, <2>2, <2>3, <1>12, <1>9, <1>10
  <2>4. CASE q # r
    BY <2>1, <2>2, <2>4, <1>12, <1>10
  <2>. QED
    BY <2>3, <2>4
<1>20. ReaderFdInv'
  BY <1>1, <1>7, <1>9, <1>10 DEF ReaderFdInv
<1>21. ConnFdInv'
  BY <1>1, <1>5 DEF ConnFdInv
<1>22. OwnOpenDescriptor'
  BY <1>1, <1>5, <1>9, <1>10 DEF OwnOpenDescriptor, CellInv
<1>23. CellInv'
  BY <1>2, <1>5 DEF CellInv, Shape
<1>24. BatchInv'
  BY <1>5 DEF BatchInv, EventsHaveWaiter
<1>25. ConnInv'
  BY <1>1, <1>5, <1>8, <1>9 DEF ConnInv
<1>26. PoliteClientsDoNotKill'
  BY <1>15 DEF PoliteClientsDoNotKill
<1>. QED
  BY <1>16, <1>17, <1>18, <1>19, <1>20, <1>21, <1>22, <1>23, <1>24, <1>25, <1>26 DEF IInv

\* epoll reports descriptors of the waiting tree, each once, and nothing is
\* queued then.
LEMMA EpollKeepsInv ==
    ASSUME IInv, nty_schedule_epoll
    PROVE  IInv'
<1>1. /\ TypeOK /\ QueueInv /\ ServerInv /\ WaitInv /\ ReaderFdInv /\ ConnFdInv /\ OwnOpenDescriptor
      /\ CellInv /\ BatchInv /\ ConnInv /\ PoliteClientsDoNotKill
  BY DEF IInv
<1>2. Shape
  BY <1>1, ShapeOfTypes
<1>3. /\ UNCHANGED <<ready, waiting, readers, cell, proc, conn, fdOf>> /\ ready = <<>>
      /\ batch' \in SetToSeqs(ReadyFds)
  BY DEF nty_schedule_epoll, net, NothingReady
<1>4. ReadyFds \subseteq ClientFd \cup {ListenFd} /\ \A f \in ReadyFds : waiting[f] # NoCo
  BY <1>2 DEF ReadyFds, Shape
<1>5. Cardinality(ReadyFds) \in Nat
  <2>1. IsFiniteSet(ClientFd \cup {ListenFd})
    BY ServerAssumption, FS_AddElement
  <2>. QED
    BY <2>1, <1>4, FS_Subset, FS_CardinalityType
<1>6. /\ batch' \in [1 .. Cardinality(ReadyFds) -> ReadyFds]
      /\ \A i, j \in 1 .. Cardinality(ReadyFds) : batch'[i] = batch'[j] => i = j
  BY <1>3 DEF SetToSeqs
<1>7. /\ DOMAIN batch' = 1 .. Cardinality(ReadyFds)
      /\ \A i \in DOMAIN batch' : batch'[i] \in ReadyFds
  BY <1>6
<1>8. batch' \in Seq(ClientFd \cup {ListenFd})
  <2>1. batch' \in [1 .. Cardinality(ReadyFds) -> ClientFd \cup {ListenFd}]
    BY <1>6, <1>4
  <2>. QED
    BY <2>1, <1>5, IsSequence
<1>9. TypeOK'
  BY <1>1, <1>3, <1>8 DEF TypeOK, ReaderType, ConnType
<1>10. QueueInv'
  BY <1>1, <1>3 DEF QueueInv
<1>11. ServerInv'
  BY <1>1, <1>3 DEF ServerInv
<1>12. WaitInv'
  BY <1>1, <1>3 DEF WaitInv, Waits
<1>13. ReaderFdInv'
  BY <1>1, <1>3 DEF ReaderFdInv, Waits
<1>14. ConnFdInv'
  BY <1>1, <1>3 DEF ConnFdInv
<1>15. OwnOpenDescriptor'
  BY <1>1, <1>3 DEF OwnOpenDescriptor, Waits
<1>16. CellInv'
  BY <1>1, <1>3 DEF CellInv, Waits
<1>17. BatchInv'
  BY <1>3, <1>4, <1>6, <1>7 DEF BatchInv, EventsHaveWaiter
<1>18. ConnInv'
  BY <1>1, <1>3 DEF ConnInv
<1>19. PoliteClientsDoNotKill'
  BY <1>1, <1>3 DEF PoliteClientsDoNotKill
<1>. QED
  BY <1>9, <1>10, <1>11, <1>12, <1>13, <1>14, <1>15, <1>16, <1>17, <1>18, <1>19 DEF IInv

\* A name for the new reader is always free: those in use wait on different
\* descriptors, and there are more names than descriptors to wait on.
LEMMA FreeReaderExists ==
    ASSUME IInv, proc = "running", ready = <<>>
    PROVE  FreeReader # {} /\ Least(FreeReader) \in FreeReader
<1>1. QueueInv /\ WaitInv /\ ReaderFdInv /\ Shape
  BY ShapeOfTypes DEF IInv
<1>2. FreeReader # {}
  <2>. SUFFICES ASSUME FreeReader = {} PROVE FALSE
    OBVIOUS
  <2>. DEFINE T == ClientFd \cup {Stdin, BadFd}
              f == [r \in Reader |-> readers[r].fd]
  <2>1. \A r \in Reader : <<r>> # <<>>
    OBVIOUS
  <2>2. \A r \in Reader : readers[r].st \in {"free", "new", "recv", "send"}
    BY <1>1 DEF Shape, ReaderType
  <2>3. \A r \in Reader : Waits(r)
    BY <1>1, <2>1, <2>2 DEF FreeReader, QueueInv, Waits
  <2>4. \A r, q \in Reader : readers[r].fd = readers[q].fd => r = q
    BY <1>1, <2>3 DEF WaitInv, ReaderFdInv, Shape
  <2>5. f \in [Reader -> T]
    BY <1>1, <2>3 DEF ReaderFdInv
  <2>6. f \in Injection(Reader, T)
    BY <2>4, <2>5 DEF Injection, IsInjective
  <2>7. IsFiniteSet(ClientFd) /\ Cardinality(ClientFd) \in Nat
    BY ServerAssumption, FS_CardinalityType
  <2>8. IsFiniteSet(T) /\ Cardinality(T) = Cardinality(ClientFd) + 2
    <3>1. /\ IsFiniteSet(ClientFd \cup {Stdin})
          /\ Cardinality(ClientFd \cup {Stdin}) = Cardinality(ClientFd) + 1
      BY <1>1, <2>7, FS_AddElement DEF Shape
    <3>2. BadFd \notin ClientFd \cup {Stdin} /\ T = (ClientFd \cup {Stdin}) \cup {BadFd}
      BY <1>1 DEF Shape, BadFd, Stdin
    <3>. HIDE DEF T
    <3>3. /\ IsFiniteSet(T)
          /\ Cardinality(T) = Cardinality(ClientFd \cup {Stdin}) + 1
      BY <3>1, <3>2, FS_AddElement
    <3>. QED
      BY <3>1, <3>3, <2>7
  <2>9. Cardinality(Reader) = Cardinality(ClientFd) + 3
    <3>1. /\ 1 \in Int /\ Cardinality(ClientFd) + 3 \in Int
          /\ ~ (1 > Cardinality(ClientFd) + 3)
          /\ (Cardinality(ClientFd) + 3) - 1 + 1 = Cardinality(ClientFd) + 3
      BY <2>7
    <3>. QED
      BY <3>1, FS_Interval DEF Reader
  <2>. HIDE DEF f, T
  <2>10. Cardinality(Reader) <= Cardinality(T)
    BY <2>6, <2>8, FS_Injection
  <2>. QED
    BY <2>7, <2>8, <2>9, <2>10
<1>3. FreeReader \in SUBSET Nat
  <2>1. Cardinality(ClientFd) \in Nat
    BY ServerAssumption, FS_CardinalityType
  <2>. QED
    BY <2>1 DEF FreeReader, Reader
<1>4. \E i \in FreeReader : \A j \in FreeReader : i <= j
  BY <1>2, <1>3, LeastExists
<1>. QED
  BY <1>2, <1>4 DEF Least

\* accept returns a free descriptor while there is one.
LEMMA FreeFdIsFree ==
    ASSUME FreeFd # {}
    PROVE  Least(FreeFd) \in FreeFd
<1>1. FreeFd \in SUBSET Nat
  BY ServerAssumption DEF FreeFd
<1>2. \E i \in FreeFd : \A j \in FreeFd : i <= j
  BY <1>1, LeastExists
<1>. QED
  BY <1>2 DEF Least

\* accept returned: one new reader is queued, and on the descriptor in the
\* cell, if it is one, nobody waits.
LEMMA AcceptKeepsInv ==
    ASSUME IInv, ServerResumed
    PROVE  IInv'
<1>1. /\ TypeOK /\ QueueInv /\ ServerInv /\ WaitInv /\ ReaderFdInv /\ ConnFdInv /\ OwnOpenDescriptor
      /\ CellInv /\ BatchInv /\ ConnInv /\ PoliteClientsDoNotKill
  BY DEF IInv
<1>2. Shape
  BY <1>1, ShapeOfTypes
<1>3. /\ UNCHANGED <<waiting, proc, conn>> /\ proc = "running" /\ waiting[Event] = Server
      /\ batch # <<>> /\ EventTaken
  BY DEF ServerResumed
<1>4. TakesEvent
  BY <1>3, EventIsTaken
<1>5. Event = ListenFd
  BY <1>1, <1>3, <1>4 DEF TakesEvent, ServerInv
<1>6. /\ batch' \in Seq(ClientFd \cup {ListenFd})
      /\ \A i \in DOMAIN batch' : /\ i \in DOMAIN batch /\ batch'[i] = batch[i]
                                 /\ batch[i] # ListenFd
  BY <1>4, <1>5 DEF TakesEvent
<1>7. ready = <<>>
  BY <1>1, <1>4, <1>5 DEF TakesEvent, BatchInv
<1>8. PICK r \in FreeReader : nty_coroutine_create(r)
  BY <1>3, <1>7, FreeReaderExists DEF ServerResumed
<1>9. r \in Reader /\ readers[r].st = "free" /\ ~ Waits(r) /\ waiting[ListenFd] = Server
  BY <1>8, <1>5, <1>3 DEF FreeReader, Waits
<1>10. /\ ready' = <<r>> /\ <<r>> # <<Server>> /\ ready' # <<>>
       /\ \A q \in Reader : ready' = <<q>> <=> q = r
  BY <1>2, <1>7, <1>8, <1>9, Singles DEF nty_coroutine_create, Shape
<1>11. ready' \in Seq({Server} \cup Reader)
  BY <1>10, <1>9
<1>12. /\ readers' \in [Reader -> ReaderType] /\ readers'[r].st = "new"
       /\ \A q \in Reader \ {r} : readers'[q] = readers[q]
  BY <1>2, <1>8, <1>9 DEF nty_coroutine_create, Shape, ReaderType
<1>13. /\ ~ Waits(r)'
       /\ \A q \in Reader : Waits(q)' <=> Waits(q)
       /\ \A q \in Reader : Waits(q) => readers'[q] = readers[q]
  BY <1>9, <1>12 DEF Waits
<1>14. \A q \in Reader : readers[q].st # "new" /\ <<q>> # <<>>
  BY <1>1, <1>7, Singles DEF QueueInv
<1>15. \/ /\ cell' \in ClientFd /\ \A c \in Client : fdOf[c] # cell'
          /\ \E c \in Client : fdOf' = [fdOf EXCEPT ![c] = cell'] /\ fdOf[c] = NoFd
       \/ cell' = BadFd /\ UNCHANGED fdOf
  <2>1. CASE /\ FreeFd # {} /\ cell' = Least(FreeFd)
             /\ \E c \in Backlog : fdOf' = [fdOf EXCEPT ![c] = Least(FreeFd)]
    <3>1. cell' \in FreeFd
      BY <2>1, FreeFdIsFree
    <3>2. \E c \in Client : fdOf' = [fdOf EXCEPT ![c] = cell'] /\ fdOf[c] = NoFd
      BY <2>1 DEF Backlog
    <3>3. cell' \in ClientFd /\ \A c \in Client : fdOf[c] # cell'
      BY <3>1 DEF FreeFd
    <3>. QED
      BY <3>2, <3>3
  <2>2. CASE cell' = FailedAccept /\ UNCHANGED fdOf
    BY <2>2 DEF FailedAccept
  <2>. QED
    BY <2>1, <2>2 DEF ServerResumed
<1>16. /\ fdOf' \in [Client -> ClientFd \cup {NoFd}] /\ cell' \in ClientFd \cup {BadFd}
       /\ \A c \in Client : fdOf'[c] \in {fdOf[c], cell'}
       /\ \A c, d \in Client : fdOf'[c] # fdOf[c] /\ fdOf'[d] # fdOf[d] => c = d
       /\ \A c \in Client : fdOf[c] # NoFd => fdOf'[c] = fdOf[c]
  BY <1>2, <1>15 DEF Shape
<1>17. cell' \in ClientFd =>
          /\ \E c \in Client : fdOf'[c] = cell'
          /\ \A c \in Client : fdOf[c] # cell'
          /\ \A q \in Reader : Waits(q) => readers[q].fd # cell'
  <2>. SUFFICES ASSUME cell' \in ClientFd
                PROVE  /\ \E c \in Client : fdOf'[c] = cell'
                       /\ \A c \in Client : fdOf[c] # cell'
                       /\ \A q \in Reader : Waits(q) => readers[q].fd # cell'
    OBVIOUS
  <2>1. /\ \A c \in Client : fdOf[c] # cell'
        /\ \E c \in Client : fdOf' = [fdOf EXCEPT ![c] = cell']
    BY <1>2, <1>15 DEF Shape
  <2>. QED
    BY <1>1, <1>2, <2>1 DEF OwnOpenDescriptor, Shape
<1>18. TypeOK'
  BY <1>1, <1>2, <1>3, <1>6, <1>11, <1>12, <1>16 DEF TypeOK, ReaderType, ConnType, Shape
<1>19. QueueInv'
  BY <1>10, <1>9, <1>12, <1>14 DEF QueueInv
<1>20. ServerInv'
  BY <1>1, <1>3, <1>10, <1>9 DEF ServerInv
<1>21. WaitInv'
  <2>. SUFFICES ASSUME NEW q \in Reader, NEW f \in Fd
                PROVE  waiting'[f] = q <=> Waits(q)' /\ readers'[q].fd = f
    BY DEF WaitInv
  <2>1. waiting[f] = q <=> Waits(q) /\ readers[q].fd = f
    BY <1>1, <1>3 DEF WaitInv
  <2>. QED
    BY <2>1, <1>3, <1>13
<1>22. ReaderFdInv'
  BY <1>1, <1>13 DEF ReaderFdInv
<1>23. ConnFdInv'
  BY <1>1, <1>2, <1>16, <1>17 DEF ConnFdInv, Shape
<1>24. OwnOpenDescriptor'
  BY <1>1, <1>2, <1>16, <1>13 DEF OwnOpenDescriptor, Shape
<1>25. CellInv'
  BY <1>1, <1>16, <1>17, <1>13 DEF CellInv
<1>26. BatchInv'
  BY <1>1, <1>3, <1>6 DEF BatchInv, EventsHaveWaiter
<1>27. ConnInv'
  BY <1>1, <1>2, <1>3, <1>12, <1>16, <1>17 DEF ConnInv, Waits, Shape
<1>28. PoliteClientsDoNotKill'
  BY <1>3 DEF PoliteClientsDoNotKill
<1>. QED
  BY <1>18, <1>19, <1>20, <1>21, <1>22, <1>23, <1>24, <1>25, <1>26, <1>27, <1>28 DEF IInv
-----------------------------------------------------------------------------
(***************************************************************************)
(* The actions are steps of those kinds.                                   *)
(***************************************************************************)
LEMMA ClientsKeepInv ==
    ASSUME IInv, Clients
    PROVE  IInv'
<1>1. ConnInv /\ Shape
  BY ShapeOfTypes DEF IInv
<1>2. PICK c \in Client : Connect(c) \/ SendRequest(c) \/ ReadAnswer(c) \/ Disconnect(c)
  BY DEF Clients
<1>3. /\ conn[c] \in ConnType /\ conn \in [Client -> ConnType]
      /\ MaxOutstanding[c] = 1 =>
            conn[c].in + conn[c].out <= 1 /\ (conn[c].st \in {"reset", "dead"} => conn[c].in = 0)
  BY <1>1 DEF Shape, ConnInv
<1>4. CASE Connect(c)
  <2>. DEFINE k == [conn[c] EXCEPT !.st = "open"]
  <2>1. k \in ConnType /\ k.st = "open" /\ k.in = conn[c].in /\ k.out = conn[c].out
    BY <1>3 DEF ConnType, ConnStates
  <2>2. conn' = [conn EXCEPT ![c] = k]
    BY <1>4 DEF Connect
  <2>3. conn[c].st # "dead" /\ UNCHANGED <<sched, fdOf>>
    BY <1>4 DEF Connect
  <2>. HIDE DEF k
  <2>4. ClientMoves(c, k)
    BY <1>3, <2>1, <2>2, <2>3 DEF ClientMoves
  <2>. QED
    BY <2>4, ClientKeepsInv
<1>5. CASE SendRequest(c)
  <2>. DEFINE k == [conn[c] EXCEPT !.in = @ + 1]
  <2>1. k \in ConnType /\ k.st = conn[c].st /\ k.in = conn[c].in + 1 /\ k.out = conn[c].out
    BY <1>3 DEF ConnType, ConnStates
  <2>2. conn' = [conn EXCEPT ![c] = k]
    BY <1>5 DEF SendRequest
  <2>3. /\ conn[c].st = "open" /\ UNCHANGED <<sched, fdOf>>
        /\ conn[c].in + conn[c].out < MaxOutstanding[c]
    BY <1>5 DEF SendRequest
  <2>4. MaxOutstanding[c] = 1 => k.in + k.out <= 1
    BY <1>3, <2>1, <2>3 DEF ConnType
  <2>. HIDE DEF k
  <2>5. ClientMoves(c, k)
    BY <2>1, <2>2, <2>3, <2>4 DEF ClientMoves
  <2>. QED
    BY <2>5, ClientKeepsInv
<1>6. CASE ReadAnswer(c)
  <2>. DEFINE k == [conn[c] EXCEPT !.out = @ - 1]
  <2>1. conn[c].st = "open" /\ conn[c].out > 0 /\ UNCHANGED <<sched, fdOf>>
    BY <1>6 DEF ReadAnswer
  <2>2. k \in ConnType /\ k.st = conn[c].st /\ k.in = conn[c].in /\ k.out = conn[c].out - 1
    BY <1>3, <2>1 DEF ConnType, ConnStates
  <2>3. conn' = [conn EXCEPT ![c] = k]
    BY <1>6 DEF ReadAnswer
  <2>4. MaxOutstanding[c] = 1 => k.in + k.out <= 1
    BY <1>3, <2>2 DEF ConnType
  <2>. HIDE DEF k
  <2>5. ClientMoves(c, k)
    BY <2>1, <2>2, <2>3, <2>4 DEF ClientMoves
  <2>. QED
    BY <2>5, ClientKeepsInv
<1>7. CASE Disconnect(c)
  <2>. DEFINE k == [conn[c] EXCEPT !.st = IF conn[c].out > 0 THEN "reset" ELSE "fin",
                                   !.out = 0]
  <2>1. conn[c].st = "open" /\ UNCHANGED <<sched, fdOf>>
    BY <1>7 DEF Disconnect
  <2>2. /\ k \in ConnType /\ k.in = conn[c].in /\ k.out = 0
        /\ k.st = "reset" => conn[c].out > 0
    BY <1>3 DEF ConnType, ConnStates
  <2>3. conn' = [conn EXCEPT ![c] = k]
    BY <1>7 DEF Disconnect
  <2>4. MaxOutstanding[c] = 1 => k.in + k.out <= 1 /\ (k.st \in {"reset", "dead"} => k.in = 0)
    BY <1>3, <2>2 DEF ConnType
  <2>. HIDE DEF k
  <2>5. ClientMoves(c, k)
    BY <2>1, <2>2, <2>3, <2>4 DEF ClientMoves
  <2>. QED
    BY <2>5, ClientKeepsInv
<1>. QED
  BY <1>2, <1>4, <1>5, <1>6, <1>7

\* What a sent answer makes of the connection.
LEMMA AnsweredIs ==
    ASSUME NEW c \in Client, conn[c] \in ConnType, CanSend(c)
    PROVE  /\ Answered(c) \in ConnType /\ Answered(c).in = conn[c].in
           /\ \/ /\ conn[c].st = "open" /\ conn[c].out < SendBuffer
                 /\ Answered(c).st = "open" /\ Answered(c).out = conn[c].out + 1
              \/ Answered(c).st = "reset" /\ Answered(c).out = conn[c].out
BY DEF CanSend, Answered, ConnType, ConnStates

LEMMA RecvKeepsInv ==
    ASSUME IInv, ReaderResumedInRecv
    PROVE  IInv'
<1>1. ConnInv /\ Shape
  BY ShapeOfTypes DEF IInv
<1>2. PICK r \in Reader : /\ Resumes(r, "recv")
                          /\ \/ Received(r, ClientAt(Event))
                             \/ ReceivedLate(r, ClientAt(Event))
                             \/ ReceiveFailed(r, ClientAt(Event))
                             \/ EndOfFile(r, ClientAt(Event))
  BY DEF ReaderResumedInRecv
<1>3. PICK c : c = ClientAt(Event)
  OBVIOUS
<1>4. ResumedWith(r, c) /\ readers[r].st = "recv" /\ c \in Client
  BY <1>2, <1>3, ResumedReader DEF Resumes, ResumedWith
<1>5. /\ conn[c] \in ConnType /\ conn \in [Client -> ConnType] /\ SendBuffer \in Nat \ {0}
      /\ MaxOutstanding[c] = 1 =>
            conn[c].in + conn[c].out <= 1 /\ (conn[c].st \in {"reset", "dead"} => conn[c].in = 0)
  BY <1>1, <1>4 DEF Shape, ConnInv
<1>6. readers = [readers EXCEPT ![r].st = "recv"]
  BY <1>1, <1>4 DEF Shape, ReaderType
<1>7. CASE Received(r, c)
  <2>1. conn[c].in > 0 /\ UNCHANGED <<waiting, ready, proc, fdOf>>
    BY <1>7 DEF Received
  <2>2. CASE /\ CanSend(c)
             /\ conn' = [conn EXCEPT ![c] = [Answered(c) EXCEPT !.in = 0]]
             /\ UNCHANGED readers
    <3>. DEFINE a == Answered(c)
                k == [a EXCEPT !.in = 0]
    <3>1. /\ a \in ConnType
          /\ \/ conn[c].st = "open" /\ a.st = "open" /\ a.out = conn[c].out + 1
             \/ a.st = "reset" /\ a.out = conn[c].out
      BY <1>4, <1>5, <2>2, AnsweredIs
    <3>2. conn' = [conn EXCEPT ![c] = k]
      BY <2>2
    <3>. HIDE DEF a
    <3>3. k \in ConnType /\ k.in = 0 /\ k.out = a.out /\ k.st = a.st
      BY <3>1 DEF ConnType
    <3>4. MaxOutstanding[c] = 1 => k.in + k.out <= 1
      BY <1>5, <2>1, <3>1, <3>3 DEF ConnType
    <3>. HIDE DEF k
    <3>5. readers' = [readers EXCEPT ![r].st = "recv"]
      BY <1>6, <2>2
    <3>6. GoesOn(r, c, k, "recv")
      BY <1>4, <2>1, <3>2, <3>3, <3>4, <3>5 DEF GoesOn
    <3>. QED
      BY <3>6, GoesOnKeepsInv
  <2>3. CASE /\ conn[c].st = "open" /\ ~ CanSend(c)
             /\ conn' = [conn EXCEPT ![c].in = 0]
             /\ readers' = [readers EXCEPT ![r].st = "send"]
    <3>. DEFINE k == [conn[c] EXCEPT !.in = 0]
    <3>1. k \in ConnType
      BY <1>5 DEF ConnType
    <3>2. conn' = [conn EXCEPT ![c] = k]
      BY <2>3
    <3>3. ~ (conn[c].out < SendBuffer)
      BY <2>3 DEF CanSend
    <3>4. MaxOutstanding[c] # 1
      BY <1>5, <2>1, <3>3 DEF ConnType
    <3>. HIDE DEF k
    <3>5. GoesOn(r, c, k, "send")
      BY <1>4, <2>1, <2>3, <3>1, <3>2, <3>4 DEF GoesOn
    <3>. QED
      BY <3>5, GoesOnKeepsInv
  <2>4. CASE /\ conn[c].st = "reset"
             /\ conn' = [conn EXCEPT ![c].in = 0, ![c].st = "dead"]
             /\ readers' = [readers EXCEPT ![r].st = "send"]
    <3>. DEFINE k == [conn[c] EXCEPT !.in = 0, !.st = "dead"]
    <3>1. k \in ConnType
      BY <1>5 DEF ConnType, ConnStates
    <3>2. conn' = [conn EXCEPT ![c] = k]
      BY <2>4
    <3>3. MaxOutstanding[c] # 1
      BY <1>5, <2>1, <2>4 DEF ConnType
    <3>. HIDE DEF k
    <3>4. GoesOn(r, c, k, "send")
      BY <1>4, <2>1, <2>4, <3>1, <3>2, <3>3 DEF GoesOn
    <3>. QED
      BY <3>4, GoesOnKeepsInv
  <2>. QED
    BY <1>7, <2>2, <2>3, <2>4 DEF Received
<1>8. CASE ReceiveFailed(r, c)
  <2>. DEFINE k == [conn[c] EXCEPT !.st = "dead"]
  <2>1. /\ UNCHANGED <<waiting, ready, readers, proc, fdOf>>
        /\ conn' = [conn EXCEPT ![c] = k] /\ conn[c].in = 0
    BY <1>8 DEF ReceiveFailed
  <2>2. k \in ConnType /\ k.in = conn[c].in /\ k.out = conn[c].out /\ k.st = "dead"
    BY <1>5 DEF ConnType, ConnStates
  <2>. HIDE DEF k
  <2>3. readers' = [readers EXCEPT ![r].st = "recv"]
    BY <1>6, <2>1
  <2>4. GoesOn(r, c, k, "recv")
    BY <1>4, <1>5, <2>1, <2>2, <2>3 DEF GoesOn
  <2>. QED
    BY <2>4, GoesOnKeepsInv
<1>9. CASE EndOfFile(r, c)
  <2>1. Closes(r, c)
    BY <1>4, <1>9 DEF EndOfFile, Closes
  <2>. QED
    BY <2>1, CloseKeepsInv
<1>10. CASE ReceivedLate(r, c)
  <2>. DEFINE k == [conn[c] EXCEPT !.in = 0]
  <2>1. /\ UNCHANGED <<waiting, ready, fdOf>> /\ proc' = "killed"
        /\ conn' = [conn EXCEPT ![c] = k] /\ readers' = [readers EXCEPT ![r].st = "send"]
        /\ conn[c].in > 0 /\ conn[c].st = "dead"
    BY <1>10 DEF ReceivedLate
  <2>2. k \in ConnType /\ k.st = "dead" /\ MaxOutstanding[c] # 1
    BY <1>5, <2>1 DEF ConnType
  <2>. HIDE DEF k
  <2>3. Dies(r, c, k)
    BY <1>4, <2>1, <2>2 DEF Dies
  <2>. QED
    BY <2>3, DeathKeepsInv
<1>. QED
  BY <1>2, <1>3, <1>7, <1>8, <1>9, <1>10

LEMMA SendKeepsInv ==
    ASSUME IInv, ReaderResumedInSend
    PROVE  IInv'
<1>1. ConnInv /\ Shape
  BY ShapeOfTypes DEF IInv
<1>2. PICK r \in Reader : /\ Resumes(r, "send")
                          /\ \/ Resent(r, ClientAt(Event))
                             \/ SendFailed(r, ClientAt(Event))
                             \/ SendCutShort(r, ClientAt(Event))
                             \/ SigPipe(r, ClientAt(Event))
  BY DEF ReaderResumedInSend
<1>3. PICK c : c = ClientAt(Event)
  OBVIOUS
<1>4. /\ ResumedWith(r, c) /\ readers[r].st = "send" /\ c \in Client
      /\ readers[r].fd = fdOf[c]
  BY <1>2, <1>3, ResumedReader DEF Resumes, ResumedWith
<1>5. conn[c] \in ConnType /\ MaxOutstanding[c] # 1
  BY <1>1, <1>4 DEF Shape, ConnInv
<1>6. CASE Resent(r, c)
  <2>. DEFINE k == Answered(c)
  <2>1. k \in ConnType
    BY <1>4, <1>5, <1>6, AnsweredIs DEF Resent
  <2>2. /\ conn' = [conn EXCEPT ![c] = k] /\ readers' = [readers EXCEPT ![r].st = "recv"]
        /\ UNCHANGED <<waiting, ready, proc, fdOf>>
    BY <1>6 DEF Resent
  <2>. HIDE DEF k
  <2>3. GoesOn(r, c, k, "recv")
    BY <1>4, <1>5, <2>1, <2>2 DEF GoesOn
  <2>. QED
    BY <2>3, GoesOnKeepsInv
<1>7. CASE SendFailed(r, c)
  <2>1. Closes(r, c)
    BY <1>4, <1>7 DEF SendFailed, Closes
  <2>. QED
    BY <2>1, CloseKeepsInv
<1>8. CASE SigPipe(r, c)
  <2>1. /\ UNCHANGED <<waiting, ready, readers, conn, fdOf>> /\ proc' = "killed"
        /\ conn[c].st = "dead"
    BY <1>8 DEF SigPipe, net
  <2>2. conn = [conn EXCEPT ![c] = conn[c]] /\ readers = [readers EXCEPT ![r].st = "send"]
    BY <1>1, <1>4 DEF Shape, ReaderType
  <2>3. Dies(r, c, conn[c])
    BY <1>4, <1>5, <2>1, <2>2 DEF Dies
  <2>. QED
    BY <2>3, DeathKeepsInv
<1>9. CASE SendCutShort(r, c)
  <2>. DEFINE k == [conn[c] EXCEPT !.st = "dead"]
  <2>1. k \in ConnType
    BY <1>5 DEF ConnType, ConnStates
  <2>2. /\ conn' = [conn EXCEPT ![c] = k] /\ readers' = [readers EXCEPT ![r].st = "recv"]
        /\ UNCHANGED <<waiting, ready, proc, fdOf>>
    BY <1>9 DEF SendCutShort
  <2>. HIDE DEF k
  <2>3. GoesOn(r, c, k, "recv")
    BY <1>4, <1>5, <2>1, <2>2 DEF GoesOn
  <2>. QED
    BY <2>3, GoesOnKeepsInv
<1>. QED
  BY <1>2, <1>3, <1>6, <1>7, <1>8, <1>9
-----------------------------------------------------------------------------
LEMMA InitInv == Init => IInv
<1>. SUFFICES ASSUME Init PROVE IInv
  OBVIOUS
<1>1. /\ ready = <<Server>> /\ waiting = [f \in Fd |-> NoCo] /\ batch = <<>>
      /\ readers = [r \in Reader |-> NoReader] /\ cell \in {Stdin, BadFd}
      /\ proc = "running" /\ conn = [c \in Client |-> NoConn]
      /\ fdOf = [c \in Client |-> NoFd]
  BY ServerAssumption DEF Init
<1>2. /\ NoConn \in ConnType /\ NoReader \in ReaderType /\ NoReader.st = "free"
      /\ NoConn.in = 0 /\ NoConn.out = 0 /\ NoConn.st = "none"
  BY DEF NoConn, NoReader, ConnType, ReaderType, ConnStates
<1>3. /\ ready \in Seq({Server} \cup Reader) /\ batch \in Seq(ClientFd \cup {ListenFd})
      /\ DOMAIN batch = {}
  BY <1>1
<1>4. cell \in Fd /\ ListenFd \in Fd
  BY <1>1 DEF Fd
<1>5. TypeOK
  BY <1>1, <1>2, <1>3, <1>4 DEF TypeOK, ReaderType, ConnType
<1>6. Shape
  BY <1>5, ShapeOfTypes
<1>7. \A r \in Reader : readers[r].st = "free" /\ ~ Waits(r)
  BY <1>1, <1>2 DEF Waits
<1>8. QueueInv
  BY <1>1, <1>6, <1>7, Singles DEF QueueInv, Shape
<1>9. ServerInv
  BY <1>1, <1>4, <1>6 DEF ServerInv, Shape
<1>10. WaitInv
  BY <1>1, <1>6, <1>7 DEF WaitInv, Shape
<1>11. ReaderFdInv /\ OwnOpenDescriptor
  BY <1>7 DEF ReaderFdInv, OwnOpenDescriptor
<1>12. ConnFdInv
  BY <1>1 DEF ConnFdInv
<1>13. CellInv
  BY <1>1, <1>6 DEF CellInv, Shape
<1>14. BatchInv
  BY <1>3 DEF BatchInv, EventsHaveWaiter
<1>15. ConnInv
  BY <1>1, <1>2, <1>7 DEF ConnInv
<1>16. PoliteClientsDoNotKill
  BY <1>1 DEF PoliteClientsDoNotKill
<1>. QED
  BY <1>5, <1>8, <1>9, <1>10, <1>11, <1>12, <1>13, <1>14, <1>15, <1>16 DEF IInv

LEMMA StepInv == IInv /\ [Next]_vars => IInv'
<1>. SUFFICES ASSUME IInv, [Next]_vars PROVE IInv'
  OBVIOUS
<1>1. CASE nty_schedule_run
  BY <1>1, StartServerKeepsInv, StartReaderKeepsInv, EpollKeepsInv, AcceptKeepsInv,
     RecvKeepsInv, SendKeepsInv DEF nty_schedule_run
<1>2. CASE Clients
  BY <1>2, ClientsKeepInv
<1>3. CASE UNCHANGED vars
  BY <1>3 DEF vars, IInv, TypeOK, QueueInv, ServerInv, WaitInv, ReaderFdInv, ConnFdInv,
     OwnOpenDescriptor, CellInv, BatchInv, EventsHaveWaiter, ConnInv,
     PoliteClientsDoNotKill, Waits
<1>. QED
  BY <1>1, <1>2, <1>3 DEF Next

\* The inductive invariant holds throughout.
THEOREM Invariance == Spec => []IInv
BY InitInv, StepInv, PTL DEF Spec

\* No interleaving of the scheduler loses a reader or queues it twice, and
\* the accepting coroutine always waits or is about to.
THEOREM NothingIsLost == Spec => []NoLostCoroutine
<1>1. IInv => NoLostCoroutine
  <2>. SUFFICES ASSUME IInv PROVE NoLostCoroutine
    OBVIOUS
  <2>1. TypeOK /\ QueueInv /\ ServerInv /\ WaitInv
    BY DEF IInv
  <2>2. ASSUME NEW r \in Reader
        PROVE  readers[r].st = "new" <=> \E i \in DOMAIN ready : ready[i] = r
    <3>1. CASE ready = <<>>
      <4>1. ~ \E i \in DOMAIN ready : ready[i] = r
        BY <3>1
      <4>2. ready # <<r>>
        BY <3>1, Singles
      <4>. QED
        BY <2>1, <4>1, <4>2 DEF QueueInv
    <3>2. CASE \E x \in {Server} \cup Reader : ready = <<x>>
      <4>1. PICK x \in {Server} \cup Reader : ready = <<x>>
        BY <3>2
      <4>2. (\E i \in DOMAIN ready : ready[i] = r) <=> x = r
        BY <4>1
      <4>3. ready = <<r>> <=> x = r
        BY <4>1, Singles
      <4>. QED
        BY <2>1, <4>2, <4>3 DEF QueueInv
    <3>. QED
      BY <2>1, <3>1, <3>2 DEF QueueInv
  <2>3. waiting[ListenFd] = Server \/ ready = <<Server>>
    BY <2>1 DEF ServerInv
  <2>. QED
    BY <2>1, <2>2, <2>3 DEF NoLostCoroutine, WaitInv
<1>. QED
  BY <1>1, Invariance, PTL

\* nty_schedule_search_wait never looks up an event without a coroutine,
\* whatever the coroutines resumed earlier in the same batch closed.
THEOREM EventsAreWaitedFor == Spec => []EventsHaveWaiter
<1>1. IInv => EventsHaveWaiter
  BY DEF IInv, BatchInv
<1>. QED
  BY <1>1, Invariance, PTL

\* However descriptors are closed and given to the next client, a reader is
\* alone on its own and it is open.
THEOREM DescriptorsAreOwn == Spec => []OwnOpenDescriptor
<1>1. IInv => OwnOpenDescriptor
  BY DEF IInv
<1>. QED
  BY <1>1, Invariance, PTL

\* The write to a dead connection that ends the process is always one to a
\* client that sent ahead of its answers.
THEOREM PoliteClientsAreSafe == Spec => []PoliteClientsDoNotKill
<1>1. IInv => PoliteClientsDoNotKill
  BY DEF IInv
<1>. QED
  BY <1>1, Invariance, PTL
=============================================================================
