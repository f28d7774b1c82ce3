------------------------------ MODULE KVStore ------------------------------
(***************************************************************************)
(* The whole server as its clients see it: kvs_protocol, its dispatch and  *)
(* the five engines in one process, with two clients.                      *)
(*                                                                         *)
(* "test" is the test program testcase.c.  It sends one command, waits for *)
(* its answer and compares; TCP delivers its messages whole.               *)
(*                                                                         *)
(* "rude" sends Rude messages without waiting: TCP cuts and joins them, so *)
(* the server's recv returns any part of what is under way.  It does not   *)
(* read answers.                                                           *)
(*                                                                         *)
(* The process runs one command at a time.  A step serves one client: recv,*)
(* kvs_protocol with the engine's operation, send.  Only the operations of *)
(* the red-black tree take several steps; busy is the client they are for. *)
(* How the coroutines of the clients take turns is NtyServer.              *)
(*                                                                         *)
(* Each engine is the module of its own, with the process for its server;  *)
(* malloc succeeds.  Words are keys and values; the key of a word that is  *)
(* none is OtherKey, which is never stored.                                *)
(*                                                                         *)
(* A definition X_Y marked "mutant" is X with a plausible bug.             *)
(***************************************************************************)
EXTENDS KVProtocol, KVReplies

CONSTANTS NULL,       \* the null pointer
          Rude,       \* messages of the second client
          MaxJoined,  \* bound: parts of several of them under way
          N10w        \* keys of a load test (100000)

ASSUME StoreAssumption ==
    /\ MAX_TOKENS \in Nat \ {0} /\ CLINET_MSG_LENGTH \in Nat \ {0}
    /\ \A msg \in Rude : msg \in Seq(STRING \X (0 .. 2))
    /\ MaxJoined \in Nat /\ N10w \in Nat

VARIABLES
    array_table, array_count, array_heap, oob,                    \* ArrayStore
    T, rb_value, rb_elements, loop, at, req,                      \* RBTree
    nodes, count, lock,                                           \* HashTable
    table, dhash_heap,                                            \* DHashTable
    forward, height, sk_value, level, sk_elements,                \* SkipTable
    reply,     \* the last answered command and its answer
    proc,      \* "running", or how the process ended
    busy,      \* the client whose command is being executed
    stream,    \* the parts on their way to the server
    answer,    \* the answer on its way to the test program, or NULL
    pc,        \* the test program's place in its script
    sent,      \* has it sent the command there?
    failed     \* the places whose answer was not the expected one

array == <<array_table, array_count, array_heap, oob>>
rbtree == <<T, rb_value, rb_elements, loop, at, req>>
hash == <<nodes, count, lock>>
dhash == <<table, dhash_heap>>
skiptable == <<forward, height, sk_value, level, sk_elements>>
engines == <<array, rbtree, hash, dhash, skiptable>>
clients == <<pc, sent, failed>>
vars == <<engines, reply, proc, busy, stream, answer, clients>>
-----------------------------------------------------------------------------
(***************************************************************************)
(* Keys are numbers in the order of strcmp.                                *)
(***************************************************************************)
Words == <<"Content-Encoding", "Content-Type", "Key0", "Key1", "Name", "Server", "Vary">>
OtherKey == 0
Key == 0 .. Len(Words)
Value == {"Asch", "gzip", "text/html;charset=utf-8", "Nginx", "Accept-Encoding",
          "Value0", "Value1", "garbage"}
KeyOfWord(w) ==
    IF w = NULL THEN NULL
    ELSE IF \E k \in DOMAIN Words : Words[k] = w
         THEN CHOOSE k \in DOMAIN Words : Words[k] = w ELSE OtherKey
ValueOfWord(w) == IF w \in Value \cup {NULL} THEN w ELSE "garbage"

TwoBuckets == [k \in Key |-> k % 2]
SharedLeaf == -1    \* tree->nil
HeaderNode == -2    \* of the skip list

A == INSTANCE ArrayStore WITH
         heap <- array_heap, KVS_ARRAY_ITEM_SIZE <- Len(Words) + 1, MallocMayFail <- FALSE
R == INSTANCE RBTree WITH
         value <- rb_value, nb_elements <- rb_elements, nil <- SharedLeaf,
         EmptyValue <- "", MallocMayFail <- FALSE
H == INSTANCE HashTable WITH
         server <- proc, LongKey <- {}, MAX_TABLE_SIZE <- 2, Hash <- TwoBuckets,
         MallocMayFail <- FALSE
D == INSTANCE DHashTable WITH
         server <- proc, heap <- dhash_heap, TABLE_SIZE <- 2, hash_function <- TwoBuckets,
         MallocMayFail <- FALSE, MaxNodes <- Len(Words), MaxLeaked <- 0
Z == INSTANCE SkipTable WITH
         server <- proc, value <- sk_value, nb_elements <- sk_elements, header <- HeaderNode,
         MAX_LEVEL <- 1, MallocMayFail <- FALSE, MaxElements <- Len(Words)
-----------------------------------------------------------------------------
(***************************************************************************)
(* testcase.c.                                                             *)
(***************************************************************************)
test_case(letter, name, args, pattern) ==
    [msg |-> Message(<<letter, name>>, args), pattern |-> pattern]

\* The same commands, for the engine of the letter.
Suite(l) ==
    LET SET(k, v) == test_case(l, "SET", <<k, v>>, SUCCESS)
        COUNT(n) == test_case(l, "COUNT", <<>>, IntReply(n))
        EXIST(k, n) == test_case(l, "EXIST", <<k>>, IntReply(n))
        Taken(k, v, n) == <<EXIST(k, 1), test_case(l, "GET", <<k>>, ValueReply(v)),
                            test_case(l, "DELETE", <<k>>, SUCCESS), COUNT(n)>>
    IN  <<SET("Name", "Asch"), COUNT(1),
          SET("Content-Encoding", "gzip"), COUNT(2),
          SET("Content-Type", "text/html;charset=utf-8"), COUNT(3),
          SET("Server", "Nginx"), COUNT(4),
          SET("Vary", "Accept-Encoding"), COUNT(5)>>
        \o Taken("Name", "Asch", 4) \o <<EXIST("Name", 0)>>
        \o Taken("Content-Encoding", "gzip", 3)
        \o Taken("Content-Type", "text/html;charset=utf-8", 2)
        \o Taken("Server", "Nginx", 1) \o <<EXIST("Server", 0)>>
        \o Taken("Vary", "Accept-Encoding", 0)

array_testcase == Suite("")
rbtree_testcase == Suite("R")
hash_testcase == Suite("H")
dhash_testcase == Suite("D")
skiptable_testcase == Suite("Z")

\* "%sSET Key%d Value%d" for each i.
Load(l) == [i \in 1 .. N10w |->
    test_case(l, "SET", <<<<"Key0", "Key1">>[i], <<"Value0", "Value1">>[i]>>, SUCCESS)]

rbtree_testcase_10w == Load("R")
hash_testcase_10w == Load("H")
dhash_testcase_10w == Load("D")
skiptable_testcase_10w == Load("Z")

\* The larger load tests are compiled out.
PassTests ==
    array_testcase \o rbtree_testcase \o hash_testcase \o dhash_testcase
    \o skiptable_testcase
LoadTests ==
    rbtree_testcase_10w \o hash_testcase_10w \o dhash_testcase_10w
    \o skiptable_testcase_10w
main == PassTests \o LoadTests
-----------------------------------------------------------------------------
(***************************************************************************)
(* kvs_parser_protocol with the key k and the value v.                     *)
(***************************************************************************)
\* The process ends.
Ends(how) == proc' = how /\ UNCHANGED <<engines, reply>>

\* assert(count == 3).
AssertFails_Everywhere(name, n) == n # 3  \* mutant: before the switch
AssertFails(name, n) == name = "SET" /\ n # 3

ArrayCommand(name, k, v, n) ==
    /\ \/ AssertFails(name, n) /\ Ends("assert")
       \/ name = "SET" /\ ~ AssertFails(name, n) /\ A!CmdSET(k, v) /\ UNCHANGED proc
       \/ name = "GET" /\ A!CmdGET(k) /\ UNCHANGED proc
       \/ name = "COUNT" /\ A!CmdCOUNT /\ UNCHANGED proc
       \/ name = "DELETE" /\ A!CmdDELETE(k) /\ UNCHANGED proc
       \/ name = "EXIST" /\ A!CmdEXIST(k) /\ UNCHANGED proc
    /\ UNCHANGED <<rbtree, hash, dhash, skiptable>>

RBTreeCommand(name, k, v) ==
    /\ \/ /\ name = "SET"
          /\ IF k = NULL \/ v = NULL \/ R!Exists(k) THEN R!CmdRSETRefused(k, v) ELSE R!CmdRSET(k, v)
       \/ name = "GET" /\ R!CmdRGET(k)
       \/ name = "COUNT" /\ R!CmdRCOUNT
       \/ name = "DELETE" /\ (R!CmdRDELETEMiss(k) \/ R!CmdRDELETE(k))
       \/ name = "EXIST" /\ R!CmdREXIST(k)
    /\ UNCHANGED <<proc, array, hash, dhash, skiptable>>

\* A command that takes the mutex while it is held waits for ever.
HashCommand(name, k, v) ==
    LET locks == name # "COUNT" /\ k # NULL /\ (name = "SET" => v # NULL)
    IN  /\ \/ locks /\ H!Relock
           \/ /\ ~ locks \/ lock = "free"
              /\ \/ name = "SET" /\ H!CmdHSET(k, v)
                 \/ name = "GET" /\ H!CmdHGET(k)
                 \/ name = "COUNT" /\ H!CmdHCOUNT
                 \/ name = "DELETE" /\ H!CmdHDELETE(k)
                 \/ name = "EXIST" /\ H!CmdHEXIST(k)
        /\ UNCHANGED <<array, rbtree, dhash, skiptable>>

DHashCommand(name, k, v) ==
    LET null == name # "COUNT" /\ (k = NULL \/ (name = "SET" /\ v = NULL))
    IN  /\ \/ null /\ D!NullToken
           \/ /\ ~ null
              /\ \/ name = "SET" /\ D!CmdDSET(k, v)
                 \/ name = "GET" /\ D!CmdDGET(k)
                 \/ name = "COUNT" /\ D!CmdDCOUNT
                 \/ name = "DELETE" /\ D!CmdDDELETE(k)
                 \/ name = "EXIST" /\ D!CmdDEXIST(k)
        /\ UNCHANGED <<array, rbtree, hash, skiptable>>

SkipTableCommand(name, k, v) ==
    /\ \/ name \in {"DELETE", "EXIST"} /\ k = NULL /\ Z!NullKey
       \/ name = "SET" /\ Z!CmdZSET(k, v)
       \/ name = "GET" /\ Z!CmdZGET(k)
       \/ name = "COUNT" /\ Z!CmdZCOUNT
       \/ name = "DELETE" /\ Z!CmdZDELETE(k)
       \/ name = "EXIST" /\ Z!CmdZEXIST(k)
    /\ UNCHANGED <<array, rbtree, hash, dhash>>

\* No token, an unknown word or a command of the b-tree: no engine is asked.
\* For no token 30 bytes of the buffer are sent (KVS_CMD_ERROR is taken for a
\* length), otherwise nothing.
Unanswered_Count(tokens) ==  \* mutant: the cases of the counts are missing
    CommandOf(tokens) = NoCommand \/ CommandOf(tokens)[1] = "B" \/ CommandOf(tokens)[2] = "COUNT"
Unanswered(tokens) ==
    CommandOf(tokens) = NoCommand \/ CommandOf(tokens)[1] = "B"

kvs_parser_protocol(tokens) ==
    \E cmd \in {CommandOf(tokens)},
       k \in {KeyOfWord(Argument(tokens, 1, "garbage", NULL))},
       v \in {ValueOfWord(Argument(tokens, 2, "garbage", NULL))} :
         \/ Unanswered(tokens) /\ UNCHANGED <<engines, reply, proc>>
         \/ cmd[1] = ""  /\ cmd # NoCommand /\ ArrayCommand(cmd[2], k, v, Len(tokens))
         \/ cmd[1] = "R" /\ RBTreeCommand(cmd[2], k, v)
         \/ cmd[1] = "H" /\ HashCommand(cmd[2], k, v)
         \/ cmd[1] = "D" /\ DHashCommand(cmd[2], k, v)
         \/ cmd[1] = "Z" /\ SkipTableCommand(cmd[2], k, v)

\* What becomes of the process that writes behind tokens or the buffer is
\* not defined: it goes on or ends.
Overrun(msg, tokens) == Unterminated(msg) \/ TooManyTokens(tokens)
kvs_protocol(msg, tokens) ==
    \/ Overrun(msg, tokens) /\ Ends("overrun")
    \/ kvs_parser_protocol(tokens)
-----------------------------------------------------------------------------
(***************************************************************************)
(* server_reader.                                                          *)
(***************************************************************************)
\* Is there something to send at the end of the step?
Answers(tokens) == ~ Unanswered(tokens) /\ loop' = "none" /\ proc' = "running"

\* The command is executed to its end, unless it enters a loop of the tree.
server_reader(c, msg) == \E tokens \in {kvs_split_tokens(msg)} :
    /\ kvs_protocol(msg, tokens)
    /\ stream' = [stream EXCEPT ![c] = SubSeq(@, Len(msg) + 1, Len(@))]
    /\ busy' = IF loop' = "none" THEN NULL ELSE c
    /\ answer' = IF c = "test" /\ Answers(tokens) THEN reply'.out ELSE answer
    /\ UNCHANGED clients

Ready == proc = "running" /\ busy = NULL
ServeTest == Ready /\ stream["test"] # <<>> /\ server_reader("test", stream["test"])

\* recv returns no more than the buffer holds, and any part of that.
RecvLengths(c) == {n \in 1 .. Len(stream[c]) : n <= CLINET_MSG_LENGTH}
ServeRude == Ready /\ \E n \in RecvLengths("rude") :
    server_reader("rude", SubSeq(stream["rude"], 1, n))

\* The rest of a command of the red-black tree.
GoesOn ==
    /\ proc = "running" /\ busy # NULL
    /\ R!Engine
    /\ busy' = IF loop' = "none" THEN NULL ELSE busy
    /\ answer' = IF busy = "test" /\ loop' = "none" THEN reply'.out ELSE answer
    /\ UNCHANGED <<array, hash, dhash, skiptable, proc, stream, clients>>
-----------------------------------------------------------------------------
(***************************************************************************)
(* The clients.                                                            *)
(***************************************************************************)
server_side == <<engines, reply, proc, busy>>
Alive == proc \in {"running", "blocked"}
Exited == Len(main) + 1

\* A send to a process that is gone ends the test program.
send_msg ==
    /\ pc < Exited /\ ~ sent
    /\ \/ /\ Alive
          /\ stream' = [stream EXCEPT !["test"] = main[pc].msg]
          /\ sent' = TRUE
          /\ UNCHANGED pc
       \/ /\ ~ Alive
          /\ pc' = Exited
          /\ UNCHANGED <<stream, sent>>
    /\ UNCHANGED <<server_side, answer, failed>>

equals(pattern, result) == pattern = result

\* recv_msg and equals: an answer, or the end of a process that is gone.
recv_msg ==
    /\ pc < Exited /\ sent
    /\ \/ /\ answer # NULL
          /\ failed' = IF equals(main[pc].pattern, answer) THEN failed ELSE failed \cup {pc}
       \/ /\ answer = NULL /\ ~ Alive
          /\ failed' = failed \cup {pc}
    /\ pc' = pc + 1 /\ sent' = FALSE /\ answer' = NULL
    /\ UNCHANGED <<server_side, stream>>

\* A message joins what is under way only up to the bound.
RudeSend == \E msg \in Rude :
    /\ Alive
    /\ stream["rude"] = <<>> \/ Len(stream["rude"]) + Len(msg) <= MaxJoined
    /\ stream' = [stream EXCEPT !["rude"] = @ \o msg]
    /\ UNCHANGED <<server_side, answer, clients>>
-----------------------------------------------------------------------------
init_kvengine ==
    /\ A!Init /\ R!Init /\ H!init_hashtable /\ D!init_dhashtable /\ Z!init_skiptable

Init ==
    /\ init_kvengine
    /\ proc = "running" /\ busy = NULL
    /\ stream = [c \in {"test", "rude"} |-> <<>>] /\ answer = NULL
    /\ pc = 1 /\ sent = FALSE /\ failed = {}

Next == ServeTest \/ ServeRude \/ GoesOn \/ send_msg \/ recv_msg \/ RudeSend

\* The scheduler gives every reader whose client has sent its turn.
Spec ==
    /\ Init /\ [][Next]_vars
    /\ WF_vars(ServeTest) /\ WF_vars(GoesOn) /\ WF_vars(send_msg) /\ WF_vars(recv_msg)
-----------------------------------------------------------------------------
\* On a fresh server every answer is the one testcase.c expects, whatever
\* pieces of its messages the server takes from the other client for
\* commands in between, as long as the process lives.
AllPass == Alive => failed = {}

\* No command of testcase.c ends the process or leaves the mutex of the hash
\* table held, whatever pieces of the other client's messages were taken for
\* commands before it: none of its tokens is missing, and every key it deletes
\* with HDELETE is still there.  Its command waits for ever only where a
\* command of the other client has left the mutex held.  (The script's keys
\* are ASCII, and malloc succeeds.)
TestStep == ServeTest \/ (GoesOn /\ busy = "test")
TestIsHarmless ==
    [][TestStep => /\ lock' = lock
                   /\ proc' = "running" \/ (proc' = "blocked" /\ lock = "held")]_vars

\* The test program comes to its end, or the process has ended or waits for
\* its own mutex.
TestEnds == <>(pc = Exited \/ proc # "running")
=============================================================================
