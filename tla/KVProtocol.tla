----------------------------- MODULE KVProtocol -----------------------------
(***************************************************************************)
(* What kvstore.c makes of the bytes it receives: kvs_split_tokens and the *)
(* command table of kvs_parser_protocol.                                   *)
(*                                                                         *)
(* There is no mark at the end of a command: the server takes what one     *)
(* recv returned for one.  So that a stream can be cut inside a word, a    *)
(* word is sent in two parts; the name of a command, SET, GET, ..., in two *)
(* and the letter of its engine, none for the array, in one before them:   *)
(* what a cut leaves of HDELETE can be DELETE.  A message is a sequence of *)
(* parts; SP is the space.                                                 *)
(***************************************************************************)
EXTENDS Integers, Sequences, FiniteSets

CONSTANTS MAX_TOKENS,        \* size of the array of tokens
          CLINET_MSG_LENGTH  \* size of the buffer, in parts

\* commands[]: a letter and a name.  NoCommand is what the loop of
\* kvs_parser_protocol ends with for any other word.
Letter == {"", "R", "B", "H", "D", "Z"}
Name == {"SET", "GET", "COUNT", "DELETE", "EXIST"}
commands == Letter \X Name
NoCommand == <<"", "none">>

SP == <<"", 0>>
Word(w) == <<<<w, 1>>, <<w, 2>>>>
CommandWord(cmd) == (IF cmd[1] = "" THEN <<>> ELSE <<<<cmd[1], 0>>>>) \o Word(cmd[2])

\* The message of a command and its arguments, each after a space.
Message(cmd, args) ==
    LET argument(j) == IF j % 3 = 0 THEN SP ELSE <<args[j \div 3 + 1], j % 3>>
    IN  CommandWord(cmd) \o [j \in 1 .. 3 * Len(args) |-> argument(j - 1)]

\* strtok skips spaces before a token and ends it at the next one.
kvs_split_tokens(msg) ==
    LET starts == {i \in DOMAIN msg : msg[i] # SP /\ (i > 1 => msg[i - 1] = SP)}
        nth(n) == CHOOSE i \in starts : Cardinality({j \in starts : j <= i}) = n
        end(i) == CHOOSE j \in i .. Len(msg) :
                      /\ \A k \in i .. j : msg[k] # SP
                      /\ j < Len(msg) => msg[j + 1] = SP
    IN  [n \in 1 .. Cardinality(starts) |-> SubSeq(msg, nth(n), end(nth(n)))]

\* The buffer is zeroed and recv may fill it: then nothing ends the string,
\* and strtok reads, and writes, what lies behind it.
Unterminated(msg) == Len(msg) = CLINET_MSG_LENGTH
TooManyTokens(tokens) == Len(tokens) > MAX_TOKENS

\* The command of the first token.
CommandNamed ==
    [t \in {CommandWord(c) : c \in commands} |-> CHOOSE c \in commands : CommandWord(c) = t]
CommandOf(tokens) ==
    IF tokens # <<>> /\ tokens[1] \in DOMAIN CommandNamed THEN CommandNamed[tokens[1]] ELSE NoCommand

\* The word a token is, or garbage: a part of one, or several grown together.
WordOf(token, garbage) == IF token = Word(token[1][1]) THEN token[1][1] ELSE garbage

\* tokens[i] for the token at i + 1: the null pointer when there is none.
Argument_OneBefore(tokens, i, garbage, null) ==  \* mutant
    IF i <= Len(tokens) THEN WordOf(tokens[i], garbage) ELSE null
Argument(tokens, i, garbage, null) ==
    IF i < Len(tokens) THEN WordOf(tokens[i + 1], garbage) ELSE null
=============================================================================
