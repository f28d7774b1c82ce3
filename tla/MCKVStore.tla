----------------------------- MODULE MCKVStore -----------------------------
(***************************************************************************)
(* KVStore with a second client whose messages, also when they are cut and *)
(* joined, change nothing stored, and between them contain every way to    *)
(* end the process: a SET without arguments, a HDELETE of a key nobody     *)
(* stores, a DGET and a ZEXIST without a key, and Junk, which fills the    *)
(* buffer and has a token too many.                                        *)
(***************************************************************************)
EXTENDS KVStore

Junk == LET x == <<"x", 1>> IN <<x, SP, x, SP, x, SP, x, x, x, x>>

MCRude ==
    {Message(<<"", "SET">>, <<>>), Message(<<"H", "DELETE">>, <<"other">>),
     Message(<<"D", "GET">>, <<>>), Message(<<"Z", "EXIST">>, <<>>), Junk}
=============================================================================
