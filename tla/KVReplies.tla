----------------------------- MODULE KVReplies -----------------------------
(***************************************************************************)
(* The answers of kvs_parser_protocol (kvstore.c).  Every engine's case of *)
(* the switch formats its engine's return code in the same five ways, so   *)
(* they are written once here.  The text is abstracted to a tag; "%s\r\n"  *)
(* and "%d\r\n" keep the value they print.                                 *)
(***************************************************************************)

\* "SUCCESS\r\n", "FAILED\r\n" and "FAILED: NO EXIST\r\n".
SUCCESS  == <<"SUCCESS">>
FAILED   == <<"FAILED">>
NO_EXIST == <<"FAILED: NO EXIST">>

\* "%s\r\n" with a value, "%d\r\n" with an int.
ValueReply(v) == <<"value", v>>
IntReply(n)   == <<"int", n>>

\* SET and DELETE answer SUCCESS exactly when the engine returned 0.
StatusReply(res) == IF res = 0 THEN SUCCESS ELSE FAILED

\* GET answers the value unless the engine returned the null pointer.
GetReply(value, null) == IF value # null THEN ValueReply(value) ELSE NO_EXIST

\* EXIST and COUNT print the int the engine returned.
ExistReply(found) == IntReply(IF found THEN 1 ELSE 0)
=============================================================================
