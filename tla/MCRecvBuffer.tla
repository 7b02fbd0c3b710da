---------------------------- MODULE MCRecvBuffer ----------------------------
(***************************************************************************)
(* RecvBuffer for TLC.  The sizes are scaled down: a header of two bytes   *)
(* and a checksum (MinLen = 3), and a buffer of six bytes, so that it      *)
(* holds two small packets or one that fills it; one is larger.  A         *)
(* response of three bytes is larger than the new output buffer.           *)
(***************************************************************************)
EXTENDS RecvBuffer

Content(size, kind, reply) == [size |-> size, kind |-> kind, reply |-> reply]

Mix == {Content(3, "ok", 1), Content(6, "ok", 3), Content(7, "ok", 1),
        Content(3, "illegal", 1), Content(3, "fatal", 1)}
=============================================================================
