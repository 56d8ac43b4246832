----------------------------- MODULE MCChannel -----------------------------
(***************************************************************************)
(* Model-checking instances of Channel.  Three streams of one or two bytes *)
(* against a two-byte socket buffer and a one-byte flush budget make every *)
(* return code of mk_channel_write reachable: partial writes (FLUSH), a   *)
(* full buffer (BUSY), a drained list (DONE, EMPTY) and a reset (ERROR),   *)
(* and let the flush loop exit both on its budget and on a stop code.      *)
(***************************************************************************)
EXTENDS Channel

MCSizes == {1, 2}
AllTypes == {"FILE", "IOV", "COPYBUF", "EOF"}
DataTypes == {"FILE", "IOV", "COPYBUF"}
=============================================================================
