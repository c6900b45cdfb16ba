--------------------------- MODULE MCTcpConnection ---------------------------
(***************************************************************************)
(* Payloads of one and two bytes; headers of a zero and an oversized       *)
(* length, whole or cut.                                                   *)
(***************************************************************************)
EXTENDS TcpConnection

MCPayloads == {<<1>>, <<0, 2>>}
MCBadHeaders == {<<0, 0, 0, 0>>, <<0, 0, 0, 9>>}
=============================================================================
