---------------------------- MODULE MCMemTable ----------------------------
(***************************************************************************)
(* MemTable on four user keys, one of them a prefix of another.            *)
(***************************************************************************)
EXTENDS MemTable

MCUserKeys == {<<1>>, <<1, 1>>, <<2>>, <<3>>}
=============================================================================
