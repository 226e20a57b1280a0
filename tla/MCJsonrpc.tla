----------------------------- MODULE MCJsonrpc -----------------------------
(***************************************************************************)
(* A jrpc_client that calls twice, or three times when a read has failed,  *)
(* and a peer that sends ahead of replies.                                 *)
(***************************************************************************)
EXTENDS Jsonrpc

MCPeers == {"caller", "peer"}
MCCalls == <<"enable", "once", "failing">>
MCScripts == {<<"array", "bad">>, <<"once", "once">>}
=============================================================================
