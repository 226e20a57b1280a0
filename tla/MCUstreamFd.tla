---------------------------- MODULE MCUstreamFd ----------------------------
(***************************************************************************)
(* UstreamFd for TLC, with small buffers: one for reading, which is the    *)
(* default of ustream_init_defaults, and up to two for writing.            *)
(***************************************************************************)
EXTENDS UstreamFd

OneBuffer == <<1, 1, 3>>
TwoBuffers == <<1, 2, 2>>
=============================================================================
