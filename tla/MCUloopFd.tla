----------------------------- MODULE MCUloopFd -----------------------------
(* UloopFd for TLC: an edge-triggered and a level-triggered fd.            *)
EXTENDS UloopFd
CONSTANTS a, b
MCFds == {a, b}
MCEdgeFds == {a}
MCErrorFds == {b}
MCEvents == {"R"}
=============================================================================
