---------------------------- MODULE MCLogBuffers ----------------------------
(* LogBuffers with small buffers, queues and files, for TLC. *)
EXTENDS LogBuffersProps
=============================================================================
