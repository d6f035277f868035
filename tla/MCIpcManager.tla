----------------------------- MODULE MCIpcManager -----------------------------
(* Two clients, one request id and a queue of one or two messages.         *)
EXTENDS IpcManager
=============================================================================
