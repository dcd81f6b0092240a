-------------------------- MODULE MCOnlineDownload --------------------------
(* A small instance of OnlineDownload. *)
EXTENDS OnlineDownload, TLC
=============================================================================
