----------------------------- MODULE MCUpdates -----------------------------
(* Three builds: the first with the older database, then a preview and its release. *)
EXTENDS Updates, TLC

MCSchema == (1 :> 19) @@ (2 :> 20) @@ (3 :> 20)
MCFeeds == {{2}, {2, 3}}
=============================================================================
