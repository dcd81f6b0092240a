-------------------------- MODULE MCRegistryTrust --------------------------
(* A release that may be approved anew and a release of another archive,    *)
(* blocks and clears of both, two keys, and a registry whose keys may be    *)
(* misused.                                                                 *)
EXTENDS RegistryTrust

CONSTANTS h1, h2, r1, r2, a1, a2, a3, k1, k2, root, none, MaxTime

MCTimes == 0..MaxTime
MCArchiveOf == [a \in Approvals |-> IF a = a3 THEN h2 ELSE h1]

Keyset(n, signer, ks) ==
  [rev |-> n, issued |-> 0, expires |-> MaxTime + 1, signer |-> signer, keys |-> ks]
Snapshot(n, t, signer, ds) ==
  [rev |-> n, issued |-> t, expires |-> t + 2, signer |-> signer, decisions |-> ds]
Manifest(n, t, a, s, b, v) ==
  [rev |-> n, issued |-> t, expires |-> t + 2, signer |-> k1, release |-> IF a = a3 THEN r2 ELSE r1,
   approval |-> a, securityRev |-> s, block |-> b, available |-> v]

NoDecision == [h \in {} |-> Nothing]
Says(n, status) == [h \in {h1} |-> [rev |-> n, status |-> status]]

MCKeyDocs ==
  {Keyset(1, root, {k1, k2}), Keyset(2, root, {k1}), Keyset(2, root, {k2}), Keyset(2, k1, {k1})}

\* What a careful registry signs: the archive is blocked by revision 2, cleared by 3.
CarefulSecurity ==
  {Snapshot(1, 0, k1, NoDecision), Snapshot(1, 0, k2, NoDecision),
   Snapshot(2, 0, k1, Says(2, "blocked")), Snapshot(3, 1, k1, Says(3, "cleared")),
   Snapshot(4, 2, k1, [h \in {h1, h2} |-> IF h = h1 THEN [rev |-> 3, status |-> "cleared"]
                                          ELSE [rev |-> 4, status |-> "blocked"]])}
MCSecurityDocs == CarefulSecurity \cup
  {Snapshot(2, 0, k1, Says(2, "cleared")), Snapshot(3, 1, k1, Says(1, "cleared")),
   Snapshot(3, 1, k1, Says(4, "blocked")), Snapshot(3, 1, k1, NoDecision)}

CarefulReleases ==
  {Manifest(1, 0, a1, 1, 0, TRUE), Manifest(2, 0, a1, 2, 2, TRUE),
   Manifest(3, 1, a2, 3, 0, TRUE), Manifest(1, 1, a3, 3, 0, TRUE)}
MCReleaseDocs == CarefulReleases \cup
  {Manifest(1, 0, a2, 1, 0, TRUE), Manifest(2, 1, a1, 2, 1, TRUE), Manifest(2, 0, a1, 3, 2, TRUE),
   Manifest(2, 0, a1, 2, 0, FALSE), Manifest(3, 1, a1, 2, 0, TRUE)}

\* A second careful history: the archive is never cleared, a manifest reports the block late.
LateBlock ==
  {Keyset(1, root, {k1, k2}), Keyset(2, root, {k2}),
   Snapshot(1, 0, k1, NoDecision), Snapshot(2, 0, k1, Says(2, "blocked")),
   Snapshot(3, 1, k1, NoDecision),
   Manifest(1, 0, a1, 1, 0, TRUE), Manifest(2, 0, a1, 3, 2, TRUE)}

MCHistories ==
  {MCKeyDocs \cup MCSecurityDocs \cup MCReleaseDocs,
   {Keyset(1, root, {k1, k2}), Keyset(2, root, {k1})} \cup CarefulSecurity \cup CarefulReleases,
   LateBlock}

=============================================================================
