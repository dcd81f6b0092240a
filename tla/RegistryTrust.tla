--------------------------- MODULE RegistryTrust ---------------------------
(***************************************************************************)
(* What Starframe believes of the registry: signed keysets, security       *)
(* snapshots and release manifests (registry/trust.rs), the streams and    *)
(* decisions it saves of them (storage/registry.rs), and the approval a    *)
(* download starts with and must still have when it is installed.          *)
(*                                                                         *)
(* Documents arrive late, twice and in any order, and the clock of the     *)
(* computer may be moved either way.  signed is what the registry signs in *)
(* one behaviour: everything the constants name, as if a key were misused, *)
(* or the history of a careful registry.  A document is of no use before   *)
(* the time it was issued.                                                 *)
(***************************************************************************)
EXTENDS Integers, FiniteSets

CONSTANTS
  Root,          \* the key this build was given for the registry's keysets
  Keys,          \* the keys a keyset may delegate to
  Hashes,        \* archives
  Releases,      \* release ids
  Approvals,     \* what a manifest approves: archive, size, metadata, plan, dependencies
  ArchiveOf,     \* the archive of an approval
  KeyDocs,       \* the keysets, snapshots and manifests that may ever be signed
  SecurityDocs,
  ReleaseDocs,
  Histories,     \* the sets of them a registry signs: careful ones and one with all
  Times,         \* instants of the clock
  Skew,          \* five minutes
  Day, Year,     \* the longest validity of a snapshot or manifest, of a keyset
  Nothing        \* no document, no decision, no download

DecisionStatuses == {"blocked", "cleared"}

Decisions == [rev : Nat \ {0}, status : DecisionStatuses]

ASSUME TimeAssumption == Times \subseteq Int /\ {Skew, Day, Year} \subseteq Nat
ASSUME NothingAssumption == Nothing \notin KeyDocs \cup SecurityDocs \cup ReleaseDocs \cup Decisions
ASSUME KeyDocAssumption ==
  \A d \in KeyDocs : d.rev \in Nat /\ d.keys \subseteq Keys
ASSUME SecurityDocAssumption ==
  \A d \in SecurityDocs :
    /\ d.rev \in Nat
    /\ DOMAIN d.decisions \subseteq Hashes
    /\ \A h \in DOMAIN d.decisions : d.decisions[h] \in [rev : Nat, status : DecisionStatuses]
ASSUME ReleaseDocAssumption ==
  \A d \in ReleaseDocs :
    /\ {d.rev, d.securityRev, d.block} \subseteq Nat
    /\ d.release \in Releases
    /\ d.approval \in Approvals
    /\ d.available \in BOOLEAN
ASSUME HistoryAssumption ==
  \A s \in Histories : s \subseteq KeyDocs \cup SecurityDocs \cup ReleaseDocs
ASSUME ArchiveAssumption == ArchiveOf \in [Approvals -> Hashes]

VARIABLES
  keyset,     \* saved stream "keys": the accepted document or Nothing
  security,   \* saved stream "security"
  manifest,   \* saved streams "release:<id>"
  decisions,  \* registry_decisions: the retained decision of an archive or Nothing
  now,        \* the computer's clock
  signed,     \* the documents the registry signs
  underWay,   \* the identity a download was started with, or Nothing
  installed,  \* registry_library: the installed approval of a release or Nothing
  accepted    \* auxiliary: every decision an accepted document carried

trustVars == <<keyset, security, manifest, decisions, now, signed, underWay,
          installed, accepted>>
savedTrust == <<keyset, security, manifest, decisions>>

-----------------------------------------------------------------------------
(* Verification of one document, registry/trust.rs *)

\* The payload that is compared at equal revisions: everything but who signed.
Canonical(d) == [f \in DOMAIN d \ {"signer"} |-> d[f]]

\* freshness: not from the future, not expired, and of a sensible length.
Fresh(d, limit) ==
  /\ d.issued <= now + Skew
  /\ now < d.expires
  /\ d.issued < d.expires
  /\ d.expires - d.issued <= limit

KeysVerify(d) == d.rev >= 1 /\ d.signer = Root /\ Fresh(d, Year)

\* delegated_signature: by a key of the given keyset, which is not expired.
Delegated(d, k) == now < k.expires /\ d.signer \in k.keys

SecurityVerifies(d, k) ==
  /\ d.rev >= 1
  /\ Fresh(d, Day)
  /\ Delegated(d, k)
  /\ \A h \in DOMAIN d.decisions : d.decisions[h].rev \in 1..d.rev

\* block is the revision of the block the manifest reports, 0 when it reports none.
ReleaseVerifies(d, r, k, s) ==
  /\ now < s.expires
  /\ d.rev >= 1
  /\ d.securityRev = s.rev
  /\ d.block <= s.rev
  /\ Fresh(d, Day)
  /\ d.release = r
  /\ Delegated(d, k)

-----------------------------------------------------------------------------
(* Saving, storage/registry.rs *)

\* Mutant of StreamAllows: a repeated document counts as a rollback.
StreamRefusesRepeat(old, d) == old # Nothing => d.rev > old.rev

\* check_stream: no older revision, and no other payload at the same one.
StreamAllows(old, d) ==
  old # Nothing => \/ d.rev > old.rev
                   \/ d.rev = old.rev /\ Canonical(d) = Canonical(old)

\* Mutant of DecisionAllowed: equal revisions are not compared.
DecisionIgnoresRecord(h, new, strict) ==
  decisions[h] # Nothing => ~strict \/ new.rev >= decisions[h].rev

\* save_decision refuses an older decision only when it is strict.
DecisionAllowed(h, new, strict) ==
  decisions[h] # Nothing =>
    \/ new.rev > decisions[h].rev
    \/ new = decisions[h]
    \/ ~strict /\ new.rev < decisions[h].rev

\* Mutant of DecisionAfter: a manifest's older block overwrites.
DecisionOverwrites(h, new) == new

DecisionAfter(h, new) ==
  IF decisions[h] # Nothing /\ new.rev < decisions[h].rev THEN decisions[h] ELSE new

Blocked(h) == decisions[h] # Nothing /\ decisions[h].status = "blocked"

SavedKeysVerify == keyset # Nothing /\ KeysVerify(keyset)
SavedSecurityVerifies ==
  SavedKeysVerify /\ security # Nothing /\ SecurityVerifies(security, keyset)

AcceptKeys(d) ==
  /\ d \in signed \cap KeyDocs
  /\ KeysVerify(d)
  /\ StreamAllows(keyset, d)
  /\ keyset' = d
  /\ UNCHANGED <<security, manifest, decisions, now, signed, underWay, installed, accepted>>

\* Mutant of AcceptSecurity: the snapshot's decisions replace all the retained ones.
AcceptSecurityReplaces(d) ==
  /\ d \in signed \cap SecurityDocs
  /\ SavedKeysVerify
  /\ SecurityVerifies(d, keyset)
  /\ StreamAllows(security, d)
  /\ \A h \in DOMAIN d.decisions : DecisionAllowed(h, d.decisions[h], TRUE)
  /\ security' = d
  /\ decisions' = [h \in Hashes |-> IF h \in DOMAIN d.decisions THEN d.decisions[h] ELSE Nothing]
  /\ accepted' = accepted \cup {<<h, d.decisions[h]>> : h \in DOMAIN d.decisions}
  /\ UNCHANGED <<keyset, manifest, now, signed, underWay, installed>>

AcceptSecurity(d) ==
  /\ d \in signed \cap SecurityDocs
  /\ SavedKeysVerify
  /\ SecurityVerifies(d, keyset)
  /\ StreamAllows(security, d)
  /\ \A h \in DOMAIN d.decisions : DecisionAllowed(h, d.decisions[h], TRUE)
  /\ security' = d
  /\ decisions' = [h \in Hashes |->
       IF h \in DOMAIN d.decisions THEN DecisionAfter(h, d.decisions[h]) ELSE decisions[h]]
  /\ accepted' = accepted \cup {<<h, d.decisions[h]>> : h \in DOMAIN d.decisions}
  /\ UNCHANGED <<keyset, manifest, now, signed, underWay, installed>>

\* The decision a manifest reports: a set of none or one.
Reported(d) ==
  IF d.block = 0 THEN {} ELSE {[rev |-> d.block, status |-> "blocked"]}

AcceptRelease(r, d) ==
  LET h == ArchiveOf[d.approval] IN
  /\ d \in signed \cap ReleaseDocs
  /\ SavedSecurityVerifies
  /\ ReleaseVerifies(d, r, keyset, security)
  /\ StreamAllows(manifest[r], d)
  /\ \A b \in Reported(d) : DecisionAllowed(h, b, FALSE)
  /\ manifest' = [manifest EXCEPT ![r] = d]
  /\ decisions' = [g \in Hashes |->
       IF g = h /\ Reported(d) # {}
         THEN DecisionAfter(h, [rev |-> d.block, status |-> "blocked"])
         ELSE decisions[g]]
  /\ accepted' = accepted \cup {<<h, b>> : b \in Reported(d)}
  /\ UNCHANGED <<keyset, security, now, signed, underWay, installed>>

-----------------------------------------------------------------------------
(* Downloads *)

\* ready_registry_release: the saved documents verify now and approve.
Ready(r) ==
  /\ SavedSecurityVerifies
  /\ manifest[r] # Nothing
  /\ ReleaseVerifies(manifest[r], r, keyset, security)
  /\ manifest[r].available
  /\ manifest[r].block = 0
  /\ ~Blocked(ArchiveOf[manifest[r].approval])

\* Mutant of Identity: the approval does not name its security revision.
IdentityWithoutSecurity(r) ==
  [release |-> r, approval |-> manifest[r].approval, securityRev |-> 1]

Identity(r) == [release |-> r, approval |-> manifest[r].approval,
                securityRev |-> manifest[r].securityRev]

Begin(r) ==
  /\ underWay = Nothing
  /\ Ready(r)
  /\ underWay' = Identity(r)
  /\ UNCHANGED <<keyset, security, manifest, decisions, now, signed, installed, accepted>>

\* complete_registry_install: the approval is derived again and is the same, and
\* an installed release is not replaced by another approval of it.
Commit ==
  /\ underWay # Nothing
  /\ Ready(underWay.release)
  /\ Identity(underWay.release) = underWay
  /\ installed[underWay.release] \in {Nothing, underWay.approval}
  /\ installed' = [installed EXCEPT ![underWay.release] = underWay.approval]
  /\ underWay' = Nothing
  /\ UNCHANGED <<keyset, security, manifest, decisions, now, signed, accepted>>

\* A refused, failed or cancelled download; also the end of the process.
Abandon ==
  /\ underWay # Nothing
  /\ underWay' = Nothing
  /\ UNCHANGED <<keyset, security, manifest, decisions, now, signed, installed, accepted>>

-----------------------------------------------------------------------------
(* The world *)

NewestOf(docs) == {d \in signed \cap docs : \A e \in signed \cap docs : e.rev <= d.rev}
ManifestsOf(r) == {d \in ReleaseDocs : d.release = r}

\* Every decision a set of documents states.
Stated(docs) ==
  UNION ({{<<h, d.decisions[h]>> : h \in DOMAIN d.decisions} : d \in docs \cap SecurityDocs}
         \cup {{<<ArchiveOf[d.approval], b>> : b \in Reported(d)} : d \in docs \cap ReleaseDocs})

\* One payload per revision of a stream.
Single(docs) ==
  \A d, e \in docs : d.rev = e.rev => Canonical(d) = Canonical(e)

\* A careful registry: one payload per revision, one record per decision, and a
\* snapshot that names an archive names its newest decision up to then.
Consistent(docs) ==
  /\ Single(docs \cap KeyDocs)
  /\ Single(docs \cap SecurityDocs)
  /\ \A r \in Releases : Single(docs \cap ManifestsOf(r))
  /\ \A a, b \in Stated(docs) : a[1] = b[1] /\ a[2].rev = b[2].rev => a = b
  /\ \A s \in docs \cap SecurityDocs : \A h \in DOMAIN s.decisions :
       /\ \A t \in docs \cap SecurityDocs :
            t.rev <= s.rev /\ h \in DOMAIN t.decisions
              => t.decisions[h].rev <= s.decisions[h].rev
       /\ \A m \in docs \cap ReleaseDocs :
            m.securityRev <= s.rev /\ ArchiveOf[m.approval] = h
              => m.block <= s.decisions[h].rev

ClockMoves ==
  /\ now' \in Times \ {now}
  /\ UNCHANGED <<savedTrust, signed, underWay, installed, accepted>>

TrustInit ==
  /\ keyset = Nothing
  /\ security = Nothing
  /\ manifest = [r \in Releases |-> Nothing]
  /\ decisions = [h \in Hashes |-> Nothing]
  /\ now \in Times
  /\ signed \in Histories
  /\ underWay = Nothing
  /\ installed = [r \in Releases |-> Nothing]
  /\ accepted = {}

TrustNext ==
  \/ \E d \in KeyDocs : AcceptKeys(d)
  \/ \E d \in SecurityDocs : AcceptSecurity(d)
  \/ \E r \in Releases, d \in ReleaseDocs : AcceptRelease(r, d)
  \/ \E r \in Releases : Begin(r)
  \/ Commit
  \/ Abandon
  \/ ClockMoves

TrustSpec == TrustInit /\ [][TrustNext]_trustVars

-----------------------------------------------------------------------------
(* Properties *)

\* Each saved stream holds a document of its kind, each retained decision is one.
TrustTypeOK ==
  /\ keyset \in KeyDocs \cup {Nothing}
  /\ security \in SecurityDocs \cup {Nothing}
  /\ manifest \in [Releases -> ReleaseDocs \cup {Nothing}]
  /\ decisions \in [Hashes -> Decisions \cup {Nothing}]
  /\ now \in Times
  /\ signed \in Histories
  /\ underWay \in {Nothing} \cup
       [release : Releases, approval : Approvals, securityRev : Nat]
  /\ installed \in [Releases -> Approvals \cup {Nothing}]
  /\ accepted \subseteq Hashes \X Decisions

\* Whatever order snapshots and manifests came in (save_decision skips or refuses
\* the older one, storage/registry.rs:551), the retained decision of an archive is
\* the newest any accepted document carried, and no two differ at one revision.
NewestDecisionIsKept ==
  \A a \in accepted :
    /\ decisions[a[1]] # Nothing
    /\ a[2].rev <= decisions[a[1]].rev
    /\ a[2].rev = decisions[a[1]].rev => a[2] = decisions[a[1]]

Forward(old, new) ==
  old # Nothing => /\ new # Nothing
                   /\ new.rev >= old.rev
                   /\ new.rev = old.rev => Canonical(new) = Canonical(old)

\* No sequence of documents takes a stream back or changes the payload of a
\* revision (check_stream, storage/registry.rs:533).
StreamsOnlyAdvance ==
  [][/\ Forward(keyset, keyset')
     /\ Forward(security, security')
     /\ \A r \in Releases : Forward(manifest[r], manifest'[r])]_trustVars

\* "A newer signed explicit clear can remove a hash block; omissions, expiry or
\* sign-out cannot" (ARCHITECTURE.md:253), nor can any release manifest.
BlockEndsOnlyByClear ==
  [][\A h \in Hashes : Blocked(h) /\ ~Blocked(h)' =>
       /\ security' # security
       /\ h \in DOMAIN security'.decisions
       /\ security'.decisions[h].status = "cleared"
       /\ security'.decisions[h].rev > decisions[h].rev]_trustVars

\* An approval that lasts from the start of a download to its commit rests on one
\* security revision: a snapshot accepted in between, for whatever archive, stops
\* the installation (confirm_registry_download, storage/registry.rs:189).
CommitUnderOneSnapshot ==
  [][installed' # installed =>
       /\ underWay.securityRev = security.rev
       /\ \A a \in accepted :
            (a[1] = ArchiveOf[underWay.approval] /\ a[2].status = "blocked")
              => \E b \in accepted :
                   b[1] = a[1] /\ b[2].status = "cleared" /\ b[2].rev > a[2].rev]_trustVars

\* What a client saved never stands in the way of a registry that signs consistently: whatever
\* older documents it accepted before, in whatever order, and however often, the saved revision
\* of each stream and the retained decisions admit the newest document.  Signature, freshness
\* and the revision of the snapshot are checks of their own and no part of this
\* (storage/registry.rs:533, 551).
NewestIsNotRefused ==
  Consistent(signed) =>
    /\ \A d \in NewestOf(KeyDocs) : StreamAllows(keyset, d)
    /\ \A d \in NewestOf(SecurityDocs) :
         /\ StreamAllows(security, d)
         /\ \A h \in DOMAIN d.decisions : DecisionAllowed(h, d.decisions[h], TRUE)
    /\ \A r \in Releases : \A d \in NewestOf(ManifestsOf(r)) :
         /\ StreamAllows(manifest[r], d)
         /\ \A b \in Reported(d) : DecisionAllowed(ArchiveOf[d.approval], b, FALSE)

=============================================================================
