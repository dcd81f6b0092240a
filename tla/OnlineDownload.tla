--------------------------- MODULE OnlineDownload ---------------------------
(***************************************************************************)
(* A download under a website session: WebsiteSession hands out the token  *)
(* and a cancellation channel, RegistryTransfer carries the transfer out   *)
(* under both (packages/registry.rs:552, the task that watches them).      *)
(***************************************************************************)
EXTENDS WebsiteSession, Sequences

CONSTANTS Bytes, MaxGrants

ASSUME TransferAssumption == {Bytes, MaxGrants} \subseteq Nat \ {0}

VARIABLES
  phase, file, behind, attempt, start, restarted, received, outcome,
  download,   \* the request the transfer was started with
  cancelled   \* the player cancelled it

transfer == <<phase, file, behind, attempt, start, restarted, received, outcome>>
vars == <<sessionVars, transfer, download, cancelled>>

\* The watch task: cancel, or the channel of the request.
Aborted == cancelled \/ (download # None /\ download.chan \in stopped)

Transfer == INSTANCE RegistryTransfer WITH cut <- Aborted

Init == SessionInit /\ Transfer!TransferInit /\ download = None /\ cancelled = FALSE

\* Bound: while a transfer runs, the only command under way is a sign-out.
OnlySignOut == \A c \in Calls : calls[c] # None => calls[c].kind = "signOut"

\* start_registry refuses a channel that is set already.
StartDownload ==
  /\ held # None
  /\ held.chan \notin stopped
  /\ OnlySignOut
  /\ download' = held
  /\ held' = None
  /\ Transfer!BeginTransfer
  /\ UNCHANGED <<calls, backend, server, current, stopped, interface, restarts, vaultFaults, over, cancelled>>

CancelDownload ==
  /\ download # None
  /\ ~cancelled
  /\ cancelled' = TRUE
  /\ UNCHANGED <<sessionVars, transfer, download>>

\* The website confirms a session only for a token it knows.
TransferGoesOn ==
  /\ phase \notin {"idle", "done"}
  /\ Transfer!TransferStep
  /\ outcome' = "ok" => server[download.token] = "live"
  /\ UNCHANGED <<sessionVars, download, cancelled>>

NoTransfer ==
  /\ phase' = "idle"
  /\ file' = <<>>
  /\ behind' = FALSE
  /\ attempt' = 0
  /\ start' = 0
  /\ restarted' = FALSE
  /\ received' = 0
  /\ outcome' = "none"
  /\ download' = None
  /\ cancelled' = FALSE

\* The queue collects the outcome (RegistryQueue).
Collect == phase = "done" /\ NoTransfer /\ UNCHANGED sessionVars

SessionGoesOn ==
  /\ SessionStep
  /\ IF restarts' # restarts THEN NoTransfer ELSE UNCHANGED <<transfer, download, cancelled>>
  /\ phase' # "idle" => OnlySignOut'

Next == StartDownload \/ CancelDownload \/ TransferGoesOn \/ Collect \/ SessionGoesOn

Spec == Init /\ [][Next]_vars

\* Requests have their time limit (transport.rs:216); the content of an archive has none,
\* so of a transfer only what the client does by itself is sure to happen.
Fairness == WF_vars(TransferGoesOn /\ Transfer!Client)
FairSpec == Spec /\ Fairness

-----------------------------------------------------------------------------
(* Properties *)

TypeOK ==
  /\ SessionTypeOK
  /\ Transfer!TransferTypeOK
  /\ download \in HeldRequests \cup {None}
  /\ cancelled \in BOOLEAN
  /\ phase # "idle" <=> download # None

VerifiedIsApproved == Transfer!VerifiedIsApproved

\* A sign-out or a cancel reaches every command, every request that was handed out and
\* the transfer: none holds a channel that was replaced before it was set
\* (auth_service.rs:83).
StopReachesAll ==
  [][stopped' # stopped /\ stopped' # {} =>
       /\ \A c \in Calls : At(c, "network") => calls[c].chan \in stopped'
       /\ held # None => held.chan \in stopped'
       /\ download # None => download.chan \in stopped']_vars

\* A transfer that was cancelled or signed out comes to its end although its server may
\* never send another byte (transport.rs:573).
StoppedTransfersEnd == (phase # "idle" /\ Aborted) ~> phase \in {"idle", "done"}

\* A sign-out or cancel takes effect: it reaches everything under way, and the transfer ends.
StopTakesEffect == StopReachesAll /\ StoppedTransfersEnd

=============================================================================
