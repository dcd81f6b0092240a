---------------------------- MODULE DesktopState ----------------------------
(***************************************************************************)
(* The interface's view of the desktop (state.ts) and the core behind it.  *)
(* Every call to the core and every answer is under way for some time, and *)
(* calls may overtake each other; the messages of one channel keep their   *)
(* order.  A call that is not answered in five seconds is reported as      *)
(* unconfirmed, and its late answer is not looked at.                      *)
(***************************************************************************)
EXTENDS Integers, DesktopCore

CONSTANTS
  MaxByHand,   \* bound: connections up to this one may be opened while another works, and after the
               \* application was closed; later ones replace a silent one
  MaxClicks,   \* bound: clicks on start
  MaxCancels   \* bound: calls to cancel that are under way at once

Attempts == 1..MaxClicks

Places == {"sent", "answered", "over"}

ASSUME StateAssumption ==
  /\ {MaxByHand, MaxClicks, MaxCancels} \subseteq Nat
  /\ Nothing \notin Requests \cup [request : Requests, place : Places]

VARIABLES
  generation,   \* of the connection, which is its channel
  watch,        \* the call of each generation
  own,          \* the last revision this connection brought
  shown,        \* the revision of view.snapshot, or Nothing
  connection,
  attempt,      \* each call to start: its request, and where it is
  awaiting,     \* the attempt whose answer is awaited, or 0
  pendingStart, \* the request that is not confirmed, or Nothing
  settled,      \* starts that were answered in time
  cancels       \* calls to cancel that are under way

connecting == <<generation, watch, own, shown, connection>>
starting == <<attempt, awaiting, pendingStart, settled>>
desktopVars == <<core, connecting, starting, cancels>>

DesktopInit ==
  /\ CoreInit
  /\ generation = 0 /\ watch = [c \in StateChannels |-> "none"]
  /\ own = -1 /\ shown = Nothing /\ connection = "connecting"
  /\ attempt = [n \in Attempts |-> Nothing] /\ awaiting = 0 /\ pendingStart = Nothing /\ settled = 0
  /\ cancels = {}

-----------------------------------------------------------------------------
(* The connection *)

\* Mutant of Silent: a message of a connection that was replaced counts as a sign of life.
SilentIfNoneTalks ==
  generation # 0 =>
    watch[generation] = "done" /\ subscriber = Nothing /\ \A c \in StateChannels : sent[c] = <<>>

\* Nothing comes over this connection any more: six seconds go by without a message.
Silent ==
  generation # 0 =>
    watch[generation] = "done" /\ subscriber # generation /\ sent[generation] = <<>>

\* connect: at the start, by hand, or because nothing has come for six seconds.
Connect ==
  /\ generation + 1 \in StateChannels /\ (generation < MaxByHand \/ (Silent /\ ~stopped))
  /\ generation' = generation + 1
  /\ watch' = [watch EXCEPT ![generation + 1] = "sent"]
  /\ own' = -1
  /\ connection' = IF shown = Nothing THEN "connecting" ELSE "reconnecting"
  /\ UNCHANGED <<core, shown, starting, cancels>>

HandleWatch(c) ==
  /\ watch[c] = "sent"
  /\ \/ Watch(c) /\ watch' = [watch EXCEPT ![c] = "done"]
     \/ WatchFails /\ watch' = [watch EXCEPT ![c] = "failed"]
  /\ UNCHANGED <<generation, own, shown, connection, starting, cancels>>

WatchIsRefused(c) ==
  /\ watch[c] = "failed"
  /\ watch' = [watch EXCEPT ![c] = "done"]
  /\ connection' = IF c = generation THEN "reconnecting" ELSE connection
  /\ UNCHANGED <<core, generation, own, shown, starting, cancels>>

\* Mutant of Accepted: whatever comes is shown.
AcceptedAsItComes(c, r) == c \in StateChannels
\* Mutant of Accepted: only a newer state is worth a message.
AcceptedIfNewer(c, r) == c = generation /\ (shown = Nothing \/ r > shown) /\ r > own
\* The messages that may be shown.
Accepted(c, r) == c = generation /\ (shown = Nothing \/ r >= shown) /\ r >= own

Receive(c) ==
  /\ sent[c] # <<>>
  /\ sent' = [sent EXCEPT ![c] = Tail(@)]
  /\ LET r == Head(sent[c])
     IN IF Accepted(c, r)
        THEN /\ own' = r /\ connection' = "connected"
             /\ shown' = IF r > own \/ connection # "connected" THEN r ELSE shown
        ELSE UNCHANGED <<own, connection, shown>>
  /\ UNCHANGED <<revision, work, subscriber, sendFailures, stopped, generation, watch, starting, cancels>>

-----------------------------------------------------------------------------
(* Starting a diagnostic, and cancelling its operations *)

Attempted == {attempt[n].request : n \in {k \in Attempts : attempt[k] # Nothing}}
NewRequests == Requests \ Attempted

ClickStart ==
  /\ awaiting = 0 /\ connection = "connected"
  /\ \E n \in Attempts :
       /\ attempt[n] = Nothing /\ \A k \in 1..(n - 1) : attempt[k] # Nothing
       /\ \E r \in (IF pendingStart = Nothing THEN NewRequests ELSE {pendingStart}) :
            /\ pendingStart' = r
            /\ attempt' = [attempt EXCEPT ![n] = [request |-> r, place |-> "sent"]]
       /\ awaiting' = n
  /\ UNCHANGED <<core, connecting, settled, cancels>>

\* The answer to an attempt that is not awaited any more is dropped.
Answered(n) == [attempt EXCEPT ![n].place = IF n = awaiting THEN "answered" ELSE "over"]

\* start_diagnostic: a new diagnostic, the one the id already began, or a refusal.
HandleStart(n) ==
  /\ attempt[n] # Nothing /\ attempt[n].place = "sent"
  /\ attempt' = Answered(n)
  /\ LET r == attempt[n].request
     IN \/ StartDiagnostic(r)
        \/ (Known(r) \/ Refused(r)) /\ UNCHANGED core
  /\ UNCHANGED <<connecting, awaiting, pendingStart, settled, cancels>>

Confirmed ==
  /\ awaiting # 0 /\ attempt[awaiting].place = "answered"
  /\ attempt' = [attempt EXCEPT ![awaiting].place = "over"]
  /\ awaiting' = 0 /\ pendingStart' = Nothing /\ settled' = settled + 1
  /\ UNCHANGED <<core, connecting, cancels>>

\* Mutant of KeptByTimeout: the request is given up with its answer.
GivenUpByTimeout == Nothing
\* A request that was not confirmed is repeated under its own id.
KeptByTimeout == pendingStart

TimesOut ==
  /\ awaiting # 0
  /\ attempt' = [attempt EXCEPT ![awaiting].place = IF @ = "answered" THEN "over" ELSE @]
  /\ awaiting' = 0 /\ pendingStart' = KeptByTimeout
  /\ UNCHANGED <<core, connecting, settled, cancels>>

\* The diagnostic of the snapshot that is shown, or 0.
Displayed ==
  IF shown = Nothing THEN 0
  ELSE Cardinality({d \in 1..Latest : diagnostics[d].since <= shown})

\* A second click does nothing while the first is awaited.
ClickCancel(l) ==
  /\ connection = "connected" /\ Displayed # 0
  /\ <<Displayed, l>> \notin cancels /\ Cardinality(cancels) < MaxCancels
  /\ cancels' = cancels \cup {<<Displayed, l>>}
  /\ UNCHANGED <<core, connecting, starting>>

HandleCancel(o) ==
  /\ o \in cancels /\ cancels' = cancels \ {o}
  /\ CancelOperation(o[1], o[2])
  /\ UNCHANGED <<connecting, starting>>

-----------------------------------------------------------------------------

ViewNext ==
  \/ Connect
  \/ \E c \in StateChannels : HandleWatch(c) \/ WatchIsRefused(c) \/ Receive(c)
  \/ ClickStart \/ Confirmed \/ TimesOut
  \/ \E n \in Attempts : HandleStart(n)
  \/ \E l \in Lanes : ClickCancel(l)
  \/ \E o \in cancels : HandleCancel(o)

\* The rest of the program, which closes with a connection to spare or not at all (bound).
CoreStep ==
  /\ CoreNext /\ (stopped' => generation < MaxByHand)
  /\ UNCHANGED <<connecting, starting, cancels>>

DesktopNext == ViewNext \/ CoreStep

\* Calls and messages arrive, threads run, and a silent connection is replaced.
DesktopFairness ==
  /\ \A c \in StateChannels : WF_desktopVars(HandleWatch(c)) /\ WF_desktopVars(WatchIsRefused(c))
                             /\ WF_desktopVars(Receive(c))
  /\ WF_desktopVars(Silent /\ Connect)
  /\ WF_desktopVars(Heartbeat /\ UNCHANGED <<connecting, starting, cancels>>)
  /\ WF_desktopVars(\E d \in 1..Latest : Advance(d) /\ UNCHANGED <<connecting, starting, cancels>>)

DesktopSpec == DesktopInit /\ [][DesktopNext]_desktopVars /\ DesktopFairness

-----------------------------------------------------------------------------
(* Properties *)

DesktopTypeOK ==
  /\ CoreTypeOK
  /\ generation \in StateChannels \cup {0}
  /\ watch \in [StateChannels -> {"none", "sent", "done", "failed"}]
  /\ own \in -1..revision /\ shown \in 0..revision \cup {Nothing}
  /\ connection \in {"connecting", "connected", "reconnecting"}
  /\ attempt \in [Attempts -> [request : Requests, place : Places] \cup {Nothing}]
  /\ awaiting \in {0} \cup {n \in Attempts : attempt[n] # Nothing}
  /\ pendingStart \in Requests \cup {Nothing} /\ settled \in 0..MaxClicks
  /\ cancels \subseteq (1..Latest) \X Lanes

\* The interface never goes back to an older state, whichever connection a message came by and
\* in which order the connections were accepted (state.ts:98).
ShownNeverGoesBack == [][shown # Nothing => shown' >= shown]_desktopVars

\* A change is shown at last, and shown as connected, although a channel fails, a subscription
\* is replaced, or an old subscription overtakes a new one and takes its place: the connection
\* that hears nothing more is replaced.  Excepted are an application that closes, and the last
\* connection of the bound, when another has its place (app.rs:83, state.ts:132).
LatestIsShown ==
  []<>(\/ shown = revision /\ connection = "connected"
       \/ stopped \/ (generation = MaxChannels /\ subscriber # generation))

\* The interface follows the core: never backwards, and to the latest state at last.
InterfaceFollows == ShownNeverGoesBack /\ LatestIsShown

\* A start that was not confirmed in time and is tried again does not run twice: a request id
\* starts one diagnostic, however often and late it arrives (app.rs:105), and beyond the
\* starts that were answered at most one diagnostic has begun (state.ts:174).
RetryRunsOnce ==
  /\ \A d, e \in 1..Latest : diagnostics[d].request = diagnostics[e].request => d = e
  /\ Latest <= settled + 1

\* An operation that is being cancelled ends cancelled: it does not complete, fail, or make way
\* for another diagnostic before (app.rs:112).
CancelIsKept ==
  [][operations # Nothing =>
       \A l \in Lanes : operations[l].status = "Cancelling" =>
         operations'[l].status \in {"Cancelling", "Cancelled"} /\ diagnostics' = diagnostics]_desktopVars

\* A diagnostic comes to an end, and with it the wait of every other (app.rs:205).
DiagnosticsEnd == []<>(~Unfinished(operations) \/ stopped)

\* Every diagnostic ends, and one that was cancelled ends as cancelled.
CancelledEnd == CancelIsKept /\ DiagnosticsEnd

-----------------------------------------------------------------------------
(***************************************************************************)
(* The inductive invariant behind RetryRunsOnce.                           *)
(***************************************************************************)
\* Every remembered request began one diagnostic.
DiagnosticsInv ==
  /\ diagnostics \in Seq(Diagnostics) /\ revision \in Nat
  /\ IsFiniteSet(requests) /\ Cardinality(requests) = Latest
  /\ \A d \in 1..Latest : diagnostics[d].request \in requests
  /\ \A d, e \in 1..Latest : diagnostics[d].request = diagnostics[e].request => d = e

\* A request that was tried is settled or the one that is kept.
AttemptsInv ==
  /\ attempt \in [Attempts -> [request : Requests, place : Places] \cup {Nothing}]
  /\ awaiting # 0 => awaiting \in Attempts /\ attempt[awaiting] # Nothing /\ pendingStart # Nothing
  /\ pendingStart \in Attempted \cup {Nothing}
  /\ IsFiniteSet(Attempted) /\ settled \in Nat
  /\ Cardinality(Attempted) = IF pendingStart = Nothing THEN settled ELSE settled + 1

IInv == DiagnosticsInv /\ AttemptsInv /\ requests \subseteq Attempted
=============================================================================
