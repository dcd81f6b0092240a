----------------------------- MODULE DesktopCore -----------------------------
(***************************************************************************)
(* The core of the desktop process (app.rs): the state behind one lock,    *)
(* its revision, the one channel that is told of it, and the diagnostics   *)
(* with their worker threads.  A snapshot is a complete copy of the state, *)
(* so that a message is modelled by the revision it carries.  An operation *)
(* is named by its diagnostic and its lane.                                *)
(***************************************************************************)
EXTENDS Naturals, Sequences, FiniteSets

CONSTANTS
  Requests,      \* ids a request to start a diagnostic can carry
  Failing,       \* the ones among them that ask for a failure
  Lanes,         \* the operations of a diagnostic (three in the code)
  Steps,         \* work steps of an operation (100), failing ones fail half-way
  MaxRequests,   \* request ids that are remembered (256)
  MaxChannels,   \* bound: channels the interface opens
  MaxUnderWay,   \* bound: messages under way on a channel
  MaxRevision,   \* bound: up to here other parts of the program change the state
  MaxFailures,   \* bound: sends that fail
  Nothing

StateChannels == 1..MaxChannels
Statuses == {"Running", "Cancelling", "Cancelled", "Completed", "Failed"}
Operations == [Lanes -> [status : Statuses, progress : 0..Steps]]
Diagnostics == [request : Requests, since : Nat]

ASSUME CoreAssumption ==
  /\ Failing \subseteq Requests /\ IsFiniteSet(Requests)
  /\ Steps \in Nat \ {0} /\ {MaxRequests, MaxChannels, MaxUnderWay, MaxRevision, MaxFailures} \subseteq Nat
  /\ Nothing \notin StateChannels \cup Operations

VARIABLES
  revision,     \* of the snapshot
  operations,   \* of the snapshot: those of the last diagnostic, or Nothing
  diagnostics,  \* the diagnostics so far, with the revision that showed them first
  requests,     \* ids that are remembered
  workers,      \* diagnostics whose thread runs
  subscriber,   \* the channel that is told, or Nothing
  sent,         \* messages under way on each channel
  sendFailures, \* sends that have failed
  stopped

channel == <<subscriber, sent, sendFailures>>
work == <<operations, diagnostics, requests, workers>>
core == <<revision, work, channel, stopped>>

CoreInit ==
  /\ revision = 0 /\ operations = Nothing /\ diagnostics = <<>> /\ requests = {} /\ workers = {}
  /\ subscriber = Nothing /\ sent = [c \in StateChannels |-> <<>>] /\ sendFailures = 0
  /\ stopped = FALSE

Send(c, r) ==
  Len(sent[c]) < MaxUnderWay /\ sent' = [sent EXCEPT ![c] = Append(@, r)] /\ UNCHANGED sendFailures
SendFails == sendFailures < MaxFailures /\ sendFailures' = sendFailures + 1 /\ UNCHANGED sent

\* A subscriber that cannot be told is given up.
Publish(r) ==
  \/ subscriber = Nothing /\ UNCHANGED channel
  \/ subscriber # Nothing /\ Send(subscriber, r) /\ UNCHANGED subscriber
  \/ subscriber # Nothing /\ SendFails /\ subscriber' = Nothing

Changed == revision' = revision + 1 /\ Publish(revision + 1)

\* watch: the first snapshot is sent under the lock that makes c the subscriber.
Watch(c) ==
  /\ Send(c, revision) /\ subscriber' = c
  /\ UNCHANGED <<revision, work, stopped>>
WatchFails == SendFails /\ UNCHANGED <<revision, work, subscriber, stopped>>

Latest == Len(diagnostics)
Live == {"Running", "Cancelling"}
Unfinished(ops) == ops # Nothing /\ \E l \in Lanes : ops[l].status \in Live

\* Mutant of Known: a request is known by the diagnostic that runs for it.
KnownWhileUnfinished(r) == Unfinished(operations) /\ diagnostics[Latest].request = r
Known(r) == r \in requests
\* Mutant of Occupied: only running operations are waited for.
OccupiedIfRunning == operations # Nothing /\ \E l \in Lanes : operations[l].status = "Running"
Occupied == Unfinished(operations)
Refused(r) == ~Known(r) /\ (Occupied \/ stopped \/ Cardinality(requests) >= MaxRequests)

\* start, with the thread start_worker begins for it
StartDiagnostic(r) ==
  /\ ~Known(r) /\ ~Refused(r)
  /\ operations' = [l \in Lanes |-> [status |-> "Running", progress |-> 0]]
  /\ diagnostics' = Append(diagnostics, [request |-> r, since |-> revision + 1])
  /\ requests' = requests \cup {r}
  /\ workers' = workers \cup {Latest + 1}
  /\ Changed
  /\ UNCHANGED stopped

\* cancel: of an operation that is not displayed any more there is nothing to stop.
CancelOperation(d, l) ==
  /\ IF d = Latest /\ operations[l].status = "Running"
     THEN operations' = [operations EXCEPT ![l].status = "Cancelling"] /\ Changed
     ELSE UNCHANGED <<operations, revision, channel>>
  /\ UNCHANGED <<diagnostics, requests, workers, stopped>>

\* Mutant of Worked: the thread passes over what is being cancelled.
WorkedOnRunning(op, fail) ==
  IF op.status = "Running"
  THEN [progress |-> op.progress + 1,
        status |-> IF op.progress + 1 = Steps THEN "Completed" ELSE "Running"]
  ELSE op

Worked(op, fail) ==
  CASE op.status = "Cancelling" -> [op EXCEPT !.status = "Cancelled"]
    [] op.status = "Running" ->
         [progress |-> op.progress + 1,
          status |-> CASE fail /\ op.progress + 1 = (Steps + 1) \div 2 -> "Failed"
                       [] op.progress + 1 = Steps -> "Completed"
                       [] OTHER -> "Running"]
    [] OTHER -> op

\* One turn of a worker's thread: advance.
Advance(d) ==
  /\ d \in workers
  /\ IF stopped \/ d # Latest
     THEN workers' = workers \ {d} /\ UNCHANGED <<operations, revision, channel>>
     ELSE LET ops == [l \in Lanes |->
                        Worked(operations[l], diagnostics[d].request \in Failing)]
          IN /\ operations' = ops
             /\ workers' = IF Unfinished(ops) THEN workers ELSE workers \ {d}
             /\ IF ops # operations THEN Changed ELSE UNCHANGED <<revision, channel>>
  /\ UNCHANGED <<diagnostics, requests, stopped>>

\* The thread that repeats the snapshot every two seconds (bound: one message at a time).
Heartbeat ==
  /\ ~stopped /\ subscriber # Nothing /\ sent[subscriber] = <<>>
  /\ Publish(revision)
  /\ UNCHANGED <<revision, work, stopped>>

\* game, saved_data and updates
OtherChange ==
  /\ ~stopped /\ revision < MaxRevision
  /\ Changed
  /\ UNCHANGED <<work, stopped>>

\* The window is asked to close while files are written: it stays and says so.  At any other
\* time the process ends.
CloseRequested ==
  /\ ~stopped /\ stopped' = TRUE
  /\ Changed
  /\ UNCHANGED work

CoreNext == (\E d \in 1..Latest : Advance(d)) \/ Heartbeat \/ OtherChange \/ CloseRequested

CoreTypeOK ==
  /\ revision \in Nat /\ operations \in Operations \cup {Nothing}
  /\ diagnostics \in Seq(Diagnostics) /\ requests \subseteq Requests
  /\ Cardinality(requests) <= MaxRequests
  /\ workers \subseteq 1..Latest
  /\ subscriber \in StateChannels \cup {Nothing} /\ sent \in [StateChannels -> Seq(0..revision)]
  /\ sendFailures \in 0..MaxFailures /\ stopped \in BOOLEAN
=============================================================================
