------------------------- MODULE ApplicationProofs -------------------------
(***************************************************************************)
(* The application between its first start and its removal.  First part:   *)
(* the diagnostics the desktop asks its core for (DesktopState).  Second   *)
(* part: its saved data and the updates that replace the program above     *)
(* them, for every set of builds, schemas and release pages (StorageOpen,  *)
(* Updates).                                                               *)
(* The two share no state: each theorem is about one of them.              *)
(***************************************************************************)
EXTENDS Updates, DesktopState, FiniteSetTheorems, SequenceTheorems, WellFoundedInduction, TLAPS

-----------------------------------------------------------------------------
(* Diagnostics from the desktop: a start that is tried again runs once, an older state *)
(* is never shown, and what is cancelled ends so, for any number of clicks, ids,       *)
(* connections and lost messages.                                                      *)

USE CoreAssumption, StateAssumption

starts == <<diagnostics, requests, starting>>

\* Nothing was started at first.
LEMMA DesktopStarts == DesktopInit => IInv
<1> SUFFICES ASSUME DesktopInit PROVE IInv
  OBVIOUS
<1>1. Attempted = {}
  BY DEF DesktopInit, Attempted
<1>2. diagnostics \in Seq(Diagnostics) /\ Len(diagnostics) = 0 /\ requests = {} /\ revision \in Nat
  BY EmptySeq DEF DesktopInit, CoreInit
<1>3. DiagnosticsInv
  BY <1>2, FS_EmptySet DEF DiagnosticsInv, Latest
<1>4. attempt \in [Attempts -> [request : Requests, place : Places] \cup {Nothing}]
  BY DEF DesktopInit
<1>5. AttemptsInv
  BY <1>1, <1>4, FS_EmptySet DEF DesktopInit, AttemptsInv
<1> QED
  BY <1>2, <1>3, <1>5 DEF IInv

\* The revision only counts up.
LEMMA RevisionStep == revision \in Nat /\ [DesktopNext]_desktopVars => revision' \in Nat
<1> SUFFICES ASSUME revision \in Nat, [DesktopNext]_desktopVars PROVE revision' \in Nat
  OBVIOUS
<1> USE DEF core, channel, work, Changed
<1>1. CASE Connect \/ ClickStart \/ Confirmed \/ TimesOut \/ \E l \in Lanes : ClickCancel(l)
  BY <1>1 DEF Connect, ClickStart, Confirmed, TimesOut, ClickCancel
<1>2. ASSUME NEW c \in StateChannels, HandleWatch(c) \/ WatchIsRefused(c) \/ Receive(c)
      PROVE  revision' \in Nat
  BY <1>2 DEF HandleWatch, Watch, WatchFails, WatchIsRefused, Receive
<1>3. ASSUME NEW n \in Attempts, HandleStart(n) PROVE revision' \in Nat
  BY <1>3 DEF HandleStart, StartDiagnostic
<1>4. ASSUME NEW o \in cancels, HandleCancel(o) PROVE revision' \in Nat
  BY <1>4 DEF HandleCancel, CancelOperation
<1>5. ASSUME NEW d \in 1..Latest, Advance(d) PROVE revision' \in Nat
  BY <1>5 DEF Advance
<1>6. CASE Heartbeat \/ OtherChange \/ CloseRequested \/ UNCHANGED desktopVars
  BY <1>6 DEF Heartbeat, OtherChange, CloseRequested, desktopVars
<1> QED
  BY <1>1, <1>2, <1>3, <1>4, <1>5, <1>6 DEF DesktopNext, ViewNext, CoreStep, CoreNext

\* Only four steps concern what was started.
LEMMA StartsStay ==
  ASSUME [DesktopNext]_desktopVars, ~ClickStart, ~Confirmed, ~TimesOut, ~\E n \in Attempts : HandleStart(n)
  PROVE  UNCHANGED starts
<1> USE DEF starts, core, work, connecting, starting
<1>1. CASE Connect \/ \E c \in StateChannels : HandleWatch(c) \/ WatchIsRefused(c) \/ Receive(c)
  BY <1>1 DEF Connect, HandleWatch, Watch, WatchFails, WatchIsRefused, Receive
<1>2. CASE (\E l \in Lanes : ClickCancel(l)) \/ \E o \in cancels : HandleCancel(o)
  BY <1>2 DEF ClickCancel, HandleCancel, CancelOperation
<1>3. CASE CoreNext /\ UNCHANGED <<connecting, starting, cancels>>
  BY <1>3 DEF CoreNext, Advance, Heartbeat, OtherChange, CloseRequested
<1>4. CASE UNCHANGED desktopVars
  BY <1>4 DEF desktopVars
<1> QED
  BY <1>1, <1>2, <1>3, <1>4 DEF DesktopNext, ViewNext, CoreStep

\* A diagnostic is begun under a request that is not remembered.
LEMMA StartedOnce ==
  ASSUME DiagnosticsInv, revision' \in Nat, NEW r \in Requests, StartDiagnostic(r)
  PROVE  DiagnosticsInv'
<1> DEFINE d == [request |-> r, since |-> revision + 1]
<1>1. d \in Diagnostics /\ diagnostics' = Append(diagnostics, d)
      /\ requests' = requests \cup {r} /\ r \notin requests
  BY DEF StartDiagnostic, Known, DiagnosticsInv, Diagnostics
<1>2. /\ diagnostics' \in Seq(Diagnostics) /\ Latest \in Nat /\ Latest' = Latest + 1
      /\ \A i \in 1..Latest : diagnostics'[i] = diagnostics[i]
      /\ diagnostics'[Latest + 1] = d
  BY <1>1, AppendProperties, LenProperties DEF DiagnosticsInv, Latest
<1>3. IsFiniteSet(requests') /\ Cardinality(requests') = Latest'
  BY <1>1, <1>2, FS_AddElement DEF DiagnosticsInv
<1>4. \A i \in 1..Latest' : i \in 1..Latest \/ i = Latest + 1
  BY <1>2
<1>7. \A i \in 1..Latest' :
        \/ i \in 1..Latest /\ diagnostics'[i].request = diagnostics[i].request
             /\ diagnostics[i].request \in requests
        \/ i = Latest + 1 /\ diagnostics'[i].request = r
  <2>1. d.request = r
    OBVIOUS
  <2>2. diagnostics'[Latest + 1].request = r
    BY <1>2, <2>1
  <2> HIDE DEF d
  <2>3. \A i \in 1..Latest : diagnostics'[i].request = diagnostics[i].request
    BY <1>2
  <2>4. \A i \in 1..Latest : diagnostics[i].request \in requests
    BY DEF DiagnosticsInv
  <2> QED
    BY <1>4, <2>2, <2>3, <2>4
<1>5. \A i \in 1..Latest' : diagnostics'[i].request \in requests'
  BY <1>1, <1>7
<1>6. ASSUME NEW i \in 1..Latest', NEW j \in 1..Latest',
             diagnostics'[i].request = diagnostics'[j].request
      PROVE  i = j
  <2>1. r \notin requests
    BY <1>1
  <2>2. CASE i \in 1..Latest /\ j \in 1..Latest
    <3>1. \A a, b \in 1..Latest : diagnostics[a].request = diagnostics[b].request => a = b
      BY DEF DiagnosticsInv
    <3>2. diagnostics'[i].request = diagnostics[i].request /\ diagnostics'[j].request = diagnostics[j].request
      BY <1>2, <2>2
    <3> QED
      BY <1>6, <2>2, <3>1, <3>2
  <2>3. CASE i = Latest + 1 \/ j = Latest + 1
    <3>1. \A k \in 1..Latest' : diagnostics'[k].request = r => k = Latest + 1
      BY <1>7, <2>1
    <3>2. diagnostics'[i].request = r /\ diagnostics'[j].request = r
      BY <1>2, <1>6, <2>3
    <3>3. i = Latest + 1 /\ j = Latest + 1
      BY <3>1, <3>2
    <3> QED
      BY <3>3
  <2> QED
    BY <1>4, <2>2, <2>3
<1> QED
  BY <1>2, <1>3, <1>5, <1>6 DEF DiagnosticsInv

\* Where an attempt stands does not matter to which request it carries.
LEMMA SameAttempted ==
  ASSUME AttemptsInv, NEW n \in Attempts, attempt[n] # Nothing, NEW p \in Places,
         attempt' = [attempt EXCEPT ![n].place = p]
  PROVE  /\ Attempted' = Attempted
         /\ attempt' \in [Attempts -> [request : Requests, place : Places] \cup {Nothing}]
         /\ \A k \in Attempts : attempt'[k] # Nothing <=> attempt[k] # Nothing
<1>1. attempt[n] \in [request : Requests, place : Places]
  BY DEF AttemptsInv
<1>2. attempt' = [attempt EXCEPT ![n] = [request |-> attempt[n].request, place |-> p]]
  <2>1. [attempt[n] EXCEPT !.place = p] = [request |-> attempt[n].request, place |-> p]
    BY <1>1
  <2>2. attempt' = [attempt EXCEPT ![n] = [attempt[n] EXCEPT !.place = p]]
    OBVIOUS
  <2> QED
    BY <2>1, <2>2
<1>3. attempt'[n] \in [request : Requests, place : Places] /\ attempt'[n].request = attempt[n].request
  BY <1>1, <1>2 DEF AttemptsInv
<1>4. \A k \in Attempts : k # n => attempt'[k] = attempt[k]
  BY <1>2 DEF AttemptsInv
<1>5. \A k \in Attempts : attempt'[k] # Nothing <=> attempt[k] # Nothing
  BY <1>3, <1>4
<1>6. Attempted' = Attempted
  BY <1>3, <1>4, <1>5 DEF Attempted
<1> QED
  BY <1>2, <1>3, <1>5, <1>6 DEF AttemptsInv

\* A click on start: its request is fresh, or the one that is kept.
LEMMA ClickStartStep == AttemptsInv /\ ClickStart => AttemptsInv' /\ Attempted \subseteq Attempted'
<1> SUFFICES ASSUME AttemptsInv, ClickStart PROVE AttemptsInv' /\ Attempted \subseteq Attempted'
  OBVIOUS
<1>1. PICK n \in Attempts, r \in (IF pendingStart = Nothing THEN NewRequests ELSE {pendingStart}) :
        /\ attempt[n] = Nothing /\ pendingStart' = r /\ awaiting' = n
        /\ attempt' = [attempt EXCEPT ![n] = [request |-> r, place |-> "sent"]]
        /\ settled' = settled
  BY DEF ClickStart
<1>2. /\ r \in Requests /\ r # Nothing
      /\ pendingStart = Nothing => r \notin Attempted
      /\ pendingStart # Nothing => r \in Attempted
  <2>1. Attempted \subseteq Requests
    BY DEF Attempted, AttemptsInv
  <2> QED
    BY <1>1, <2>1 DEF NewRequests, AttemptsInv
<1>3. [request |-> r, place |-> "sent"] \in [request : Requests, place : Places]
  BY <1>2 DEF Places
<1>4. /\ attempt' \in [Attempts -> [request : Requests, place : Places] \cup {Nothing}]
      /\ attempt'[n] # Nothing /\ attempt'[n].request = r
      /\ \A k \in Attempts : k # n => attempt'[k] = attempt[k]
  BY <1>1, <1>3 DEF AttemptsInv
<1>5. Attempted' = Attempted \cup {r}
  BY <1>1, <1>4 DEF Attempted
<1>6. /\ IsFiniteSet(Attempted')
      /\ Cardinality(Attempted') = IF r \in Attempted THEN Cardinality(Attempted)
                                   ELSE Cardinality(Attempted) + 1
  BY <1>5, FS_AddElement DEF AttemptsInv
<1>7. Cardinality(Attempted') = settled + 1
  BY <1>2, <1>6 DEF AttemptsInv
<1> QED
  BY <1>1, <1>2, <1>4, <1>5, <1>6, <1>7 DEF AttemptsInv

\* The invariant is inductive.
LEMMA DesktopKeeps == IInv /\ [DesktopNext]_desktopVars => IInv'
<1> SUFFICES ASSUME IInv, [DesktopNext]_desktopVars PROVE IInv'
  OBVIOUS
<1>0. revision' \in Nat
  BY RevisionStep DEF IInv, DiagnosticsInv
<1>1. CASE ClickStart
  <2>1. UNCHANGED <<diagnostics, requests>>
    BY <1>1 DEF ClickStart, core, work
  <2>2. DiagnosticsInv'
    BY <1>0, <2>1 DEF IInv, DiagnosticsInv, Latest
  <2> QED
    BY <1>1, <2>1, <2>2, ClickStartStep DEF IInv
<1>2. CASE Confirmed
  <2>1. awaiting \in Attempts /\ attempt[awaiting] # Nothing /\ pendingStart # Nothing
        /\ attempt' = [attempt EXCEPT ![awaiting].place = "over"] /\ "over" \in Places
    BY <1>2 DEF Confirmed, IInv, AttemptsInv, Places
  <2>2. Attempted' = Attempted
        /\ attempt' \in [Attempts -> [request : Requests, place : Places] \cup {Nothing}]
    BY <2>1, SameAttempted DEF IInv
  <2>3. awaiting' = 0 /\ pendingStart' = Nothing /\ settled' = settled + 1
        /\ UNCHANGED <<diagnostics, requests>>
    BY <1>2 DEF Confirmed, core, work
  <2>4. DiagnosticsInv'
    BY <1>0, <2>3 DEF IInv, DiagnosticsInv, Latest
  <2>5. AttemptsInv'
    BY <2>1, <2>2, <2>3 DEF IInv, AttemptsInv
  <2> QED
    BY <2>2, <2>3, <2>4, <2>5 DEF IInv
<1>3. CASE TimesOut
  <2>1. awaiting \in Attempts /\ attempt[awaiting] # Nothing
    BY <1>3 DEF TimesOut, IInv, AttemptsInv
  <2>2. attempt[awaiting].place \in Places
    BY <2>1 DEF IInv, AttemptsInv
  <2>3. PICK p \in Places : attempt' = [attempt EXCEPT ![awaiting].place = p]
    BY <1>3, <2>2 DEF TimesOut, Places
  <2>4. Attempted' = Attempted
        /\ attempt' \in [Attempts -> [request : Requests, place : Places] \cup {Nothing}]
    BY <2>1, <2>3, SameAttempted DEF IInv
  <2>5. awaiting' = 0 /\ UNCHANGED <<diagnostics, requests, pendingStart, settled>>
    BY <1>3 DEF TimesOut, KeptByTimeout, core, work
  <2>6. DiagnosticsInv'
    BY <1>0, <2>5 DEF IInv, DiagnosticsInv, Latest
  <2>7. AttemptsInv'
    BY <2>4, <2>5 DEF IInv, AttemptsInv
  <2> QED
    BY <2>4, <2>5, <2>6, <2>7 DEF IInv
<1>4. ASSUME NEW n \in Attempts, HandleStart(n) PROVE IInv'
  <2>1. attempt[n] # Nothing /\ UNCHANGED <<awaiting, pendingStart, settled>>
    BY <1>4 DEF HandleStart
  <2>2. PICK p \in Places : attempt' = [attempt EXCEPT ![n].place = p]
    BY <1>4 DEF HandleStart, Answered, Places
  <2>3. /\ Attempted' = Attempted
        /\ attempt' \in [Attempts -> [request : Requests, place : Places] \cup {Nothing}]
        /\ \A k \in Attempts : attempt'[k] # Nothing <=> attempt[k] # Nothing
    BY <2>1, <2>2, SameAttempted DEF IInv
  <2>4. AttemptsInv'
    BY <2>1, <2>3 DEF IInv, AttemptsInv
  <2>5. attempt[n].request \in Requests /\ attempt[n].request \in Attempted
    BY <2>1 DEF IInv, AttemptsInv, Attempted
  <2>6. CASE StartDiagnostic(attempt[n].request)
    <3>1. DiagnosticsInv'
      BY <1>0, <2>5, <2>6, StartedOnce DEF IInv
    <3>2. requests' = requests \cup {attempt[n].request}
      BY <2>6 DEF StartDiagnostic
    <3> QED
      BY <2>3, <2>4, <2>5, <3>1, <3>2 DEF IInv
  <2>7. CASE UNCHANGED core
    <3>1. UNCHANGED <<diagnostics, requests>>
      BY <2>7 DEF core, work
    <3>2. DiagnosticsInv'
      BY <1>0, <3>1 DEF IInv, DiagnosticsInv, Latest
    <3> QED
      BY <2>3, <2>4, <3>1, <3>2 DEF IInv
  <2> QED
    BY <1>4, <2>6, <2>7 DEF HandleStart
<1>5. CASE UNCHANGED starts
  <2>1. UNCHANGED <<diagnostics, requests, attempt, awaiting, pendingStart, settled>>
    BY <1>5 DEF starts, starting
  <2>2. DiagnosticsInv'
    BY <1>0, <2>1 DEF IInv, DiagnosticsInv, Latest
  <2>3. Attempted' = Attempted
    BY <2>1 DEF Attempted
  <2>4. AttemptsInv'
    BY <2>1, <2>3 DEF IInv, AttemptsInv
  <2> QED
    BY <2>1, <2>2, <2>3, <2>4 DEF IInv
<1> QED
  BY <1>1, <1>2, <1>3, <1>4, <1>5, StartsStay

\* However often a start is repeated and however late its calls arrive, every request begins
\* one diagnostic, and never more than one beyond the starts that were answered (app.rs:105,
\* state.ts:174).
THEOREM RetriesRunOnce == DesktopSpec => []RetryRunsOnce
<1>1. IInv => RetryRunsOnce
  <2> SUFFICES ASSUME IInv PROVE RetryRunsOnce
    OBVIOUS
  <2>1. Latest <= Cardinality(Attempted)
    BY FS_Subset DEF IInv, DiagnosticsInv, AttemptsInv
  <2>2. Cardinality(Attempted) \in Nat /\ Latest \in Nat
    BY FS_CardinalityType DEF IInv, DiagnosticsInv, AttemptsInv
  <2> QED
    BY <2>1, <2>2 DEF IInv, DiagnosticsInv, AttemptsInv, RetryRunsOnce
<1> QED
  BY <1>1, DesktopStarts, DesktopKeeps, PTL DEF DesktopSpec

\* The channels carry revisions that have been.
ChannelInv ==
  /\ revision \in Nat /\ stopped \in BOOLEAN
  /\ subscriber \in StateChannels \cup {Nothing} /\ sent \in [StateChannels -> Seq(0..revision)]
  /\ sendFailures \in 0..MaxFailures

\* The interface shows what it was sent.
ViewInv ==
  /\ generation \in StateChannels \cup {0}
  /\ watch \in [StateChannels -> {"none", "sent", "done", "failed"}]
  /\ own \in -1..revision /\ shown \in 0..revision \cup {Nothing}
  /\ connection \in {"connecting", "connected", "reconnecting"}

\* Operations are shown once a diagnostic has begun, and a running one has work left.
WorkInv ==
  /\ operations \in Operations \cup {Nothing}
  /\ operations = Nothing <=> Latest = 0
  /\ operations # Nothing =>
       \A l \in Lanes : operations[l].status = "Running" => operations[l].progress < Steps
  /\ workers \subseteq 1..Latest
  /\ cancels \subseteq (1..Latest) \X Lanes

LEMMA FailsTyped ==
  ASSUME sendFailures \in 0..MaxFailures, SendFails
  PROVE  sendFailures' \in 0..MaxFailures /\ UNCHANGED sent
BY DEF SendFails

\* A message under way is a revision that has been.
LEMMA SendTyped ==
  ASSUME ChannelInv, NEW c \in StateChannels, NEW top \in Nat, revision <= top, NEW r \in 0..top, Send(c, r)
  PROVE  sent' \in [StateChannels -> Seq(0..top)] /\ sendFailures' = sendFailures
<1>1. \A d \in StateChannels : sent[d] \in Seq(0..top)
  <2>1. 0..revision \subseteq 0..top
    BY DEF ChannelInv
  <2> QED
    BY <2>1 DEF ChannelInv
<1>2. Append(sent[c], r) \in Seq(0..top)
  BY <1>1
<1>3. sent' = [sent EXCEPT ![c] = Append(sent[c], r)] /\ sendFailures' = sendFailures
  BY DEF Send
<1> QED
  BY <1>1, <1>2, <1>3 DEF ChannelInv

LEMMA PublishTyped ==
  ASSUME ChannelInv, NEW r \in Nat, revision <= r, Publish(r)
  PROVE  /\ subscriber' \in StateChannels \cup {Nothing} /\ sent' \in [StateChannels -> Seq(0..r)]
         /\ sendFailures' \in 0..MaxFailures
<1>1. sent \in [StateChannels -> Seq(0..r)]
  <2>1. 0..revision \subseteq 0..r
    BY DEF ChannelInv
  <2> QED
    BY <2>1 DEF ChannelInv
<1>2. r \in 0..r
  OBVIOUS
<1>3. CASE subscriber = Nothing /\ UNCHANGED channel
  BY <1>1, <1>3 DEF ChannelInv, channel
<1>4. CASE subscriber # Nothing /\ Send(subscriber, r) /\ UNCHANGED subscriber
  <2>1. subscriber \in StateChannels
    BY <1>4 DEF ChannelInv
  <2> QED
    BY <1>2, <1>4, <2>1, SendTyped DEF ChannelInv
<1>5. CASE subscriber # Nothing /\ SendFails /\ subscriber' = Nothing
  BY <1>1, <1>5, FailsTyped DEF ChannelInv
<1> QED
  BY <1>3, <1>4, <1>5 DEF Publish

\* The core changes its state, repeats it, or leaves it.
LEMMA ChannelKept ==
  ASSUME ChannelInv, stopped' \in BOOLEAN,
         \/ Changed
         \/ Publish(revision) /\ UNCHANGED revision
         \/ UNCHANGED <<revision, channel>>
  PROVE  ChannelInv' /\ revision <= revision'
<1>1. CASE Changed
  BY <1>1, PublishTyped DEF Changed, ChannelInv
<1>2. CASE Publish(revision) /\ UNCHANGED revision
  BY <1>2, PublishTyped DEF ChannelInv
<1>3. CASE UNCHANGED <<revision, channel>>
  BY <1>3 DEF ChannelInv, channel
<1> QED
  BY <1>1, <1>2, <1>3

LEMMA ChannelStep == ChannelInv /\ [DesktopNext]_desktopVars => ChannelInv' /\ revision <= revision'
<1> SUFFICES ASSUME ChannelInv, [DesktopNext]_desktopVars PROVE ChannelInv' /\ revision <= revision'
  OBVIOUS
<1>0. stopped \in BOOLEAN /\ revision \in Nat
  BY DEF ChannelInv
<1>1. CASE \/ Connect \/ ClickStart \/ Confirmed \/ TimesOut \/ (\E l \in Lanes : ClickCancel(l))
           \/ UNCHANGED desktopVars
  <2>1. UNCHANGED <<revision, channel, stopped>>
    BY <1>1 DEF Connect, ClickStart, Confirmed, TimesOut, ClickCancel, core, desktopVars
  <2> QED
    BY <1>0, <2>1, ChannelKept
<1>2. ASSUME NEW c \in StateChannels, HandleWatch(c) PROVE ChannelInv' /\ revision <= revision'
  <2>1. CASE Watch(c)
    <3>1. revision \in 0..revision
      BY <1>0
    <3>2. sent' \in [StateChannels -> Seq(0..revision)] /\ sendFailures' = sendFailures
      BY <1>0, <2>1, <3>1, SendTyped DEF Watch
    <3> QED
      BY <1>0, <2>1, <3>2 DEF Watch, ChannelInv
  <2>2. CASE WatchFails
    BY <1>0, <2>2, FailsTyped DEF WatchFails, ChannelInv
  <2> QED
    BY <1>2, <2>1, <2>2 DEF HandleWatch
<1>3. ASSUME NEW c \in StateChannels, WatchIsRefused(c) PROVE ChannelInv' /\ revision <= revision'
  BY <1>0, <1>3, ChannelKept DEF WatchIsRefused, core
<1>4. ASSUME NEW c \in StateChannels, Receive(c) PROVE ChannelInv' /\ revision <= revision'
  <2>1. /\ sent[c] \in Seq(0..revision) /\ sent[c] # <<>> /\ sent' = [sent EXCEPT ![c] = Tail(sent[c])]
        /\ UNCHANGED <<revision, subscriber, sendFailures, stopped>>
    BY <1>4 DEF Receive, ChannelInv
  <2>2. Tail(sent[c]) \in Seq(0..revision)
    BY <2>1, HeadTailProperties
  <2> QED
    BY <1>0, <2>1, <2>2 DEF ChannelInv
<1>5. ASSUME NEW n \in Attempts, HandleStart(n) PROVE ChannelInv' /\ revision <= revision'
  BY <1>0, <1>5, ChannelKept DEF HandleStart, StartDiagnostic, core
<1>6. ASSUME NEW o \in cancels, HandleCancel(o) PROVE ChannelInv' /\ revision <= revision'
  BY <1>0, <1>6, ChannelKept DEF HandleCancel, CancelOperation
<1>7. ASSUME NEW d \in 1..Latest, Advance(d) PROVE ChannelInv' /\ revision <= revision'
  BY <1>0, <1>7, ChannelKept DEF Advance
<1>8. CASE Heartbeat \/ OtherChange \/ CloseRequested
  BY <1>0, <1>8, ChannelKept DEF Heartbeat, OtherChange, CloseRequested
<1> QED
  BY <1>1, <1>2, <1>3, <1>4, <1>5, <1>6, <1>7, <1>8 DEF DesktopNext, ViewNext, CoreStep, CoreNext

\* What is received is of the revisions sent.
LEMMA ReceivedTyped ==
  ASSUME ChannelInv, ViewInv, NEW c \in StateChannels, Receive(c)
  PROVE  /\ own' \in -1..revision /\ shown' \in 0..revision \cup {Nothing}
         /\ connection' \in {"connecting", "connected", "reconnecting"}
         /\ shown # Nothing => shown' >= shown
<1> DEFINE r == Head(sent[c])
<1>1. sent[c] \in Seq(0..revision) /\ sent[c] # <<>> /\ revision \in Nat
  BY DEF Receive, ChannelInv
<1>2. r \in 0..revision
  BY <1>1
<1>3. CASE Accepted(c, r)
  <2>1. /\ own' = r /\ connection' = "connected"
        /\ shown' = IF r > own \/ connection # "connected" THEN r ELSE shown
    BY <1>3 DEF Receive
  <2>2. shown = Nothing \/ r >= shown
    BY <1>3 DEF Accepted
  <2> HIDE DEF r
  <2> QED
    BY <1>1, <1>2, <2>1, <2>2 DEF ViewInv
<1>4. CASE ~Accepted(c, r)
  BY <1>1, <1>4 DEF Receive, ViewInv
<1> QED
  BY <1>3, <1>4

LEMMA ViewStep ==
  ChannelInv /\ ViewInv /\ [DesktopNext]_desktopVars => ViewInv' /\ (shown # Nothing => shown' >= shown)
<1> SUFFICES ASSUME ChannelInv, ViewInv, [DesktopNext]_desktopVars
             PROVE  ViewInv' /\ (shown # Nothing => shown' >= shown)
  OBVIOUS
<1>0. /\ revision \in Nat /\ revision' \in Nat /\ revision <= revision'
      /\ own \in -1..revision' /\ shown \in 0..revision' \cup {Nothing}
  <2>1. ChannelInv' /\ revision <= revision'
    BY ChannelStep
  <2>2. revision \in Nat /\ revision' \in Nat
    BY <2>1 DEF ChannelInv
  <2>3. own \in -1..revision /\ shown \in 0..revision \cup {Nothing}
    BY DEF ViewInv
  <2> QED
    BY <2>1, <2>2, <2>3
<1>1. CASE UNCHANGED connecting
  BY <1>0, <1>1 DEF ViewInv, connecting
<1>2. CASE Connect
  BY <1>0, <1>2 DEF Connect, ViewInv
<1>3. ASSUME NEW c \in StateChannels, HandleWatch(c) \/ WatchIsRefused(c)
      PROVE  ViewInv' /\ (shown # Nothing => shown' >= shown)
  <2>1. /\ UNCHANGED <<generation, own, shown>>
        /\ connection' \in {"connecting", "connected", "reconnecting"}
        /\ watch' = [watch EXCEPT ![c] = "done"] \/ watch' = [watch EXCEPT ![c] = "failed"]
    BY <1>3 DEF HandleWatch, WatchIsRefused, ViewInv
  <2> QED
    BY <1>0, <2>1 DEF ViewInv
<1>4. ASSUME NEW c \in StateChannels, Receive(c)
      PROVE  ViewInv' /\ (shown # Nothing => shown' >= shown)
  <2>1. UNCHANGED <<generation, watch, revision>>
    BY <1>4 DEF Receive
  <2> QED
    BY <1>4, <2>1, ReceivedTyped DEF ViewInv
<1>5. ClickStart \/ Confirmed \/ TimesOut \/ (\E n \in Attempts : HandleStart(n))
      \/ (\E l \in Lanes : ClickCancel(l)) \/ (\E o \in cancels : HandleCancel(o)) => UNCHANGED connecting
  BY DEF ClickStart, Confirmed, TimesOut, HandleStart, ClickCancel, HandleCancel
<1>6. UNCHANGED desktopVars => UNCHANGED connecting
  BY DEF desktopVars
<1> QED
  BY <1>1, <1>2, <1>3, <1>4, <1>5, <1>6 DEF DesktopNext, ViewNext, CoreStep

\* A turn of a thread leaves an operation well formed, and ends one that is being cancelled.
LEMMA WorkedTyped ==
  ASSUME NEW op \in [status : Statuses, progress : 0..Steps], NEW fail,
         op.status = "Running" => op.progress < Steps
  PROVE  /\ Worked(op, fail) \in [status : Statuses, progress : 0..Steps]
         /\ Worked(op, fail).status = "Running" => Worked(op, fail).progress < Steps
         /\ op.status = "Cancelling" => Worked(op, fail).status = "Cancelled"
<1>1. op.status \in Statuses /\ op.progress \in 0..Steps /\ Steps \in Nat
  OBVIOUS
<1>2. CASE op.status = "Cancelling"
  <2>1. Worked(op, fail) = [op EXCEPT !.status = "Cancelled"]
    BY <1>2 DEF Worked
  <2>2. "Cancelled" \in Statuses /\ "Cancelled" # "Running"
    BY DEF Statuses
  <2> QED
    BY <1>2, <2>1, <2>2
<1>3. CASE op.status = "Running"
  <2> DEFINE next == op.progress + 1
             end == CASE fail /\ next = (Steps + 1) \div 2 -> "Failed"
                      [] next = Steps -> "Completed"
                      [] OTHER -> "Running"
  <2>1. Worked(op, fail) = [progress |-> next, status |-> end]
    BY <1>3 DEF Worked
  <2>2. next \in 0..Steps
    BY <1>1, <1>3
  <2>3. end \in Statuses /\ (end = "Running" => next # Steps)
    <3> HIDE DEF next
    <3> QED
      BY DEF Statuses
  <2>4. end = "Running" => next < Steps
    BY <1>1, <2>2, <2>3
  <2> HIDE DEF next, end
  <2>5. Worked(op, fail).status = end /\ Worked(op, fail).progress = next
    BY <2>1
  <2> QED
    BY <1>3, <2>1, <2>2, <2>3, <2>4, <2>5
<1>4. CASE op.status \notin {"Cancelling", "Running"}
  BY <1>4 DEF Worked
<1> QED
  BY <1>2, <1>3, <1>4

\* What is displayed is a diagnostic that has begun.
LEMMA DisplayedBegan == ASSUME Latest \in Nat, Displayed # 0 PROVE Displayed \in 1..Latest
<1> DEFINE S == {d \in 1..Latest : diagnostics[d].since <= shown}
<1>1. Displayed = Cardinality(S)
  BY DEF Displayed
<1>2. IsFiniteSet(1..Latest) /\ Cardinality(1..Latest) = Latest
  <2> DEFINE n == Latest
  <2>1. n \in Nat
    OBVIOUS
  <2> HIDE DEF n
  <2>2. IsFiniteSet(1..n) /\ Cardinality(1..n) = IF 1 > n THEN 0 ELSE n - 1 + 1
    BY <2>1, FS_Interval, 1 \in Int, n \in Int
  <2>3. IsFiniteSet(1..n) /\ Cardinality(1..n) = n
    BY <2>1, <2>2
  <2> QED
    BY <2>3 DEF n
<1>3. S \subseteq 1..Latest
  OBVIOUS
<1> HIDE DEF S
<1>4. IsFiniteSet(S) /\ Cardinality(S) <= Latest /\ Cardinality(S) \in Nat
  BY <1>2, <1>3, FS_Subset, FS_CardinalityType
<1> QED
  BY <1>1, <1>4

\* Only four steps concern the operations and the calls that cancel them.
LEMMA WorkStays ==
  ASSUME [DesktopNext]_desktopVars
  PROVE  \/ UNCHANGED <<operations, diagnostics, workers, cancels>>
         \/ (\E n \in Attempts : HandleStart(n)) \/ (\E l \in Lanes : ClickCancel(l))
         \/ (\E o \in cancels : HandleCancel(o)) \/ (\E d \in 1..Latest : Advance(d) /\ UNCHANGED cancels)
<1> USE DEF core, work
<1>1. CASE Connect \/ \E c \in StateChannels : HandleWatch(c) \/ WatchIsRefused(c) \/ Receive(c)
  BY <1>1 DEF Connect, HandleWatch, Watch, WatchFails, WatchIsRefused, Receive
<1>2. CASE ClickStart \/ Confirmed \/ TimesOut
  BY <1>2 DEF ClickStart, Confirmed, TimesOut
<1>3. CASE CoreNext /\ UNCHANGED <<connecting, starting, cancels>>
  BY <1>3 DEF CoreNext, Heartbeat, OtherChange, CloseRequested
<1>4. CASE UNCHANGED desktopVars
  BY <1>4 DEF desktopVars
<1> QED
  BY <1>1, <1>2, <1>3, <1>4 DEF DesktopNext, ViewNext, CoreStep

\* An operation that is being cancelled is only ended, as cancelled.
CancelStep ==
  operations # Nothing =>
    \A l \in Lanes : operations[l].status = "Cancelling" =>
      operations'[l].status \in {"Cancelling", "Cancelled"} /\ diagnostics' = diagnostics

LEMMA OperationsStep ==
  DiagnosticsInv /\ DiagnosticsInv' /\ WorkInv /\ [DesktopNext]_desktopVars => WorkInv' /\ CancelStep
<1> SUFFICES ASSUME DiagnosticsInv, DiagnosticsInv', WorkInv, [DesktopNext]_desktopVars
             PROVE  WorkInv' /\ CancelStep
  OBVIOUS
<1>0. Latest \in Nat /\ operations \in Operations \cup {Nothing} /\ Nothing \notin Operations
  BY LenProperties DEF DiagnosticsInv, Latest, WorkInv
<1>1. ASSUME NEW n \in Attempts, HandleStart(n) PROVE WorkInv' /\ CancelStep
  <2>1. cancels' = cancels
    BY <1>1 DEF HandleStart
  <2>2. CASE UNCHANGED core
    BY <1>0, <2>1, <2>2 DEF core, work, WorkInv, CancelStep, Latest, Operations
  <2>3. ASSUME StartDiagnostic(attempt[n].request) PROVE WorkInv' /\ CancelStep
    <3>1. /\ operations' = [l \in Lanes |-> [status |-> "Running", progress |-> 0]]
          /\ workers' = workers \cup {Latest + 1} /\ ~Occupied
      BY <2>3 DEF StartDiagnostic, Refused
    <3>2. Latest' = Latest + 1
      <4>1. /\ diagnostics \in Seq(Diagnostics) /\ diagnostics' \in Seq(Diagnostics)
            /\ diagnostics' = Append(diagnostics, [request |-> attempt[n].request, since |-> revision + 1])
        BY <2>3 DEF StartDiagnostic, DiagnosticsInv
      <4> HIDE DEF Latest
      <4>2. Len(diagnostics') = Len(diagnostics) + 1
        BY <4>1
      <4> QED
        BY <4>2 DEF Latest
    <3>3. operations' \in Operations
      <4>1. "Running" \in Statuses /\ 0 \in 0..Steps
        BY DEF Statuses
      <4> QED
        BY <3>1, <4>1 DEF Operations
    <3>4. \A l \in Lanes : operations'[l].progress < Steps
      BY <3>1
    <3>5. WorkInv'
      BY <1>0, <2>1, <3>1, <3>2, <3>3, <3>4 DEF WorkInv
    <3>6. CancelStep
      BY <3>1 DEF Occupied, Unfinished, Live, CancelStep
    <3> QED
      BY <3>5, <3>6
  <2> QED
    BY <1>1, <2>2, <2>3 DEF HandleStart
<1>2. ASSUME NEW l \in Lanes, ClickCancel(l) PROVE WorkInv' /\ CancelStep
  <2>1. /\ UNCHANGED <<operations, diagnostics, workers>>
        /\ cancels' = cancels \cup {<<Displayed, l>>} /\ Displayed # 0
    BY <1>2 DEF ClickCancel, core, work
  <2>2. Displayed \in 1..Latest
    BY <1>0, <2>1, DisplayedBegan
  <2> QED
    BY <1>0, <2>1, <2>2 DEF WorkInv, CancelStep, Latest, Operations
<1>3. ASSUME NEW o \in cancels, HandleCancel(o) PROVE WorkInv' /\ CancelStep
  <2>1. /\ o[1] \in 1..Latest /\ o[2] \in Lanes /\ cancels' \subseteq cancels
        /\ UNCHANGED <<diagnostics, workers>>
    BY <1>3 DEF HandleCancel, CancelOperation, WorkInv
  <2>2. operations \in Operations
    BY <1>0, <2>1 DEF WorkInv
  <2>3. CASE UNCHANGED operations
    BY <1>0, <2>1, <2>2, <2>3 DEF WorkInv, CancelStep, Latest, Operations
  <2>4. CASE operations' = [operations EXCEPT ![o[2]].status = "Cancelling"]
    <3>1. operations' \in Operations
      BY <2>1, <2>2, <2>4 DEF Operations, Statuses
    <3>2. \A l \in Lanes : operations'[l] = operations[l] \/ operations'[l].status = "Cancelling"
      BY <2>1, <2>2, <2>4 DEF Operations
    <3>3. WorkInv'
      BY <1>0, <2>1, <2>2, <3>1, <3>2 DEF WorkInv, Latest
    <3>4. CancelStep
      BY <2>1, <3>2 DEF CancelStep
    <3> QED
      BY <3>3, <3>4
  <2> QED
    BY <1>3, <2>3, <2>4 DEF HandleCancel, CancelOperation
<1>4. ASSUME NEW d \in 1..Latest, Advance(d), UNCHANGED cancels PROVE WorkInv' /\ CancelStep
  <2>1. workers' \subseteq workers /\ UNCHANGED <<diagnostics, cancels>>
    BY <1>4 DEF Advance
  <2>2. operations \in Operations
    BY <1>0 DEF WorkInv
  <2>3. CASE UNCHANGED operations
    BY <1>0, <2>1, <2>2, <2>3 DEF WorkInv, CancelStep, Latest, Operations
  <2>4. CASE operations' = [l \in Lanes |-> Worked(operations[l], diagnostics[d].request \in Failing)]
    <3>1. \A l \in Lanes :
            /\ operations[l] \in [status : Statuses, progress : 0..Steps]
            /\ operations[l].status = "Running" => operations[l].progress < Steps
      BY <2>2, <1>0 DEF WorkInv, Operations
    <3>2. \A l \in Lanes :
            /\ operations'[l] \in [status : Statuses, progress : 0..Steps]
            /\ operations'[l].status = "Running" => operations'[l].progress < Steps
            /\ operations[l].status = "Cancelling" => operations'[l].status = "Cancelled"
      BY <2>4, <3>1, WorkedTyped
    <3>3. operations' \in Operations
      BY <2>4, <3>2 DEF Operations
    <3>4. WorkInv'
      BY <1>0, <2>1, <3>2, <3>3 DEF WorkInv, Latest
    <3>5. CancelStep
      BY <2>1, <3>2 DEF CancelStep
    <3> QED
      BY <3>4, <3>5
  <2> QED
    BY <1>4, <2>3, <2>4 DEF Advance
<1>5. CASE UNCHANGED <<operations, diagnostics, workers, cancels>>
  BY <1>0, <1>5 DEF WorkInv, CancelStep, Latest, Operations
<1> QED
  BY <1>1, <1>2, <1>3, <1>4, <1>5, WorkStays

\* The desktop starts with nothing to show.
LEMMA DesktopBegins == DesktopInit => ChannelInv /\ ViewInv /\ WorkInv
<1> SUFFICES ASSUME DesktopInit PROVE ChannelInv /\ ViewInv /\ WorkInv
  OBVIOUS
<1>1. ChannelInv
  <2>1. 0 \in 0..MaxFailures /\ <<>> \in Seq(0..0)
    BY EmptySeq
  <2> QED
    BY <2>1 DEF DesktopInit, CoreInit, ChannelInv
<1>2. ViewInv
  BY DEF DesktopInit, CoreInit, ViewInv
<1>3. Latest = 0 /\ operations = Nothing /\ workers = {} /\ cancels = {}
  BY DEF DesktopInit, CoreInit, Latest
<1>4. WorkInv
  BY <1>3 DEF WorkInv
<1> QED
  BY <1>1, <1>2, <1>4

\* Whichever connection a message came by, and in whatever order the core accepted the
\* connections, the interface shows nothing older than what it shows (state.ts:98).
THEOREM ShownGoesForward == DesktopSpec => ShownNeverGoesBack
<1>1. ChannelInv /\ [DesktopNext]_desktopVars => ChannelInv'
  BY ChannelStep
<1>2. ChannelInv /\ ViewInv /\ [DesktopNext]_desktopVars
      => ViewInv' /\ [shown # Nothing => shown' >= shown]_desktopVars
  BY ViewStep
<1> QED
  BY <1>1, <1>2, DesktopBegins, PTL DEF DesktopSpec, ShownNeverGoesBack

\* Once an operation is being cancelled no turn of its thread, no other call to cancel and no
\* start of a diagnostic ends it as anything but cancelled (app.rs:112).
THEOREM CancelsAreKept == DesktopSpec => CancelIsKept
<1>1. IInv => DiagnosticsInv
  BY DEF IInv
<1>2. DiagnosticsInv /\ DiagnosticsInv' /\ WorkInv /\ [DesktopNext]_desktopVars
      => WorkInv' /\ [operations # Nothing =>
            \A l \in Lanes : operations[l].status = "Cancelling" =>
              operations'[l].status \in {"Cancelling", "Cancelled"} /\ diagnostics' = diagnostics]_desktopVars
  BY OperationsStep DEF CancelStep
<1> QED
  BY <1>1, <1>2, DesktopBegins, DesktopStarts, DesktopKeeps, PTL DEF DesktopSpec, CancelIsKept

\* No more requests are remembered than there is room for.
RequestsInv == Latest <= MaxRequests

LEMMA RequestsStep ==
  DiagnosticsInv /\ DiagnosticsInv' /\ RequestsInv /\ [DesktopNext]_desktopVars => RequestsInv'
<1> SUFFICES ASSUME DiagnosticsInv, DiagnosticsInv', Latest <= MaxRequests, [DesktopNext]_desktopVars
             PROVE  Latest' <= MaxRequests
  BY DEF RequestsInv
<1>1. ASSUME NEW n \in Attempts, StartDiagnostic(attempt[n].request) PROVE Latest' <= MaxRequests
  <2> DEFINE r == attempt[n].request
  <2>1. ~(Cardinality(requests) >= MaxRequests) /\ r \notin requests /\ requests' = requests \cup {r}
    BY <1>1 DEF StartDiagnostic, Refused, Known
  <2> HIDE DEF r
  <2>2. Cardinality(requests') = Cardinality(requests) + 1
    BY <2>1, FS_AddElement DEF DiagnosticsInv
  <2>3. Latest' = Latest + 1 /\ Latest \in Nat /\ ~(Latest >= MaxRequests)
    BY <2>1, <2>2, LenProperties DEF DiagnosticsInv, Latest
  <2> QED
    BY <2>3
<1>2. UNCHANGED core => UNCHANGED diagnostics
  BY DEF core, work
<1>3. (\E l \in Lanes : ClickCancel(l)) \/ (\E o \in cancels : HandleCancel(o)) \/ (\E d \in 1..Latest : Advance(d))
      => UNCHANGED diagnostics
  BY DEF ClickCancel, HandleCancel, CancelOperation, Advance, core, work
<1>4. CASE UNCHANGED diagnostics
  BY <1>4 DEF Latest
<1>5. ASSUME NEW n \in Attempts, HandleStart(n) PROVE Latest' <= MaxRequests
  BY <1>1, <1>2, <1>4, <1>5 DEF HandleStart
<1> QED
  BY <1>3, <1>4, <1>5, WorkStays

\* There are no more settled starts than clicks.
LEMMA SettledBounded ==
  ASSUME AttemptsInv
  PROVE  settled \in 0..MaxClicks /\ awaiting \in {0} \cup {n \in Attempts : attempt[n] # Nothing}
<1> DEFINE S == {k \in Attempts : attempt[k] # Nothing}
           f == [k \in S |-> attempt[k].request]
<1>1. IsFiniteSet(Attempts) /\ Cardinality(Attempts) = MaxClicks /\ MaxClicks \in Nat
  <2>1. MaxClicks \in Nat /\ 1 \in Int /\ MaxClicks \in Int
    OBVIOUS
  <2>2. IsFiniteSet(1..MaxClicks) /\ Cardinality(1..MaxClicks) = IF 1 > MaxClicks THEN 0 ELSE MaxClicks - 1 + 1
    BY <2>1, FS_Interval
  <2> QED
    BY <2>1, <2>2 DEF Attempts
<1>2. IsFiniteSet(S) /\ Cardinality(S) <= MaxClicks /\ Cardinality(S) \in Nat
  <2>1. S \subseteq Attempts
    OBVIOUS
  <2> HIDE DEF S
  <2> QED
    BY <1>1, <2>1, FS_Subset, FS_CardinalityType
<1>3. f \in Surjection(S, Attempted)
  BY DEF Surjection, Attempted
<1>4. Cardinality(Attempted) <= Cardinality(S) /\ Cardinality(Attempted) \in Nat
  <2> HIDE DEF f, S
  <2> QED
    BY <1>2, <1>3, FS_Surjection, FS_CardinalityType DEF AttemptsInv
<1>5. settled \in Nat /\ settled <= Cardinality(Attempted)
  BY <1>4 DEF AttemptsInv
<1>6. settled \in 0..MaxClicks
  <2> HIDE DEF S
  <2> QED
    BY <1>1, <1>2, <1>4, <1>5
<1> QED
  BY <1>6 DEF AttemptsInv

\* Every variable of the desktop keeps its shape; no more requests are remembered than there is
\* room for, and what can be cancelled is an operation of a diagnostic that began (app.rs:123).
THEOREM DesktopTypes == DesktopSpec => []DesktopTypeOK
<1>1. IInv => DiagnosticsInv /\ AttemptsInv
  BY DEF IInv
<1>2. ChannelInv /\ [DesktopNext]_desktopVars => ChannelInv'
  BY ChannelStep
<1>3. ChannelInv /\ ViewInv /\ [DesktopNext]_desktopVars => ViewInv'
  BY ViewStep
<1>4. DiagnosticsInv /\ DiagnosticsInv' /\ WorkInv /\ [DesktopNext]_desktopVars => WorkInv'
  BY OperationsStep
<1>5. DesktopInit => RequestsInv
  BY DEF DesktopInit, CoreInit, Latest, RequestsInv
<1>6. IInv /\ ChannelInv /\ ViewInv /\ WorkInv /\ RequestsInv => DesktopTypeOK
  <2> SUFFICES ASSUME IInv, ChannelInv, ViewInv, WorkInv, RequestsInv
               PROVE  DesktopTypeOK
    OBVIOUS
  <2>1. Attempted \subseteq Requests
    BY DEF IInv, AttemptsInv, Attempted
  <2>2. CoreTypeOK
    BY <2>1 DEF IInv, DiagnosticsInv, ChannelInv, WorkInv, RequestsInv, CoreTypeOK
  <2>3. pendingStart \in Requests \cup {Nothing}
    BY <2>1 DEF IInv, AttemptsInv
  <2>4. settled \in 0..MaxClicks /\ awaiting \in {0} \cup {n \in Attempts : attempt[n] # Nothing}
    BY SettledBounded DEF IInv
  <2> QED
    BY <2>2, <2>3, <2>4 DEF IInv, AttemptsInv, ViewInv, WorkInv, DesktopTypeOK
<1> QED
  BY <1>1, <1>2, <1>3, <1>4, <1>5, <1>6, RequestsStep, DesktopBegins, DesktopStarts, DesktopKeeps, PTL
  DEF DesktopSpec

HIDE StateAssumption
HIDE CoreAssumption

-----------------------------------------------------------------------------
(* Sets of numbers *)

\* A set of numbers has a smallest.
LEMMA SmallestIsIn ==
  ASSUME NEW T, T \subseteq Nat, T # {}
  PROVE  \E m \in T : \A n \in T : m <= n
<1>1. \A a, b \in Nat : a < b => <<a, b>> \in OpToRel(<, Nat)
  BY DEF OpToRel
<1>2. PICK R : IsWellFoundedOn(R, Nat) /\ \A a, b \in Nat : a < b => <<a, b>> \in R
  BY <1>1, NatLessThanWellFounded
<1>3. PICK m \in T : \A n \in T : ~(<<n, m>> \in R)
  <2>1. IsWellFoundedOn(R, Nat)
    BY <1>2
  <2>2. \E m \in T : \A n \in T : ~(<<n, m>> \in R)
    BY ONLY <2>1, WFMin, T \subseteq Nat, T # {}
  <2> QED
    BY <2>2
<1>4. ASSUME NEW n \in T PROVE m <= n
  <2>1. m \in Nat /\ n \in Nat /\ <<n, m>> \notin R
    BY <1>3
  <2>2. ~(n < m)
    BY <1>2, <2>1
  <2> QED
    BY <2>1, <2>2
<1> QED
  BY <1>4

\* A bounded set of numbers has a largest: the smallest of its bounds.
LEMMA LargestIsIn ==
  ASSUME NEW S, S \subseteq Nat, S # {}, NEW b \in Nat, \A x \in S : x <= b
  PROVE  Max(S) \in S /\ \A x \in S : x <= Max(S)
<1> DEFINE T == {n \in Nat : \A x \in S : x <= n}
<1>1. PICK m \in T : \A n \in T : m <= n
  BY SmallestIsIn
<1>2. m \in S
  <2> SUFFICES ASSUME m \notin S PROVE FALSE
    OBVIOUS
  <2>1. m \in Nat /\ \A x \in S : x \in Nat /\ x < m
    BY <1>1
  <2>2. PICK y \in S : y \in Nat /\ y < m
    BY <2>1
  <2>3. m - 1 \in Nat
    BY <2>1, <2>2
  <2>4. \A x \in S : x <= m - 1
    BY <2>1
  <2> QED
    BY <1>1, <2>1, <2>3, <2>4
<1>3. m \in S /\ \A x \in S : m >= x
  BY <1>1, <1>2
<1>4. Max(S) \in S /\ \A x \in S : Max(S) >= x
  BY <1>3 DEF Max
<1> QED
  BY <1>4
-----------------------------------------------------------------------------
(* The saved data: StorageOpen *)

\* The stages of a process that holds the lock.
Holding == Stages \ {"off", "starting", "unlocked"}

\* What each stage of a process may rely on.
AtStage(p) ==
  /\ stage[p] \in Holding => lock = p
  /\ stage[p] # "off" => build[p] \in Builds
  /\ stage[p] \in {"staging", "baseline", "marked"} => active = None /\ staging # None
  /\ stage[p] \in {"baseline", "marked"} => staging.db = Fresh(build[p])
  /\ stage[p] = "marked" => staging.complete
  /\ stage[p] \in {"backing", "copied", "backed"} => Whole /\ Data.version < Schema[build[p]]
  /\ stage[p] = "backed" => backup = Data
  /\ stage[p] \in {"checked", "valid", "open", "deploying", "restored", "cleaned"} =>
       Whole /\ Data.version = Schema[build[p]]
  /\ stage[p] = "deploying" => Data.owns
  /\ stage[p] \in {"restored", "cleaned", "removing", "erasing", "erased"} => ~owned
  /\ stage[p] \in {"removing", "erasing"} => active # None

StorageInv == StorageTypeOK /\ RecordsOutliveGameFiles /\ \A p \in Procs : AtStage(p)

USE StorageAssumption

\* A process that holds the lock is alone in what it may do: the others stand still as long as
\* only it has the lock.
LEMMA OthersStay ==
  ASSUME StorageInv, NEW p \in Procs,
         StorageTypeOK', RecordsOutliveGameFiles', AtStage(p)',
         \A q \in Procs : q # p => stage'[q] = stage[q] /\ build'[q] = build[q],
         \A q \in Procs : q # p /\ lock = q => UNCHANGED <<lock, active, staging, backup, owned>>
  PROVE  StorageInv'
<1> SUFFICES ASSUME NEW q \in Procs, q # p PROVE AtStage(q)'
  BY DEF StorageInv
<1>1. AtStage(q) /\ stage'[q] = stage[q] /\ build'[q] = build[q] /\ stage[q] \in Stages
  BY DEF StorageInv, StorageTypeOK
<1>2. CASE stage[q] \in Holding
  <2>1. UNCHANGED <<lock, active, staging, backup, owned>>
    BY <1>1, <1>2 DEF AtStage
  <2> QED
    BY <1>1, <2>1 DEF AtStage, Data, Whole, Fresh
<1>3. CASE stage[q] \notin Holding
  BY <1>1, <1>3 DEF AtStage, Holding
<1> QED
  BY <1>2, <1>3

\* A process that ends leaves every file as it is (storage.rs:299).
LEMMA GoneStep ==
  ASSUME StorageInv, NEW p \in Procs, Gone(p), UNCHANGED <<savedVars, owned>>,
         installed' \in Builds \cup {None}, running' \in BOOLEAN
  PROVE  StorageInv'
<1>1. StorageTypeOK /\ StorageTypeOK'
  BY DEF StorageInv, StorageTypeOK, Gone, savedVars, Stages
<1>2. stage'[p] = "off" /\ UNCHANGED <<active, backup, owned>>
  BY <1>1 DEF StorageTypeOK, Gone, savedVars
<1>3. AtStage(p)'
  BY <1>2 DEF AtStage, Holding
<1>4. RecordsOutliveGameFiles'
  BY <1>2 DEF StorageInv, RecordsOutliveGameFiles, Whole, Data
<1>5. \A q \in Procs : q # p => stage'[q] = stage[q] /\ build'[q] = build[q]
  BY <1>1 DEF StorageTypeOK, Gone
<1>6. \A q \in Procs : q # p /\ lock = q => UNCHANGED <<lock, active, staging, backup, owned>>
  BY <1>2 DEF Gone
<1> QED
  BY <1>1, <1>3, <1>4, <1>5, <1>6, OthersStay

\* A value written into the database is read back, and leaves the others.
LEMMA Written ==
  ASSUME NEW f \in Folders, f.db \in Databases
  PROVE  /\ \A v \in Versions :
              /\ [f EXCEPT !.db.version = v] \in Folders
              /\ [f EXCEPT !.db.version = v].db = [f.db EXCEPT !.version = v]
              /\ [f EXCEPT !.db.version = v].complete = f.complete
         /\ \A r \in 0..MaxEdits :
              /\ [f EXCEPT !.db.rows = r] \in Folders
              /\ [f EXCEPT !.db.rows = r].db = [f.db EXCEPT !.rows = r]
              /\ [f EXCEPT !.db.rows = r].complete = f.complete
         /\ \A o \in BOOLEAN :
              /\ [f EXCEPT !.db.owns = o] \in Folders
              /\ [f EXCEPT !.db.owns = o].db = [f.db EXCEPT !.owns = o]
              /\ [f EXCEPT !.db.owns = o].complete = f.complete
<1> USE DEF Folders, Databases
<1>1. ASSUME NEW v \in Versions
      PROVE  /\ [f EXCEPT !.db.version = v] \in Folders
             /\ [f EXCEPT !.db.version = v].db = [f.db EXCEPT !.version = v]
             /\ [f EXCEPT !.db.version = v].complete = f.complete
  OBVIOUS
<1>2. ASSUME NEW r \in 0..MaxEdits
      PROVE  /\ [f EXCEPT !.db.rows = r] \in Folders
             /\ [f EXCEPT !.db.rows = r].db = [f.db EXCEPT !.rows = r]
             /\ [f EXCEPT !.db.rows = r].complete = f.complete
  OBVIOUS
<1>3. ASSUME NEW o \in BOOLEAN
      PROVE  /\ [f EXCEPT !.db.owns = o] \in Folders
             /\ [f EXCEPT !.db.owns = o].db = [f.db EXCEPT !.owns = o]
             /\ [f EXCEPT !.db.owns = o].complete = f.complete
  OBVIOUS
<1> QED
  BY <1>1, <1>2, <1>3

\* What the stages of one process say, spelled out, and that the others have no lock.
LEMMA Alone ==
  ASSUME StorageInv, NEW p \in Procs
  PROVE  /\ StorageTypeOK /\ AtStage(p) /\ stage[p] \in Stages
         /\ stage[p] \in Holding => \A q \in Procs : q # p => lock # q
  BY DEF StorageInv, StorageTypeOK, AtStage

\* A step of the process that holds the lock, which ends no process.
LEMMA HolderStep ==
  ASSUME StorageInv, NEW p \in Procs, stage[p] \in Holding, UNCHANGED build,
         NEW s \in Stages, stage' = [stage EXCEPT ![p] = s],
         StorageTypeOK', RecordsOutliveGameFiles', AtStage(p)'
  PROVE  StorageInv'
<1>1. \A q \in Procs : q # p => stage'[q] = stage[q] /\ build'[q] = build[q] /\ lock # q
  BY Alone DEF StorageTypeOK
<1> QED
  BY <1>1, OthersStay

\* A database is made in a folder of its own and moved into place whole (storage.rs:310).
LEMMA CreateStep ==
  ASSUME StorageInv, NEW p \in Procs,
         MakeStaging(p) \/ WriteBaseline(p) \/ MarkStaging(p) \/ Promote(p)
  PROVE  StorageInv'
<1>0. StorageTypeOK /\ AtStage(p) /\ RecordsOutliveGameFiles
  BY Alone DEF StorageInv
<1>1. CASE MakeStaging(p)
  <2>1. stage[p] \in Holding /\ stage' = [stage EXCEPT ![p] = "staging"] /\ UNCHANGED <<build, active, lock, owned>>
    BY <1>1 DEF MakeStaging, Moves, Holding, Stages, programVars, worldVars
  <2>2. active = None /\ build[p] \in Builds /\ stage'[p] = "staging" /\ lock = p
    BY <1>0, <1>1, <2>1 DEF MakeStaging, Moves, StorageTypeOK, AtStage
  <2>3. staging' \in Folders
    BY <1>1 DEF MakeStaging, Folders
  <2>4. StorageTypeOK'
    BY <1>0, <1>1, <2>3 DEF MakeStaging, Moves, StorageTypeOK, Stages, programVars, worldVars
  <2>5. AtStage(p)'
    BY <2>1, <2>2, <2>3 DEF AtStage
  <2>6. RecordsOutliveGameFiles'
    BY <1>0, <2>1 DEF RecordsOutliveGameFiles, Whole, Data
  <2> QED
    BY <2>1, <2>4, <2>5, <2>6, HolderStep DEF Stages
<1>2. CASE WriteBaseline(p)
  <2>1. stage[p] \in Holding /\ stage' = [stage EXCEPT ![p] = "baseline"] /\ UNCHANGED <<build, active, lock, owned>>
    BY <1>2 DEF WriteBaseline, Moves, Holding, Stages, programVars, worldVars
  <2>2. active = None /\ staging \in Folders /\ build[p] \in Builds /\ stage'[p] = "baseline"
    BY <1>0, <1>2, <2>1 DEF WriteBaseline, Moves, StorageTypeOK, AtStage
  <2>3. Fresh(build[p]) \in Databases
    BY <2>2 DEF Fresh, Databases, Versions
  <2>4. staging' \in Folders /\ staging'.db = Fresh(build[p])
    BY <1>2, <2>2, <2>3 DEF WriteBaseline, Folders
  <2>5. StorageTypeOK'
    BY <1>0, <1>2, <2>4 DEF WriteBaseline, Moves, StorageTypeOK, Stages, programVars, worldVars
  <2>6. AtStage(p)'
    BY <1>0, <2>1, <2>2, <2>4 DEF AtStage, Holding, Fresh, StorageTypeOK
  <2>7. RecordsOutliveGameFiles'
    BY <1>0, <2>1 DEF RecordsOutliveGameFiles, Whole, Data
  <2> QED
    BY <2>1, <2>5, <2>6, <2>7, HolderStep DEF Stages
<1>3. CASE MarkStaging(p)
  <2>1. stage[p] \in Holding /\ stage' = [stage EXCEPT ![p] = "marked"] /\ UNCHANGED <<build, active, lock, owned>>
    BY <1>3 DEF MarkStaging, Moves, Holding, Stages, programVars, worldVars
  <2>2. active = None /\ staging \in Folders /\ build[p] \in Builds /\ stage'[p] = "marked"
        /\ staging.db = Fresh(build[p])
    BY <1>0, <1>3, <2>1 DEF MarkStaging, Moves, StorageTypeOK, AtStage
  <2>3. staging' \in Folders /\ staging'.db = Fresh(build[p]) /\ staging'.complete
    BY <1>3, <2>2 DEF MarkStaging, Folders
  <2>4. StorageTypeOK'
    BY <1>0, <1>3, <2>3 DEF MarkStaging, Moves, StorageTypeOK, Stages, programVars, worldVars
  <2>5. AtStage(p)'
    BY <1>0, <2>1, <2>2, <2>3 DEF AtStage, Holding, Fresh, StorageTypeOK
  <2>6. RecordsOutliveGameFiles'
    BY <1>0, <2>1 DEF RecordsOutliveGameFiles, Whole, Data
  <2> QED
    BY <2>1, <2>4, <2>5, <2>6, HolderStep DEF Stages
<1>4. CASE Promote(p)
  <2>1. stage[p] \in Holding /\ stage' = [stage EXCEPT ![p] = "placed"] /\ UNCHANGED <<build, lock, owned>>
    BY <1>4 DEF Promote, Moves, Holding, Stages, programVars, worldVars
  <2>2. active = None /\ build[p] \in Builds /\ stage'[p] = "placed" /\ lock = p
    BY <1>0, <1>4, <2>1 DEF Promote, Moves, StorageTypeOK, AtStage
  <2>3. StorageTypeOK'
    BY <1>0, <1>4 DEF Promote, Moves, StorageTypeOK, Stages, programVars, worldVars
  <2>4. AtStage(p)'
    BY <2>1, <2>2 DEF AtStage
  <2>5. RecordsOutliveGameFiles'
    BY <1>0, <2>1, <2>2 DEF RecordsOutliveGameFiles, Whole
  <2> QED
    BY <2>1, <2>3, <2>4, <2>5, HolderStep DEF Stages
<1> QED
  BY <1>1, <1>2, <1>3, <1>4

\* What is open is of the build's own version: it is now, or a migration behind a complete
\* backup brings it there (storage.rs:391).
LEMMA AcceptStep ==
  ASSUME StorageInv, NEW p \in Procs,
         Accept(p) \/ CopyBackup(p) \/ CompleteBackup(p) \/ Validate(p) \/ Load(p)
  PROVE  StorageInv'
<1>0. StorageTypeOK /\ AtStage(p) /\ RecordsOutliveGameFiles
  BY Alone DEF StorageInv
<1>1. PICK s \in Stages :
        /\ stage' = [stage EXCEPT ![p] = s] /\ stage[p] \in Holding
        /\ UNCHANGED <<programVars, lock, active, staging, legacy, worldVars>>
        /\ \/ UNCHANGED backup /\ s \in {"checked", "backing"} /\ Usable(build[p])
              /\ (s = "backing" <=> Data.version < Schema[build[p]])
           \/ UNCHANGED backup /\ stage[p] = "backing" /\ s = "copied"
           \/ backup' = Data /\ stage[p] = "copied" /\ s = "backed"
           \/ UNCHANGED backup /\ stage[p] \in {"checked", "valid"} /\ s \in {"valid", "open"}
  <2>1. CASE Accept(p)
    BY <2>1 DEF Accept, Placed, Stages, Holding, diskVars, savedVars
  <2>2. CASE CopyBackup(p)
    BY <2>2 DEF CopyBackup, Moves, Stages, Holding, diskVars, savedVars
  <2>3. CASE CompleteBackup(p)
    BY <2>3 DEF CompleteBackup, Moves, Stages, Holding
  <2>4. CASE Validate(p) \/ Load(p)
    BY <2>4 DEF Validate, Load, Moves, Stages, Holding, diskVars, savedVars
  <2> QED
    BY <2>1, <2>2, <2>3, <2>4
<1>2. /\ UNCHANGED <<build, lock, active, owned>> /\ stage'[p] = s
      /\ lock = p /\ build[p] \in Builds /\ UNCHANGED <<Data, Whole>>
  BY <1>0, <1>1 DEF programVars, worldVars, StorageTypeOK, AtStage, Data, Whole, Holding
<1>3. Schema[build[p]] \in Nat /\ (Whole => Data \in Databases /\ Data.version \in Nat)
  BY <1>0, <1>2 DEF StorageTypeOK, Whole, Data, Folders, Databases, Versions
<1>4. StorageTypeOK'
  BY <1>0, <1>1, <1>3 DEF StorageTypeOK, programVars, worldVars, AtStage
<1>5. AtStage(p)'
  BY <1>0, <1>1, <1>2, <1>3 DEF AtStage, Usable
<1>6. RecordsOutliveGameFiles'
  BY <1>0, <1>2 DEF RecordsOutliveGameFiles
<1> QED
  BY <1>1, <1>2, <1>4, <1>5, <1>6, HolderStep

\* A migration raises the version in place (storage.rs:418).
LEMMA MigrateStep == ASSUME StorageInv, NEW p \in Procs, Migrate(p) PROVE StorageInv'
<1>0. StorageTypeOK /\ AtStage(p) /\ RecordsOutliveGameFiles
  BY Alone DEF StorageInv
<1> DEFINE v == Schema[build[p]]
<1>1. /\ stage[p] = "backed" /\ stage[p] \in Holding /\ stage' = [stage EXCEPT ![p] = "checked"]
      /\ active' = [active EXCEPT !.db.version = v]
      /\ UNCHANGED <<programVars, lock, staging, backup, legacy, worldVars>>
  BY DEF Migrate, Moves, Migrated, Holding, Stages
<1>2. /\ stage'[p] = "checked" /\ lock = p /\ build[p] \in Builds /\ v \in Versions
      /\ active \in Folders /\ active.db \in Databases /\ active.complete /\ Data = active.db
  BY <1>0, <1>1 DEF StorageTypeOK, AtStage, Whole, Data, Versions, Folders
<1>3. /\ active' \in Folders /\ active'.complete
      /\ active'.db = [active.db EXCEPT !.version = v]
  BY <1>1, <1>2, Written
<1>4. /\ active'.db \in Databases /\ active'.db.version = v /\ active'.db.owns = active.db.owns
      /\ active' # None /\ active'.db # None
  BY <1>2, <1>3 DEF Databases, Folders
<1>5. Whole' /\ Data'.version = v /\ Data'.owns = Data.owns
  BY <1>2, <1>3, <1>4 DEF Whole, Data
<1>6. StorageTypeOK'
  BY <1>0, <1>1, <1>3 DEF StorageTypeOK, Stages, programVars, worldVars
<1>7. AtStage(p)'
  BY <1>1, <1>2, <1>5 DEF AtStage, programVars
<1>8. RecordsOutliveGameFiles'
  BY <1>0, <1>1, <1>5 DEF RecordsOutliveGameFiles, worldVars
<1> QED
  BY <1>1, <1>6, <1>7, <1>8, HolderStep DEF programVars, Stages

\* A start takes the lock when it is free, or ends (storage.rs:299).
LEMMA StartStep == ASSUME StorageInv, NEW p \in Procs, Start(p) \/ Lock(p) PROVE StorageInv'
<1>0. StorageTypeOK /\ AtStage(p) /\ RecordsOutliveGameFiles
  BY Alone DEF StorageInv
<1>1. CASE Start(p)
  <2>1. /\ stage' = [stage EXCEPT ![p] = "starting"] /\ build' = [build EXCEPT ![p] = installed]
        /\ UNCHANGED <<installed, lock, diskVars, worldVars>>
    BY <1>1 DEF Start, Moves
  <2>2. installed \in Builds /\ keep' \in BOOLEAN
    BY <1>0, <1>1 DEF Start, StorageTypeOK
  <2>3. StorageTypeOK'
    BY <1>0, <2>1, <2>2 DEF StorageTypeOK, Stages, diskVars, savedVars, worldVars
  <2>4. AtStage(p)'
    BY <1>0, <2>1, <2>2 DEF AtStage, Holding, StorageTypeOK
  <2>5. RecordsOutliveGameFiles'
    BY <1>0, <2>1 DEF RecordsOutliveGameFiles, diskVars, savedVars, worldVars, Whole, Data
  <2>6. \A q \in Procs : q # p => stage'[q] = stage[q] /\ build'[q] = build[q]
    BY <1>0, <2>1 DEF StorageTypeOK
  <2> QED
    BY <2>1, <2>3, <2>4, <2>5, <2>6, OthersStay DEF diskVars, savedVars, worldVars
<1>2. CASE Lock(p) /\ lock = None
  <2>1. /\ stage' = [stage EXCEPT ![p] = "locked"] /\ lock' = p /\ stage[p] = "starting"
        /\ UNCHANGED <<installed, build, keep, staging, active, backup, legacy, worldVars>>
    BY <1>2 DEF Lock, Moves, savedVars
  <2>2. StorageTypeOK'
    BY <1>0, <2>1 DEF StorageTypeOK, Stages, worldVars
  <2>3. AtStage(p)'
    BY <1>0, <2>1 DEF AtStage, Holding, StorageTypeOK
  <2>4. RecordsOutliveGameFiles'
    BY <1>0, <2>1 DEF RecordsOutliveGameFiles, worldVars, Whole, Data
  <2>5. \A q \in Procs : q # p => stage'[q] = stage[q] /\ build'[q] = build[q] /\ lock # q
    BY <1>0, <1>2, <2>1 DEF StorageTypeOK
  <2> QED
    BY <2>2, <2>3, <2>4, <2>5, OthersStay
<1>3. CASE Lock(p) /\ lock # None
  <2>1. Gone(p) /\ UNCHANGED <<installed, savedVars, worldVars>>
    BY <1>3 DEF Lock
  <2> QED
    BY <1>0, <2>1, GoneStep DEF StorageTypeOK, worldVars
<1> QED
  BY <1>1, <1>2, <1>3

\* The records change only in an open database, and say what the game folder holds before it
\* does (storage.rs:352).
LEMMA WorkStep == ASSUME StorageInv, Edit \/ RecordDeployment \/ DeployFiles PROVE StorageInv'
<1>0. App \in Procs /\ StorageTypeOK /\ AtStage(App) /\ RecordsOutliveGameFiles
  BY Alone DEF StorageInv, Procs
<1>1. /\ stage[App] \in {"open", "deploying"} /\ stage[App] \in Holding
      /\ UNCHANGED <<programVars, lock, staging, backup, legacy, running>>
  BY DEF Edit, RecordDeployment, DeployFiles, Moves, Holding, Stages, worldVars, diskVars, savedVars
<1>2. /\ lock = App /\ build[App] \in Builds /\ Data.version = Schema[build[App]]
      /\ active \in Folders /\ active.db \in Databases /\ active.complete /\ Data = active.db
  BY <1>0, <1>1 DEF StorageTypeOK, AtStage, Whole, Data, Folders
<1>3. CASE Edit
  <2> DEFINE r == active.db.rows + 1
  <2>1. r \in 0..MaxEdits /\ active' = [active EXCEPT !.db.rows = r] /\ UNCHANGED <<stage, owned>>
    BY <1>2, <1>3 DEF Edit, Databases, worldVars
  <2> HIDE DEF r
  <2>2. active' \in Folders /\ active'.complete /\ active'.db = [active.db EXCEPT !.rows = r]
    BY <1>2, <2>1, Written
  <2>3. active'.db \in Databases /\ active'.db.version = active.db.version /\ active'.db.owns = active.db.owns
        /\ active' # None /\ active'.db # None
    BY <1>2, <2>1, <2>2 DEF Databases, Folders
  <2>4. Whole' /\ Data'.version = Data.version /\ Data'.owns = Data.owns
    BY <1>2, <2>2, <2>3 DEF Whole, Data
  <2>5. StorageTypeOK'
    BY <1>0, <1>1, <2>1, <2>2 DEF StorageTypeOK, programVars
  <2>6. AtStage(App)'
    BY <1>1, <1>2, <1>3, <2>1, <2>4 DEF AtStage, Edit, programVars
  <2>7. RecordsOutliveGameFiles'
    BY <1>0, <2>1, <2>4 DEF RecordsOutliveGameFiles
  <2>8. stage' = [stage EXCEPT ![App] = stage[App]] /\ stage[App] \in Stages
    BY <1>0, <2>1 DEF StorageTypeOK
  <2> QED
    BY <1>0, <1>1, <2>5, <2>6, <2>7, <2>8, HolderStep DEF programVars
<1>4. CASE RecordDeployment
  <2>1. active' = [active EXCEPT !.db.owns = TRUE] /\ UNCHANGED owned
        /\ stage' = [stage EXCEPT ![App] = "deploying"]
    BY <1>4 DEF RecordDeployment, Moves, worldVars
  <2>2. active' \in Folders /\ active'.complete /\ active'.db = [active.db EXCEPT !.owns = TRUE]
    BY <1>2, <2>1, Written
  <2>3. active'.db \in Databases /\ active'.db.version = active.db.version /\ active'.db.owns
        /\ active' # None /\ active'.db # None
    BY <1>2, <2>2 DEF Databases, Folders
  <2>4. Whole' /\ Data'.version = Data.version /\ Data'.owns /\ stage'[App] = "deploying"
    BY <1>0, <1>2, <2>1, <2>2, <2>3 DEF Whole, Data, StorageTypeOK
  <2>5. StorageTypeOK'
    BY <1>0, <1>1, <2>1, <2>2 DEF StorageTypeOK, programVars, Stages
  <2>6. AtStage(App)'
    BY <1>1, <1>2, <2>1, <2>4 DEF AtStage, programVars
  <2>7. RecordsOutliveGameFiles'
    BY <2>4 DEF RecordsOutliveGameFiles
  <2> QED
    BY <1>0, <1>1, <2>1, <2>5, <2>6, <2>7, HolderStep DEF programVars, Stages
<1>5. CASE DeployFiles
  <2>1. owned' = TRUE /\ UNCHANGED active /\ stage[App] = "deploying"
        /\ stage' = [stage EXCEPT ![App] = "open"]
    BY <1>5 DEF DeployFiles, Moves, diskVars, savedVars
  <2>2. UNCHANGED <<Whole, Data>> /\ Whole /\ Data.owns /\ stage'[App] = "open"
    BY <1>0, <2>1 DEF Whole, Data, AtStage, StorageTypeOK
  <2>3. StorageTypeOK'
    BY <1>0, <1>1, <2>1 DEF StorageTypeOK, programVars, Stages
  <2>4. AtStage(App)'
    BY <1>1, <1>2, <2>1, <2>2 DEF AtStage, programVars
  <2>5. RecordsOutliveGameFiles'
    BY <2>2 DEF RecordsOutliveGameFiles
  <2> QED
    BY <1>0, <1>1, <2>1, <2>3, <2>4, <2>5, HolderStep DEF programVars, Stages
<1> QED
  BY <1>3, <1>4, <1>5

\* An uninstall takes our files out of the game before it takes their record, and everything
\* else after that (maintenance.rs:45).
LEMMA UninstallStep == ASSUME StorageInv, Uninstall PROVE StorageInv'
<1>0. Remover \in Procs /\ StorageTypeOK /\ AtStage(Remover) /\ RecordsOutliveGameFiles
  BY Alone DEF StorageInv, Procs
<1>1. CASE RefuseRemoval \/ KeepData \/ RemoveProgram
  <2>1. Gone(Remover) /\ UNCHANGED <<savedVars, owned, running>> /\ installed' \in {installed, None}
    BY <1>1 DEF RefuseRemoval, KeepData, RemoveProgram, worldVars
  <2> QED
    BY <1>0, <2>1, GoneStep DEF StorageTypeOK
<1>2. CASE RestoreGame
  <2>1. /\ stage[Remover] = "open" /\ stage[Remover] \in Holding
        /\ stage' = [stage EXCEPT ![Remover] = "restored"]
        /\ UNCHANGED <<installed, build, keep, lock, active, staging, backup, legacy, running>>
        /\ owned' = (owned /\ ~Data.owns)
    BY <1>2 DEF RestoreGame, Moves, Holding, Stages, programVars, diskVars, savedVars
  <2>2. Data.owns \in BOOLEAN /\ Whole /\ UNCHANGED <<Whole, Data>> /\ stage'[Remover] = "restored"
    BY <1>0, <2>1 DEF AtStage, Whole, Data, StorageTypeOK, Folders, Databases
  <2>3. owned' = FALSE
    BY <1>0, <2>1, <2>2 DEF RecordsOutliveGameFiles, StorageTypeOK
  <2>4. StorageTypeOK'
    BY <1>0, <2>1, <2>3 DEF StorageTypeOK, Stages
  <2>5. AtStage(Remover)'
    BY <1>0, <2>1, <2>2, <2>3 DEF AtStage
  <2>6. RecordsOutliveGameFiles'
    BY <2>3 DEF RecordsOutliveGameFiles
  <2> QED
    BY <1>0, <2>1, <2>4, <2>5, <2>6, HolderStep DEF Stages
<1>3. CASE ForgetDeployment
  <2>1. /\ stage[Remover] = "restored" /\ stage[Remover] \in Holding
        /\ stage' = [stage EXCEPT ![Remover] = "cleaned"]
        /\ UNCHANGED <<installed, build, keep, lock, staging, backup, legacy, worldVars>>
        /\ active' = [active EXCEPT !.db.owns = FALSE]
    BY <1>3 DEF ForgetDeployment, Moves, Holding, Stages, programVars
  <2>2. /\ stage'[Remover] = "cleaned" /\ lock = Remover /\ ~owned /\ Data.version = Schema[build[Remover]]
        /\ build[Remover] \in Builds
        /\ active \in Folders /\ active.db \in Databases /\ active.complete /\ Data = active.db
    BY <1>0, <2>1 DEF StorageTypeOK, AtStage, Whole, Data, Folders
  <2>3. active' \in Folders /\ active'.complete /\ active'.db = [active.db EXCEPT !.owns = FALSE]
    BY <2>1, <2>2, Written
  <2>4. active'.db \in Databases /\ active'.db.version = active.db.version
        /\ active' # None /\ active'.db # None
    BY <2>2, <2>3 DEF Databases, Folders
  <2>5. Whole' /\ Data'.version = Data.version
    BY <2>2, <2>3, <2>4 DEF Whole, Data
  <2>6. StorageTypeOK'
    BY <1>0, <2>1, <2>3 DEF StorageTypeOK, Stages, worldVars
  <2>7. AtStage(Remover)'
    BY <2>1, <2>2, <2>5 DEF AtStage, worldVars
  <2>8. RecordsOutliveGameFiles'
    BY <2>1, <2>2 DEF RecordsOutliveGameFiles, worldVars
  <2> QED
    BY <1>0, <2>1, <2>6, <2>7, <2>8, HolderStep DEF Stages
<1>4. CASE RemoveBackups \/ EraseFile
  <2>1. PICK s \in {"removing", "erasing"} :
          /\ stage[Remover] \in {"cleaned", "removing", "erasing"} /\ stage[Remover] \in Holding
          /\ stage' = [stage EXCEPT ![Remover] = s]
          /\ UNCHANGED <<installed, build, keep, lock, staging, legacy, worldVars>>
          /\ \/ backup' = None /\ UNCHANGED active /\ stage[Remover] = "cleaned"
             \/ /\ UNCHANGED backup /\ stage[Remover] # "cleaned"
                /\ \/ active' = [active EXCEPT !.complete = FALSE]
                   \/ active' = [active EXCEPT !.db = None]
    BY <1>4 DEF RemoveBackups, EraseFile, Moves, Holding, Stages, programVars
  <2>2. /\ stage'[Remover] = s /\ lock = Remover /\ ~owned /\ active \in Folders /\ build[Remover] \in Builds
    BY <1>0, <2>1 DEF StorageTypeOK, AtStage, Whole
  <2>3. active' \in Folders
    BY <2>1, <2>2 DEF Folders
  <2>4. active' # None
    BY <2>3
  <2>5. StorageTypeOK'
    BY <1>0, <2>1, <2>3 DEF StorageTypeOK, Stages, worldVars
  <2>6. AtStage(Remover)'
    BY <2>1, <2>2, <2>4 DEF AtStage, worldVars
  <2>7. RecordsOutliveGameFiles'
    BY <2>1, <2>2 DEF RecordsOutliveGameFiles, worldVars
  <2> QED
    BY <1>0, <2>1, <2>5, <2>6, <2>7, HolderStep DEF Stages
<1>5. CASE EraseFolder
  <2>1. /\ stage[Remover] = "erasing" /\ stage[Remover] \in Holding
        /\ stage' = [stage EXCEPT ![Remover] = "erased"] /\ active' = None
        /\ UNCHANGED <<installed, build, keep, lock, staging, backup, legacy, worldVars>>
    BY <1>5 DEF EraseFolder, Moves, Holding, Stages, programVars
  <2>2. stage'[Remover] = "erased" /\ lock = Remover /\ ~owned /\ build[Remover] \in Builds
    BY <1>0, <2>1 DEF StorageTypeOK, AtStage
  <2>3. StorageTypeOK'
    BY <1>0, <2>1 DEF StorageTypeOK, Stages, worldVars
  <2>4. AtStage(Remover)'
    BY <2>1, <2>2 DEF AtStage, worldVars
  <2>5. RecordsOutliveGameFiles'
    BY <2>1, <2>2 DEF RecordsOutliveGameFiles, worldVars
  <2> QED
    BY <1>0, <2>1, <2>3, <2>4, <2>5, HolderStep DEF Stages
<1>6. CASE RemoveLegacy
  <2>1. /\ stage[Remover] = "erased" /\ stage[Remover] \in Holding
        /\ stage' = [stage EXCEPT ![Remover] = "unlocked"] /\ lock' = None
        /\ legacy' = FALSE
        /\ UNCHANGED <<installed, build, keep, active, staging, backup, worldVars>>
    BY <1>6 DEF RemoveLegacy, Moves, Holding, Stages, programVars
  <2>2. stage'[Remover] = "unlocked" /\ build[Remover] \in Builds
    BY <1>0, <2>1 DEF StorageTypeOK, AtStage
  <2>3. StorageTypeOK'
    BY <1>0, <2>1 DEF StorageTypeOK, Stages, worldVars
  <2>4. AtStage(Remover)'
    BY <2>1, <2>2 DEF AtStage, Holding
  <2>5. RecordsOutliveGameFiles'
    BY <1>0, <2>1 DEF RecordsOutliveGameFiles, Whole, Data, worldVars
  <2> QED
    BY <1>0, <2>1, <2>3, <2>4, <2>5, HolderStep DEF Stages
<1> QED
  BY <1>1, <1>2, <1>3, <1>4, <1>5, <1>6 DEF Uninstall

\* The invariant of the saved data holds at first and after every step.
LEMMA StorageStarts == StorageInit => StorageInv
<1> SUFFICES ASSUME StorageInit PROVE StorageInv
  OBVIOUS
<1>1. active \in Folders \cup {None}
  <2>1. ASSUME NEW v \in Versions
        PROVE  [db |-> [version |-> v, rows |-> MaxEdits, owns |-> FALSE], complete |-> TRUE] \in Folders
    BY DEF Folders, Databases
  <2> QED
    BY <2>1 DEF StorageInit
<1>2. StorageTypeOK
  BY <1>1 DEF StorageInit, StorageTypeOK, Stages
<1>3. \A p \in Procs : AtStage(p)
  BY DEF StorageInit, AtStage, Holding
<1> QED
  BY <1>2, <1>3 DEF StorageInv, RecordsOutliveGameFiles, StorageInit

LEMMA StorageKeeps == ASSUME StorageInv, [StorageNext]_storageVars PROVE StorageInv'
<1>0. StorageTypeOK
  BY DEF StorageInv
<1>1. ASSUME NEW p \in Procs, Open(p) PROVE StorageInv'
  <2>1. CASE Refuse(p)
    BY <1>0, <2>1, GoneStep DEF Refuse, StorageTypeOK, worldVars
  <2> QED
    BY <1>1, <2>1, StartStep, CreateStep, AcceptStep, MigrateStep DEF Open
<1>2. ASSUME NEW p \in Procs, Stop(p) PROVE StorageInv'
  BY <1>0, <1>2, GoneStep DEF Stop, StorageTypeOK, worldVars
<1>3. ASSUME NEW b \in Builds, Replace(b) PROVE StorageInv'
  BY <1>0, <1>3, GoneStep DEF Replace, StorageTypeOK, worldVars, Procs
<1>4. CASE GameStartsOrExits \/ (\E b \in Builds : Reinstall(b)) \/ UNCHANGED storageVars
  <2>1. /\ UNCHANGED <<build, keep, stage, lock, diskVars, owned>>
        /\ installed' \in Builds \cup {None} /\ running' \in BOOLEAN
    BY <1>0, <1>4 DEF GameStartsOrExits, Reinstall, storageVars, StorageTypeOK, programVars, worldVars
  <2>2. StorageTypeOK'
    BY <1>0, <2>1 DEF StorageTypeOK, diskVars, savedVars
  <2>3. ASSUME NEW p \in Procs PROVE AtStage(p)'
    BY <2>1, Alone DEF AtStage, diskVars, savedVars, Whole, Data, Fresh
  <2>4. RecordsOutliveGameFiles'
    BY <2>1 DEF StorageInv, RecordsOutliveGameFiles, diskVars, savedVars, Whole, Data
  <2> QED
    BY <2>2, <2>3, <2>4 DEF StorageInv
<1> QED
  BY <1>1, <1>2, <1>3, <1>4, WorkStep, UninstallStep DEF StorageNext, StorageStep

\* The ways in which the database changes: it is put in place whole, migrated behind its
\* backup, edited, or taken away by an uninstall.
LEMMA DataChanges ==
  ASSUME StorageInv, [StorageNext]_storageVars
  PROVE  \/ UNCHANGED active
         \/ active = None /\ Whole'
         \/ /\ Data \in Databases /\ Data' \in Databases /\ Whole'
            /\ Data'.rows >= Data.rows
            /\ Data'.version = Data.version \/ (Data'.version > Data.version /\ backup = Data)
         \/ /\ stage[Remover] \in {"removing", "erasing"}
            /\ Data' \in {Data, None}
            /\ active' = None \/ stage'[Remover] = "erasing"
<1>0. StorageTypeOK /\ \A p \in Procs : AtStage(p)
  BY DEF StorageInv
<1>1. ASSUME NEW p \in Procs, Promote(p) PROVE active = None /\ Whole'
  <2>1. active = None /\ staging # None /\ staging.complete /\ staging.db = Fresh(build[p]) /\ build[p] \in Builds
    BY <1>0, <1>1 DEF Promote, Moves, AtStage
  <2>2. Fresh(build[p]) \in Databases
    BY <2>1 DEF Fresh, Databases, Versions
  <2>3. Fresh(build[p]) # None
    BY <2>2
  <2> QED
    BY <1>1, <2>1, <2>3 DEF Promote, Whole
<1>2. ASSUME Whole
      PROVE  active \in Folders /\ active.complete /\ active.db \in Databases /\ Data = active.db
             /\ Data.rows \in Nat /\ Data.version \in Nat
  BY <1>0, <1>2 DEF StorageTypeOK, Whole, Data, Folders, Databases, Versions
<1>3. ASSUME NEW p \in Procs, Migrate(p)
      PROVE  /\ Data \in Databases /\ Data' \in Databases /\ Whole'
             /\ Data'.rows >= Data.rows /\ Data'.version > Data.version /\ backup = Data
  <2> DEFINE v == Schema[build[p]]
  <2>1. Whole /\ Data.version < v /\ backup = Data /\ v \in Versions /\ v \in Nat
    BY <1>0, <1>3 DEF Migrate, Moves, AtStage, Versions
  <2>2. active' = [active EXCEPT !.db.version = v]
    BY <1>3 DEF Migrate, Migrated
  <2> HIDE DEF v
  <2>3. active' \in Folders /\ active'.complete /\ active'.db = [active.db EXCEPT !.version = v]
    BY <1>2, <2>1, <2>2, Written
  <2>4. active'.db \in Databases /\ active'.db.version = v /\ active'.db.rows = active.db.rows
        /\ active' # None /\ active'.db # None
    BY <1>2, <2>1, <2>3 DEF Databases, Folders
  <2>5. Whole' /\ Data' = active'.db
    BY <2>3, <2>4 DEF Whole, Data
  <2> QED
    BY <1>2, <2>1, <2>4, <2>5
<1>4. ASSUME Edit \/ RecordDeployment \/ ForgetDeployment
      PROVE  /\ Data \in Databases /\ Data' \in Databases /\ Whole'
             /\ Data'.rows >= Data.rows /\ Data'.version = Data.version
  <2>1. Whole
    BY <1>0, <1>4 DEF Edit, RecordDeployment, ForgetDeployment, Moves, AtStage, Procs
  <2>2. PICK r \in 0..MaxEdits : r >= Data.rows /\ (Edit => r = active.db.rows + 1)
    <3>1. Data.rows \in 0..MaxEdits
      BY <1>2, <2>1 DEF Databases
    <3>2. Edit => active.db.rows + 1 \in 0..MaxEdits /\ active.db.rows + 1 >= Data.rows
      BY <1>2, <2>1, <3>1 DEF Edit
    <3> QED
      BY <1>2, <2>1, <3>1, <3>2
  <2>3. PICK o \in BOOLEAN :
          \/ active' = [active EXCEPT !.db.rows = r]
          \/ active' = [active EXCEPT !.db.owns = o]
    BY <1>4, <2>2 DEF Edit, RecordDeployment, ForgetDeployment
  <2>4. /\ active' \in Folders /\ active'.complete
        /\ \/ active'.db = [active.db EXCEPT !.rows = r]
           \/ active'.db = [active.db EXCEPT !.owns = o]
    <3>1. active \in Folders /\ active.db \in Databases /\ active.complete
      BY <1>2, <2>1
    <3>2. CASE active' = [active EXCEPT !.db.rows = r]
      BY <3>1, <3>2, Written
    <3>3. CASE active' = [active EXCEPT !.db.owns = o]
      BY <3>1, <3>3, Written
    <3> QED
      BY <2>3, <3>2, <3>3
  <2>5. active'.db \in Databases /\ active'.db.version = active.db.version /\ active'.db.rows >= active.db.rows
        /\ active' # None /\ active'.db # None
    BY <1>2, <2>1, <2>2, <2>4 DEF Databases, Folders
  <2>6. Whole' /\ Data' = active'.db
    BY <2>4, <2>5 DEF Whole, Data
  <2> QED
    BY <1>2, <2>1, <2>5, <2>6
<1>5. ASSUME EraseFile
      PROVE  stage[Remover] \in {"removing", "erasing"} /\ Data' \in {Data, None} /\ stage'[Remover] = "erasing"
  <2>1. active \in Folders
    BY <1>0, <1>5 DEF EraseFile, AtStage, StorageTypeOK, Procs
  <2>2. active' \in Folders /\ active'.db \in {active.db, None}
    BY <1>5, <2>1 DEF EraseFile, Folders
  <2> QED
    BY <1>0, <1>5, <2>1, <2>2 DEF EraseFile, Data, StorageTypeOK, Procs
<1>6. ASSUME EraseFolder
      PROVE  stage[Remover] \in {"removing", "erasing"} /\ Data' \in {Data, None} /\ active' = None
  BY <1>6 DEF EraseFolder, Moves, Data
<1>7. ASSUME ~(\E p \in Procs : Promote(p) \/ Migrate(p)),
             ~(Edit \/ RecordDeployment \/ ForgetDeployment), ~EraseFile, ~EraseFolder
      PROVE  UNCHANGED active
  <2> USE DEF diskVars, savedVars
  <2>1. ASSUME NEW p \in Procs, Open(p) PROVE UNCHANGED active
    BY <1>7, <2>1 DEF Open, Start, Lock, MakeStaging, WriteBaseline, MarkStaging, Refuse, Accept, CopyBackup,
                      CompleteBackup, Validate, Load
  <2>2. CASE Uninstall
    BY <1>7, <2>2 DEF Uninstall, RefuseRemoval, RestoreGame, KeepData, RemoveBackups, RemoveLegacy, RemoveProgram
  <2> QED
    BY <1>7, <2>1, <2>2 DEF StorageNext, StorageStep, Stop, Replace, Reinstall, DeployFiles, GameStartsOrExits,
                            storageVars
<1> QED
  BY <1>1, <1>3, <1>4, <1>5, <1>6, <1>7

\* What a step may do to committed records, the folder and the version.
LEMMA CommittedStep ==
  ASSUME StorageInv, [StorageNext]_storageVars
  PROVE  /\ Data # None /\ stage[Remover] \notin {"removing", "erasing"} =>
              Data' # None /\ Data'.rows >= Data.rows
         /\ Whole' \/ active' = None \/ (active' = active) \/ stage'[Remover] = "erasing"
<1>1. Data # None => Data.rows \in Nat
  BY DEF StorageInv, StorageTypeOK, Data, Folders, Databases
<1>2. CASE UNCHANGED active
  BY <1>1, <1>2 DEF Data
<1>3. CASE active = None /\ Whole'
  BY <1>3 DEF Data
<1>4. CASE Data \in Databases /\ Data' \in Databases /\ Whole' /\ Data'.rows >= Data.rows
  BY <1>4
<1> QED
  BY <1>2, <1>3, <1>4, DataChanges

LEMMA MigrationStep ==
  ASSUME StorageInv, [StorageNext]_storageVars
  PROVE  Data # None /\ Data' # None /\ Data'.version # Data.version =>
           Data'.version > Data.version /\ backup = Data
<1>1. CASE UNCHANGED active
  BY <1>1 DEF Data
<1>2. CASE active = None
  BY <1>2 DEF Data
<1> QED
  BY <1>1, <1>2, DataChanges
\* The worker runs from the program's opening to its end.
WorkerRuns ==
  /\ worker \in {"off", "idle", "handing"}
  /\ worker # "off" <=> stage[App] \in {"open", "deploying"}
  /\ worker = "off" <=> saved = None
  /\ worker = "off" => job = None /\ ready = None
  /\ worker = "handing" => ready # None /\ stage[App] = "open"

\* What the worker holds is about the build that runs and the channel that is selected.
Current ==
  /\ prefs \in Preferences \cup {None} /\ saved \in Preferences \cup {None} /\ job \in Jobs \cup {None}
  /\ ready # None => ready \in Builds /\ ready > build[App]
  /\ job # None => job.channel = saved.channel
  /\ job # None /\ job.kind = "install" => job.version # None
  /\ job # None /\ job.kind = "check" =>
       /\ job.outcome # "downloading"
       /\ job.outcome = "answered" /\ job.version # None => Eligible(job.version, build[App], saved.channel)

UpdatesInv == WorkerRuns /\ Current /\ OffersAreCurrent

\* The release a check finds is newer and of the channel (updates.rs, select).
LEMMA SelectIsEligible ==
  ASSUME UpdatesAssumption, NEW feed \in Feeds, NEW b \in Builds, NEW c \in Channels,
         Select(feed, b, c) # None
  PROVE  Select(feed, b, c) \in Builds /\ Eligible(Select(feed, b, c), b, c)
<1> DEFINE found == {r \in feed : Eligible(r, b, c)}
<1>1. found \subseteq Nat /\ found \subseteq Builds
  BY DEF UpdatesAssumption
<1>3. found # {} /\ Select(feed, b, c) = Max(found)
  BY DEF Select
<1>2. PICK top \in Nat : \A r \in found : r <= top
  <2>1. feed # {} /\ feed \subseteq Nat
    BY <1>3 DEF UpdatesAssumption
  <2> QED
    BY <2>1 DEF UpdatesAssumption
<1> HIDE DEF found
<1>4. Max(found) \in found
  BY <1>1, <1>2, <1>3, LargestIsIn
<1> QED
  BY <1>1, <1>3, <1>4 DEF found

\* The preferences a start takes over name no release that is not newer (Updates::new).
LEMMA KeptIsEligible ==
  ASSUME NEW p \in Preferences, NEW b \in Builds
  PROVE  /\ Kept(p, b) \in Preferences
         /\ Kept(p, b).release # None => Eligible(Kept(p, b).release, b, Kept(p, b).channel)
<1>1. [p EXCEPT !.release = None] \in Preferences /\ [p EXCEPT !.release = None].release = None
  BY DEF Preferences
<1> QED
  BY <1>1 DEF Kept

LEMMA DefaultIsKnown == ASSUME NEW b \in Builds PROVE Default(b) \in Preferences
  BY DEF Default, Preferences, Channels

\* What a step of the saved data does to the program that runs.
LEMMA ProgramStep ==
  ASSUME StorageInv, StorageStep
  PROVE  /\ stage[App] \in {"open", "deploying"} => stage'[App] \in {"open", "deploying", "off"}
         /\ stage'[App] \in {"open", "deploying"} =>
              stage[App] \in {"valid", "open", "deploying"} /\ build'[App] = build[App]
         /\ stage'[App] = "deploying" => stage[App] \in {"open", "deploying"}
<1>0. StorageTypeOK /\ App \in Procs /\ Remover \in Procs /\ App # Remover
  BY DEF StorageInv, Procs, StorageAssumption
<1>1. ASSUME NEW p \in Procs, p # App, Open(p) \/ Stop(p) PROVE stage'[App] = stage[App] /\ build'[App] = build[App]
  BY <1>0, <1>1 DEF StorageTypeOK, Open, Start, Lock, MakeStaging, WriteBaseline, MarkStaging, Promote, Refuse, Accept,
                    CopyBackup, CompleteBackup, Migrate, Validate, Load, Stop, Gone, Moves, programVars
<1>2. CASE Open(App)
  BY <1>0, <1>2 DEF StorageTypeOK, Open, Start, Lock, MakeStaging, WriteBaseline, MarkStaging, Promote, Refuse, Accept,
                    CopyBackup, CompleteBackup, Migrate, Validate, Load, Gone, Moves, programVars, Placed
<1>3. CASE Stop(App)
  BY <1>0, <1>3 DEF StorageTypeOK, Stop, Gone
<1>4. CASE Uninstall
  BY <1>0, <1>4 DEF StorageTypeOK, Uninstall, RefuseRemoval, RestoreGame, ForgetDeployment, KeepData, RemoveBackups,
                    EraseFile, EraseFolder, RemoveLegacy, RemoveProgram, Gone, Moves, programVars
<1>5. CASE Edit \/ RecordDeployment \/ DeployFiles \/ GameStartsOrExits \/ \E b \in Builds : Reinstall(b)
  BY <1>0, <1>5 DEF StorageTypeOK, Edit, RecordDeployment, DeployFiles, GameStartsOrExits, Reinstall, Moves, programVars
<1> QED
  BY <1>0, <1>1, <1>2, <1>3, <1>4, <1>5 DEF StorageStep

-----------------------------------------------------------------------------
(* Updates of the program *)

USE UpdatesAssumption

\* A session ends with everything it held.
LEMMA SessionEnds ==
  ASSUME NoSession, stage'[App] = "off", prefs' \in Preferences \cup {None}
  PROVE  UpdatesInv'
  BY DEF NoSession, UpdatesInv, WorkerRuns, Current, OffersAreCurrent, NoticeIsCurrent, DownloadIsOfTheNotice

\* The program opens its data, ends, or works on under the worker that runs.
LEMMA DataStepKeeps == ASSUME StorageInv, UpdatesInv, DataStep PROVE UpdatesInv'
<1>0. /\ StorageTypeOK /\ WorkerRuns /\ Current /\ OffersAreCurrent /\ App \in Procs
      /\ AtStage(App) /\ prefs' \in {None, prefs}
  BY DEF StorageInv, UpdatesInv, DataStep, Procs
<1>1. /\ stage[App] \in {"open", "deploying"} => stage'[App] \in {"open", "deploying", "off"}
      /\ stage'[App] \in {"open", "deploying"} =>
           stage[App] \in {"valid", "open", "deploying"} /\ build'[App] = build[App]
      /\ stage'[App] = "deploying" => stage[App] \in {"open", "deploying"}
  BY ProgramStep DEF DataStep
<1>2. CASE stage'[App] = "off"
  <2>1. NoSession
    BY <1>2 DEF DataStep
  <2> QED
    BY <1>0, <1>2, <2>1, SessionEnds DEF Current
<1>3. CASE stage[App] \notin {"open", "deploying"} /\ stage'[App] \in {"open", "deploying"}
  <2>1. stage'[App] = "open" /\ build'[App] = build[App] /\ stage[App] # "off" /\ worker = "off"
    BY <1>0, <1>1, <1>3 DEF WorkerRuns
  <2>2. NewSession /\ build[App] \in Builds /\ job = None /\ ready = None
    BY <1>0, <1>3, <2>1 DEF DataStep, AtStage, WorkerRuns
  <2> DEFINE p == IF prefs = None THEN Default(build[App]) ELSE prefs
  <2>3. p \in Preferences
    BY <1>0, <2>2, DefaultIsKnown DEF Current
  <2>4. saved' = Kept(p, build[App]) /\ worker' = "idle" /\ job' = None /\ ready' = None
    BY <2>2 DEF NewSession
  <2> HIDE DEF p
  <2>5. /\ saved' \in Preferences
        /\ saved'.release # None => Eligible(saved'.release, build[App], saved'.channel)
    BY <2>2, <2>3, <2>4, KeptIsEligible
  <2>6. WorkerRuns'
    BY <1>3, <2>1, <2>4, <2>5 DEF WorkerRuns
  <2>7. Current'
    BY <1>0, <2>4, <2>5 DEF Current
  <2>8. OffersAreCurrent'
    BY <2>1, <2>4, <2>5 DEF OffersAreCurrent, NoticeIsCurrent, DownloadIsOfTheNotice, Eligible
  <2> QED
    BY <2>6, <2>7, <2>8 DEF UpdatesInv
<1>4. CASE /\ stage'[App] # "off"
           /\ stage[App] \in {"open", "deploying"} <=> stage'[App] \in {"open", "deploying"}
  <2>1. UNCHANGED <<saved, job, ready, worker>>
    BY <1>0, <1>4 DEF DataStep, WorkerRuns, session
  <2>2. stage'[App] = "deploying" => worker # "handing"
    BY DEF DataStep
  <2>3. WorkerRuns'
    BY <1>0, <1>4, <2>1, <2>2 DEF WorkerRuns
  <2>4. CASE worker = "off"
    BY <1>0, <2>1, <2>3, <2>4 DEF WorkerRuns, Current, UpdatesInv, OffersAreCurrent, NoticeIsCurrent, DownloadIsOfTheNotice
  <2>5. CASE worker # "off"
    <3>1. build'[App] = build[App]
      BY <1>0, <1>1, <1>4, <2>5 DEF WorkerRuns
    <3> QED
      BY <1>0, <2>1, <2>3, <3>1 DEF Current, UpdatesInv, OffersAreCurrent, NoticeIsCurrent, DownloadIsOfTheNotice, Eligible
  <2> QED
    BY <2>4, <2>5
<1> QED
  BY <1>1, <1>2, <1>3, <1>4

\* A task that is started asks about the channel that is selected.
LEMMA JobStarts ==
  ASSUME UpdatesInv, UNCHANGED storageVars, worker = "idle",
         NEW k \in {"check", "install"}, NEW c \in Channels, NEW v \in Builds \cup {None},
         NewJob(k, c, v), saved' \in Preferences, prefs' \in {prefs, saved'}, c = saved'.channel,
         saved'.release # None => Eligible(saved'.release, build[App], saved'.channel),
         k = "install" => v = saved'.release /\ v # None,
         UNCHANGED <<worker, ready>>
  PROVE  UpdatesInv'
<1> DEFINE j == [kind |-> k, channel |-> c, version |-> v, outcome |-> "running"]
<1>1. j \in Jobs /\ j.kind = k /\ j.channel = c /\ j.version = v /\ j.outcome = "running" /\ job' = j
  BY DEF Jobs, Outcomes, NewJob
<1> HIDE DEF j
<1>2. WorkerRuns /\ Current /\ UNCHANGED <<stage, build>> /\ saved' # None
  BY DEF UpdatesInv, storageVars, programVars
<1>3. WorkerRuns' /\ Current'
  BY <1>1, <1>2 DEF WorkerRuns, Current
<1>4. OffersAreCurrent'
  BY <1>1, <1>2 DEF OffersAreCurrent, NoticeIsCurrent, DownloadIsOfTheNotice, Eligible
<1> QED
  BY <1>3, <1>4 DEF UpdatesInv

\* What the player asks for is about the channel, the build and the notice of the moment
\* (game_service/updates.rs:163).
LEMMA PlayerKeeps == ASSUME UpdatesInv, Player PROVE UpdatesInv'
<1>0. /\ WorkerRuns /\ Current /\ OffersAreCurrent
      /\ worker = "idle" /\ saved \in Preferences /\ saved # None
      /\ saved.release \in Builds \cup {None} /\ saved.channel \in Channels
  <2>1. WorkerRuns /\ Current /\ OffersAreCurrent /\ worker = "idle"
    BY DEF UpdatesInv, Player, Check, Channel, Cancel, Install, Command, AtLoop
  <2>2. saved # None /\ saved \in Preferences
    BY <2>1 DEF WorkerRuns, Current
  <2> QED
    BY <2>1, <2>2 DEF Preferences
<1>1. saved.release # None => Eligible(saved.release, build[App], saved.channel)
  BY <1>0 DEF OffersAreCurrent, NoticeIsCurrent
<1>2. CASE Check
  <2>1. NewJob("check", saved.channel, None) /\ UNCHANGED <<storageVars, prefs, worker, saved, ready>>
    BY <1>2 DEF Check, StartCheck
  <2> QED
    BY <1>0, <1>1, <2>1, JobStarts
<1>3. ASSUME NEW c \in Channels, Channel(c) PROVE UpdatesInv'
  <2> DEFINE p == [saved EXCEPT !.channel = c, !.release = None]
  <2>1. /\ prefs' = p /\ saved' = p /\ UNCHANGED <<storageVars, ready, worker>>
        /\ NewJob("check", c, None) \/ job' = None
    BY <1>3 DEF Channel, Save
  <2>2. p \in Preferences /\ p.channel = c /\ p.release = None
    BY <1>0 DEF Preferences
  <2> HIDE DEF p
  <2>3. CASE NewJob("check", c, None)
    BY <1>0, <2>1, <2>2, <2>3, JobStarts
  <2>4. CASE job' = None
    <3>1. UNCHANGED <<stage, build>> /\ saved' # None
      BY <2>1, <2>2 DEF storageVars, programVars
    <3>2. WorkerRuns' /\ Current'
      BY <1>0, <2>1, <2>2, <2>4, <3>1 DEF WorkerRuns, Current
    <3> QED
      BY <2>1, <2>2, <2>4, <3>2 DEF UpdatesInv, OffersAreCurrent, NoticeIsCurrent, DownloadIsOfTheNotice
  <2> QED
    BY <2>1, <2>3, <2>4
<1>4. CASE Cancel
  <2>1. job' = None /\ ready' = None /\ UNCHANGED <<stage, build, prefs, saved, worker>> /\ worker = "idle"
    BY <1>4 DEF Cancel, Command, AtLoop, storageVars, programVars
  <2> QED
    BY <1>0, <1>1, <2>1 DEF UpdatesInv, WorkerRuns, Current, OffersAreCurrent, NoticeIsCurrent, DownloadIsOfTheNotice,
                            Eligible
<1>5. CASE Install
  <2>1. saved.release # None /\ NewJob("install", saved.channel, saved.release)
        /\ UNCHANGED <<storageVars, prefs, worker, saved, ready>>
    BY <1>5 DEF Install
  <2> QED
    BY <1>0, <1>1, <2>1, JobStarts
<1> QED
  BY <1>2, <1>3, <1>4, <1>5 DEF Player

\* The answer of a check is a release of the channel it was started for; a download gives the
\* release it was started for (updates.rs, select).
LEMMA TaskKeeps == ASSUME StorageInv, UpdatesInv, TaskGoesOn PROVE UpdatesInv'
<1>0. /\ WorkerRuns /\ Current /\ OffersAreCurrent /\ worker = "idle"
      /\ UNCHANGED <<stage, build, prefs, saved, ready, worker>> /\ job # None /\ job \in Jobs
      /\ stage[App] \in {"open", "deploying"}
  BY DEF UpdatesInv, TaskGoesOn, Discover, Download, Task, storageVars, programVars, WorkerRuns, Current
<1>1. build[App] \in Builds
  BY <1>0 DEF StorageInv, AtStage, Procs
<1> DEFINE Told(o, v) ==
             /\ job' = [job EXCEPT !.outcome = o, !.version = v]
             /\ job.kind = "install" => v = job.version
             /\ job.kind = "check" => o # "downloading"
             /\ job.kind = "check" /\ o = "answered" /\ v # None => Eligible(v, build[App], job.channel)
<1>2. PICK o \in Outcomes, v \in Builds \cup {None} : Told(o, v)
  <2>1. job.version \in Builds \cup {None} /\ job.kind \in {"check", "install"}
    BY <1>0 DEF Jobs
  <2>2. ASSUME NEW e \in Outcomes, Ends(e, job.version), job.kind = "check" => e \notin {"downloading", "answered"}
        PROVE  Told(e, job.version)
    BY <2>2 DEF Ends
  <2>3. {"limited", "died", "failed", "downloading", "answered"} \subseteq Outcomes
    BY DEF Outcomes
  <2>4. ASSUME job.kind = "check", NEW feed \in Feeds,
               Ends("answered", Select(feed, build[App], job.channel))
        PROVE  \E v \in Builds \cup {None} : Told("answered", v)
    BY <1>0, <1>1, <2>4, SelectIsEligible DEF Ends, Jobs
  <2> HIDE DEF Told
  <2>5. CASE Discover /\ job.kind = "check"
    <3>1. ASSUME NEW e \in {"limited", "died", "failed"}, Ends(e, job.version)
          PROVE  \E o \in Outcomes, v \in Builds \cup {None} : Told(o, v)
      <4>1. e \in Outcomes /\ e \notin {"downloading", "answered"}
        BY <2>3
      <4>2. Told(e, job.version)
        BY <2>2, <3>1, <4>1
      <4> QED
        BY <2>1, <4>1, <4>2
    <3>2. CASE \E feed \in Feeds : Ends("answered", Select(feed, build[App], job.channel))
      BY <2>3, <2>4, <2>5, <3>2
    <3> QED
      BY <2>5, <3>1, <3>2 DEF Discover
  <2>6. CASE Discover /\ job.kind # "check"
    <3>1. PICK e \in {"limited", "died", "failed", "downloading"} : Ends(e, job.version)
      BY <2>6 DEF Discover
    <3>2. e \in Outcomes
      BY <2>3
    <3>3. Told(e, job.version)
      BY <2>2, <2>6, <3>1, <3>2
    <3> QED
      BY <2>1, <3>2, <3>3
  <2>7. CASE Download
    <3>1. job.kind = "install" /\ \E e \in {"answered", "failed", "died"} : Ends(e, job.version)
      BY <1>0, <2>1, <2>7 DEF Download, Task, Current
    <3>2. PICK e \in {"answered", "failed", "died"} : Ends(e, job.version)
      BY <3>1
    <3>3. e \in Outcomes
      BY <2>3
    <3>4. Told(e, job.version)
      BY <2>2, <3>1, <3>2, <3>3
    <3> QED
      BY <2>1, <3>3, <3>4
  <2> QED
    BY <2>5, <2>6, <2>7 DEF TaskGoesOn
<1>3. /\ job' \in Jobs /\ job'.kind = job.kind /\ job'.channel = job.channel /\ job'.version = v /\ job'.outcome = o
      /\ job' # None
  <2>1. job' = [job EXCEPT !.outcome = o, !.version = v] /\ o \in Outcomes /\ v \in Builds \cup {None}
    BY <1>2
  <2>2. job' \in Jobs /\ job'.kind = job.kind /\ job'.channel = job.channel
        /\ job'.version = v /\ job'.outcome = o
    BY <1>0, <2>1 DEF Jobs
  <2> QED
    BY <2>2 DEF UpdatesAssumption
<1>4. WorkerRuns'
  BY <1>0 DEF WorkerRuns
<1>5. Current' /\ OffersAreCurrent'
  BY <1>0, <1>2, <1>3 DEF Current, OffersAreCurrent, NoticeIsCurrent, DownloadIsOfTheNotice, Eligible
<1> QED
  BY <1>4, <1>5 DEF UpdatesInv

\* A result is taken while the channel it answers for is selected, and an installer is the
\* newer release that was asked for (game_service/updates.rs:130).
LEMMA CollectKeeps == ASSUME UpdatesInv, Collect PROVE UpdatesInv'
<1>0. /\ WorkerRuns /\ Current /\ OffersAreCurrent /\ worker = "idle"
      /\ UNCHANGED <<stage, build, worker>> /\ job # None /\ job \in Jobs /\ job' = None
      /\ saved \in Preferences /\ saved # None
  BY DEF UpdatesInv, Collect, AtLoop, Checked, Downloaded, Collected, storageVars, programVars, WorkerRuns, Current
<1>1. job.kind \in {"check", "install"} /\ job.version \in Builds \cup {None} /\ job.channel = saved.channel
  BY <1>0 DEF Jobs, Current
<1>2. CASE Checked
  <2>1. CASE UNCHANGED <<prefs, saved>>
    <3>1. UNCHANGED ready
      BY <1>2 DEF Checked
    <3> QED
      BY <1>0, <2>1, <3>1 DEF UpdatesInv, WorkerRuns, Current, OffersAreCurrent, NoticeIsCurrent,
                              DownloadIsOfTheNotice, Eligible
  <2>2. CASE job.outcome = "answered" /\ Save([saved EXCEPT !.release = job.version])
    <3> DEFINE p == [saved EXCEPT !.release = job.version]
    <3>1. p \in Preferences /\ p.release = job.version /\ p.channel = saved.channel
      BY <1>0, <1>1 DEF Preferences
    <3>2. prefs' = p /\ saved' = p /\ UNCHANGED ready /\ job.kind = "check"
      BY <1>2, <2>2 DEF Save, Checked
    <3> HIDE DEF p
    <3>3. p # None /\ (p.release # None => Eligible(p.release, build[App], p.channel))
      BY <1>0, <2>2, <3>1, <3>2 DEF Current, UpdatesAssumption
    <3> QED
      BY <1>0, <3>1, <3>2, <3>3 DEF UpdatesInv, WorkerRuns, Current, OffersAreCurrent, NoticeIsCurrent,
                                    DownloadIsOfTheNotice, Eligible
  <2> QED
    BY <1>2, <2>1, <2>2 DEF Checked
<1>3. CASE Downloaded
  <2>1. UNCHANGED <<prefs, saved>> /\ ready' \in {ready, job.version}
    BY <1>3 DEF Downloaded
  <2>2. ready' # ready => job.kind = "install" /\ ready' = job.version
    BY <1>1, <1>3, <2>1 DEF Downloaded
  <2>3. ready' # None => ready' \in Builds /\ ready' > build[App]
    BY <1>0, <1>1, <2>2 DEF Current, OffersAreCurrent, NoticeIsCurrent, DownloadIsOfTheNotice, Eligible
  <2> QED
    BY <1>0, <2>1, <2>3 DEF UpdatesInv, WorkerRuns, Current, OffersAreCurrent, NoticeIsCurrent, DownloadIsOfTheNotice,
                            Eligible
<1> QED
  BY <1>2, <1>3 DEF Collect

\* The rest of the worker's round, and what goes on beside it.
LEMMA WorkerKeeps ==
  ASSUME StorageInv, UpdatesInv,
         DueCheck \/ ResumeWatcher \/ StopWatcher \/ HandOver \/ HandOverFails \/ RunInstaller \/ Exit
           \/ CloseWindow \/ WatcherFinishes \/ Elapse
  PROVE  UpdatesInv'
<1>0. WorkerRuns /\ Current /\ OffersAreCurrent /\ StorageTypeOK /\ App \in Procs
  BY DEF UpdatesInv, StorageInv, Procs
<1>1. CASE DueCheck
  <2>1. /\ worker = "idle" /\ saved # None /\ saved \in Preferences
        /\ NewJob("check", saved.channel, None) /\ UNCHANGED <<storageVars, prefs, worker, saved, ready>>
    BY <1>0, <1>1 DEF DueCheck, StartCheck, AtLoop, WorkerRuns, Current
  <2>2. saved.channel \in Channels /\ (saved.release # None => Eligible(saved.release, build[App], saved.channel))
    BY <1>0, <2>1 DEF Preferences, OffersAreCurrent, NoticeIsCurrent
  <2> QED
    BY <2>1, <2>2, JobStarts
<1>2. CASE RunInstaller \/ Exit
  <2>1. Gone(App) /\ NoSession /\ UNCHANGED prefs
    BY <1>2 DEF RunInstaller, Exit, Replace
  <2>2. stage'[App] = "off"
    BY <1>0, <2>1 DEF Gone, StorageTypeOK
  <2> QED
    BY <1>0, <2>1, <2>2, SessionEnds DEF Current
<1>3. CASE ResumeWatcher \/ StopWatcher \/ HandOver \/ HandOverFails \/ CloseWindow \/ WatcherFinishes \/ Elapse
  <2>1. /\ UNCHANGED <<stage, build, prefs, saved, job>>
        /\ ready' \in {ready, None}
        /\ \/ UNCHANGED <<worker, ready>>
           \/ stage[App] = "open" /\ worker = "idle" /\ worker' = "handing" /\ ready # None /\ ready' = ready
           \/ worker = "handing" /\ worker' = "idle"
    BY <1>3 DEF ResumeWatcher, StopWatcher, HandOver, HandOverFails, CloseWindow, WatcherFinishes, Elapse, Loop, AtLoop,
                storageVars, programVars
  <2>2. WorkerRuns'
    BY <1>0, <2>1 DEF WorkerRuns
  <2>3. Current' /\ OffersAreCurrent'
    BY <1>0, <2>1 DEF Current, OffersAreCurrent, NoticeIsCurrent, DownloadIsOfTheNotice, Eligible
  <2> QED
    BY <2>2, <2>3 DEF UpdatesInv
<1> QED
  BY <1>1, <1>2, <1>3

\* Everything the program does is, to the saved data, one of their own steps or none.
LEMMA UpdatesRefineStorage ==
  ASSUME StorageInv, UpdatesInv, [Next]_vars
  PROVE  [StorageNext]_storageVars
<1>1. CASE DataStep
  BY <1>1 DEF DataStep, StorageNext
<1>2. CASE Exit
  BY <1>2 DEF Exit, AtLoop, Stop, StorageNext, StorageStep, Procs
<1>3. CASE RunInstaller
  <2>1. ready \in Builds
    BY <1>3 DEF RunInstaller, AtLoop, UpdatesInv, WorkerRuns, Current
  <2> QED
    BY <1>3, <2>1 DEF RunInstaller, StorageNext
<1>4. CASE CloseWindow \/ Player \/ TaskGoesOn \/ WatcherFinishes \/ Elapse \/ UNCHANGED vars
  BY <1>4 DEF CloseWindow, Player, Check, Channel, Cancel, Install, TaskGoesOn, WatcherFinishes, Elapse, vars
<1>5. CASE Collect \/ DueCheck \/ ResumeWatcher \/ StopWatcher \/ HandOver \/ HandOverFails
  BY <1>5 DEF Collect, DueCheck, ResumeWatcher, StopWatcher, HandOver, HandOverFails
<1> QED
  BY <1>1, <1>2, <1>3, <1>4, <1>5 DEF Next, LoopStep

LEMMA UpdatesStart == Init => StorageInv /\ UpdatesInv
<1> SUFFICES ASSUME Init PROVE StorageInv /\ UpdatesInv
  OBVIOUS
<1>1. StorageInit /\ StorageInv
  BY StorageStarts DEF Init
<1>2. prefs \in Preferences \cup {None}
  BY DEF Init, Preferences
<1>3. stage[App] = "off"
  BY <1>1 DEF StorageInit, Procs
<1> QED
  BY <1>1, <1>2, <1>3 DEF Init, UpdatesInv, WorkerRuns, Current, OffersAreCurrent, NoticeIsCurrent, DownloadIsOfTheNotice

LEMMA UpdatesKeep == ASSUME StorageInv, UpdatesInv, [Next]_vars PROVE StorageInv' /\ UpdatesInv'
<1>1. StorageInv'
  BY UpdatesRefineStorage, StorageKeeps
<1>2. CASE UNCHANGED vars
  BY <1>1, <1>2 DEF vars, session, storageVars, programVars, UpdatesInv, WorkerRuns, Current, OffersAreCurrent,
              NoticeIsCurrent, DownloadIsOfTheNotice, Eligible
<1>3. CASE DataStep \/ Player \/ TaskGoesOn \/ Collect
  BY <1>1, <1>3, DataStepKeeps, PlayerKeeps, TaskKeeps, CollectKeeps
<1>4. CASE DueCheck \/ ResumeWatcher \/ StopWatcher \/ HandOver \/ HandOverFails \/ RunInstaller \/ Exit
             \/ CloseWindow \/ WatcherFinishes \/ Elapse
  BY <1>1, <1>4, WorkerKeeps
<1> QED
  BY <1>1, <1>2, <1>3, <1>4 DEF Next, LoopStep

THEOREM UpdatesInvariance == Spec => [](StorageInv /\ UpdatesInv)
<1>1. StorageInv /\ UpdatesInv /\ [Next]_vars => StorageInv' /\ UpdatesInv'
  BY UpdatesKeep
<1> QED
  BY <1>1, UpdatesStart, PTL DEF Spec

\* Our files never lie in the game folder without a whole database that says so, at any point of
\* any start, deployment, removal or failure (maintenance.rs:45).
THEOREM GameFilesAreRecorded == Spec => []RecordsOutliveGameFiles
<1>1. StorageInv => RecordsOutliveGameFiles
  BY DEF StorageInv
<1> QED
  BY <1>1, UpdatesInvariance, PTL

\* Whoever works on the records holds the lock, and they are of its build's version
\* (storage.rs:352).
THEOREM VersionsMatch == Spec => []WorksOnItsVersion
<1>1. StorageInv => WorksOnItsVersion
  BY DEF StorageInv, AtStage, WorksOnItsVersion, Holding, Stages
<1> QED
  BY <1>1, UpdatesInvariance, PTL

\* The notice and the download are of a newer release of the selected channel, whatever was
\* under way when the channel or the program changed (game_service/updates.rs:130).
THEOREM OffersStayCurrent == Spec => []OffersAreCurrent
<1>1. UpdatesInv => OffersAreCurrent
  BY DEF UpdatesInv
<1> QED
  BY <1>1, UpdatesInvariance, PTL

\* The program that schedules, downloads and hands over to installers implements the life of
\* the saved data, and on it committed records stay and a migration is backed up (storage.rs:299).
THEOREM CommittedDataIsKept == Spec => DataIsKept
<1>1. Init => StorageInit
  BY DEF Init
<1>2. StorageInv /\ UpdatesInv /\ [Next]_vars => [StorageNext]_storageVars
  BY UpdatesRefineStorage
<1>3. StorageInv /\ [StorageNext]_storageVars =>
        [/\ Data # None /\ stage[Remover] \notin {"removing", "erasing"} =>
              Data' # None /\ Data'.rows >= Data.rows
         /\ Whole' \/ active' = None \/ (active' = active) \/ stage'[Remover] = "erasing"]_storageVars
  BY CommittedStep
<1>4. StorageInv /\ [StorageNext]_storageVars =>
        [Data # None /\ Data' # None /\ Data'.version # Data.version =>
           Data'.version > Data.version /\ backup = Data]_storageVars
  BY MigrationStep
<1>5. Spec => StorageSpec
  BY <1>1, <1>2, UpdatesInvariance, PTL DEF Spec, StorageSpec
<1>6. Spec => CommittedStay
  BY <1>2, <1>3, UpdatesInvariance, PTL DEF Spec, CommittedStay
<1>7. Spec => MigrationIsBackedUp
  BY <1>2, <1>4, UpdatesInvariance, PTL DEF Spec, MigrationIsBackedUp
<1> QED
  BY <1>5, <1>6, <1>7 DEF DataIsKept

\* An installer only ever puts a newer build in place, and one that can open the data as they
\* are: the safety half of HandOverIsSound (game_service/updates.rs:284).
THEOREM InstallersGoForward == Spec => UpdatesGoForward
<1>1. ASSUME StorageInv, UpdatesInv, [Next]_vars
      PROVE  [installed' # installed /\ installed' # None /\ stage[App] = "open" =>
                installed' > build[App] /\ Whole' /\ Data'.version <= Schema[installed']]_vars
  <2> SUFFICES ASSUME installed' # installed, installed' # None, stage[App] = "open"
               PROVE  installed' > build[App] /\ Whole' /\ Data'.version <= Schema[installed']
    OBVIOUS
  <2>1. RunInstaller
    <3>1. ASSUME NEW p \in Procs, Open(p) \/ Stop(p) PROVE FALSE
      BY <3>1 DEF Open, Start, Lock, MakeStaging, WriteBaseline, MarkStaging, Promote, Refuse, Accept, CopyBackup,
                  CompleteBackup, Migrate, Validate, Load, Stop, programVars
    <3>2. ~Uninstall
      BY DEF Uninstall, RefuseRemoval, RestoreGame, ForgetDeployment, KeepData, RemoveBackups, EraseFile, EraseFolder,
             RemoveLegacy, RemoveProgram, programVars
    <3>3. ~StorageStep
      BY <3>1, <3>2 DEF StorageStep, Edit, RecordDeployment, DeployFiles, GameStartsOrExits, Reinstall, Procs, programVars
    <3>4. ~UNCHANGED storageVars
      BY DEF storageVars, programVars
    <3>5. ~UNCHANGED vars
      BY <3>4 DEF vars
    <3> QED
      BY <1>1, <3>3, <3>4, <3>5 DEF Next, DataStep, LoopStep, Exit, CloseWindow, Player, Check, Channel, Cancel, Install,
           TaskGoesOn, WatcherFinishes, Elapse, Collect, DueCheck, ResumeWatcher, StopWatcher, HandOver, HandOverFails
  <2>2. installed' = ready /\ ready \in Builds /\ ready > build[App] /\ UNCHANGED active
    BY <1>1, <2>1 DEF RunInstaller, Replace, AtLoop, savedVars, UpdatesInv, WorkerRuns, Current
  <2>3. Whole /\ Data.version = Schema[build[App]] /\ build[App] \in Builds
    BY <1>1 DEF StorageInv, AtStage, Procs
  <2>4. Whole' /\ Data' = Data
    BY <2>2, <2>3 DEF Whole, Data
  <2>5. Schema[build[App]] <= Schema[ready]
    BY <2>2, <2>3
  <2> QED
    BY <2>2, <2>3, <2>4, <2>5
<1> QED
  BY <1>1, UpdatesInvariance, PTL DEF Spec, UpdatesGoForward
=============================================================================
