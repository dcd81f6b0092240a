------------------------- MODULE GameServiceProofs -------------------------
(***************************************************************************)
(* The flags the two threads of the game service share, for every channel, *)
(* every set of actions and any number of revisions.                       *)
(***************************************************************************)
EXTENDS GameService, SequenceTheorems, TLAPS

USE ActionsAssumption, BoundsAssumption, ObservationsAssumption, SwitchesAssumption,
    NoneAssumption

Requests == GameRequests \cup {"Command"}

\* What sending does to the channel.
LEMMA Sending ==
  ASSUME NEW q \in Seq(Requests), NEW r \in Requests
  PROVE  /\ Append(q, r) \in Seq(Requests) /\ Len(q) \in Nat /\ Len(Append(q, r)) = Len(q) + 1
         /\ \A i \in 1..Len(q) : Append(q, r)[i] = q[i]
         /\ Append(q, r)[Len(q) + 1] = r
  BY AppendProperties, LenProperties

\* The same for receiving.
LEMMA Receiving ==
  ASSUME NEW q \in Seq(Requests), q # <<>>
  PROVE  /\ Tail(q) \in Seq(Requests) /\ Len(Tail(q)) = Len(q) - 1 /\ Len(q) \in Nat \ {0}
         /\ \A i \in 1..Len(Tail(q)) : Tail(q)[i] = q[i + 1]
         /\ Head(q) = q[1] /\ Head(q) \in Requests
  BY HeadTailProperties, EmptySeq

\* Some message of a kind is in the channel.
Holding(q, kind) == \E i \in 1..Len(q) : q[i] \in kind

\* What sending and receiving do to the kinds in the channel.
LEMMA SendingOf ==
  ASSUME NEW q \in Seq(Requests), NEW r \in Requests, NEW kind
  PROVE  Holding(Append(q, r), kind) <=> Holding(q, kind) \/ r \in kind
<1>1. Len(q) \in Nat /\ 1..Len(Append(q, r)) = 1..Len(q) \cup {Len(q) + 1}
  BY Sending
<1> QED
  BY <1>1, Sending DEF Holding

\* The same for receiving.
LEMMA ReceivingOf ==
  ASSUME NEW q \in Seq(Requests), q # <<>>, NEW kind
  PROVE  Holding(q, kind) <=> Holding(Tail(q), kind) \/ Head(q) \in kind
<1>1. 1 \in 1..Len(q) /\ \A i \in 1..Len(q) : i = 1 \/ (i - 1 \in 1..Len(Tail(q)) /\ (i - 1) + 1 = i)
  BY Receiving
<1>2. \A i \in 1..Len(Tail(q)) : i + 1 \in 1..Len(q)
  BY Receiving
<1>3. ASSUME Holding(q, kind) PROVE Holding(Tail(q), kind) \/ Head(q) \in kind
  <2>1. PICK i \in 1..Len(q) : q[i] \in kind
    BY <1>3 DEF Holding
  <2>2. CASE i = 1
    BY <2>1, <2>2, Receiving
  <2>3. CASE i # 1
    BY <1>1, <2>1, <2>3, Receiving DEF Holding
  <2> QED
    BY <2>2, <2>3
<1>4. ASSUME Holding(Tail(q), kind) PROVE Holding(q, kind)
  BY <1>2, <1>4, Receiving DEF Holding
<1>5. ASSUME Head(q) \in kind PROVE Holding(q, kind)
  BY <1>1, <1>5, Receiving DEF Holding
<1> QED
  BY <1>3, <1>4, <1>5

\* At most one message of a kind is in the channel.
Single(q, kind) == \A i, j \in 1..Len(q) : q[i] \in kind /\ q[j] \in kind => i = j

\* A second message of a kind comes only by sending one.
LEMMA SendingOne ==
  ASSUME NEW q \in Seq(Requests), NEW r \in Requests, NEW kind,
         Single(q, kind), r \notin kind \/ ~Holding(q, kind)
  PROVE  Single(Append(q, r), kind)
<1>1. Len(q) \in Nat /\ 1..Len(Append(q, r)) = 1..Len(q) \cup {Len(q) + 1}
  BY Sending
<1>2. \A i \in 1..Len(Append(q, r)) :
        Append(q, r)[i] \in kind =>
          (i \in 1..Len(q) /\ q[i] \in kind) \/ (i = Len(q) + 1 /\ r \in kind)
  BY <1>1, Sending
<1> QED
  BY <1>2 DEF Single, Holding

\* The only message of a kind is gone when it was received.
LEMMA ReceivingOne ==
  ASSUME NEW q \in Seq(Requests), q # <<>>, NEW kind, Single(q, kind)
  PROVE  Single(Tail(q), kind) /\ (Head(q) \in kind => ~Holding(Tail(q), kind))
<1>1. \A i \in 1..Len(Tail(q)) : i \in Int /\ i + 1 \in 1..Len(q) /\ i + 1 # 1 /\ Tail(q)[i] = q[i + 1]
  BY Receiving
<1>2. 1 \in 1..Len(q) /\ Head(q) = q[1]
  BY Receiving
<1>3. \A i, j \in 1..Len(Tail(q)) : i + 1 = j + 1 => i = j
  BY <1>1
<1>4. Single(Tail(q), kind)
  BY <1>1, <1>3 DEF Single
<1>5. Head(q) \in kind => ~Holding(Tail(q), kind)
  BY <1>1, <1>2 DEF Single, Holding
<1> QED
  BY <1>4, <1>5

-----------------------------------------------------------------------------
\* Types hold initially.
LEMMA TypeInit == Init => TypeOK
<1> SUFFICES ASSUME Init PROVE TypeOK
  OBVIOUS
<1>1. queue \in Seq(GameRequests \cup {"Command"}) /\ Len(queue) = 0
  BY EmptySeq DEF Init
<1>2. WindowOK
  BY DEF Init, WindowOK
<1>5. RequestOK
  BY DEF Init, RequestOK
<1>6. ChannelOK
  BY <1>1 DEF ChannelOK
<1>3. WorkerOK
  BY DEF Init, WorkerOK
<1>4. RevisionsOK
  BY DEF Init, RevisionsOK
<1> QED
  BY <1>2, <1>3, <1>4, <1>5, <1>6 DEF TypeOK

\* A snapshot keeps its type.
LEMMA Publishing ==
  ASSUME shown \in [busy : BOOLEAN, requested : BOOLEAN], NEW b \in BOOLEAN, NEW l, Publish(b, l)
  PROVE  shown' \in [busy : BOOLEAN, requested : BOOLEAN]
  BY DEF Publish

\* The window's flags keep their types.
LEMMA WindowStep == WindowOK /\ WorkerOK /\ [Next]_vars => WindowOK'
<1> SUFFICES ASSUME WindowOK, WorkerOK, [Next]_vars PROVE WindowOK'
  OBVIOUS
<1> USE DEF WindowOK, process, flags, core, main, session, tick, folder, world
<1>1. ASSUME NEW a \in Actions, Claim(a) PROVE WindowOK'
  BY <1>1 DEF Claim
<1>2. CASE BeginGameRequest \/ Mark
  BY <1>2 DEF BeginGameRequest, Mark
<1>3. CASE Send
  BY <1>3 DEF Send, Room
<1>4. CASE Picked \/ Command
  BY <1>4 DEF Picked, Command, Room
<1>5. CASE CloseRequested \/ CloseDecided
  BY <1>5 DEF CloseRequested, CloseDecided
<1>6. CASE Startup \/ Top \/ Observe \/ Recover
  BY <1>6, Publishing DEF Startup, Top, Observe, Recover, Recovers, WorkerOK
<1>7. CASE ObserveSession
  BY <1>7 DEF ObserveSession, Readiness, ReadyPhase, Changed
<1>8. CASE Decide
  BY <1>8, Publishing DEF Decide, Due, EndTick, WorkerOK
<1>9. CASE Refuse \/ Apply \/ Applied \/ ApplyFails
  BY <1>9 DEF Refuse, Apply, Applied, ApplyFails
<1>10. CASE Dispatch
  BY <1>10 DEF Dispatch
<1>11. CASE Release \/ Released
  BY <1>11 DEF Release, Released, EndTick
<1>12. CASE UpdateTick \/ InstallRefused
  BY <1>12 DEF UpdateTick, InstallRefused
<1>13. CASE Load \/ PublishView \/ Timeout
  BY <1>13, Publishing DEF Load, PublishView, Timeout, WorkerOK
<1>14. CASE HandleCommand
  BY <1>14 DEF HandleCommand
<1>15. CASE HandleGame
  BY <1>15, Publishing DEF HandleGame
<1>16. CASE HandleFiles \/ HandleSelect
  BY <1>16 DEF HandleFiles, HandleSelect
<1>17. CASE End
  BY <1>17 DEF End
<1>18. CASE Restart \/ UpdateDownloaded \/ GameChanges
  BY <1>18 DEF Restart, UpdateDownloaded, GameChanges
<1>19. CASE UNCHANGED vars
  BY <1>19 DEF vars
<1> QED
  BY <1>1, <1>2, <1>3, <1>4, <1>5, <1>6, <1>7, <1>8, <1>9, <1>10, <1>11, <1>12, <1>13, <1>14,
     <1>15, <1>16, <1>17, <1>18, <1>19
     DEF Next, Main, Worker, User, Environment, ProcessEnds, Killed, InstallUpdate

\* So does the main thread's request.
LEMMA RequestStep == RequestOK /\ [Next]_vars => RequestOK'
<1> SUFFICES ASSUME RequestOK, [Next]_vars PROVE RequestOK'
  OBVIOUS
<1> USE DEF RequestOK, process, flags, core, main, session, tick, folder, world
<1>1. CASE Main \/ User
  BY <1>1 DEF Main, User, BeginGameRequest, Mark, Send, CloseDecided, Claim, Picked, Command,
     CloseRequested, Room
<1>2. CASE Startup \/ Top \/ Observe \/ Recover
  BY <1>2 DEF Startup, Top, Observe, Recover, Recovers
<1>3. CASE ObserveSession \/ Decide
  BY <1>3 DEF ObserveSession, Readiness, ReadyPhase, Changed, Decide, Due, EndTick
<1>4. CASE Refuse \/ Apply \/ Applied \/ ApplyFails \/ Dispatch
  BY <1>4 DEF Refuse, Apply, Applied, ApplyFails, Dispatch
<1>5. CASE Release \/ Released \/ UpdateTick \/ InstallRefused
  BY <1>5 DEF Release, Released, EndTick, UpdateTick, InstallRefused
<1>6. CASE Load \/ PublishView \/ Timeout
  BY <1>6 DEF Load, PublishView, Timeout
<1>7. CASE HandleCommand \/ HandleFiles
  BY <1>7 DEF HandleCommand, HandleFiles
<1>8. CASE HandleGame
  BY <1>8 DEF HandleGame
<1>9. CASE HandleSelect
  BY <1>9 DEF HandleSelect
<1>10. CASE End \/ Restart \/ UpdateDownloaded \/ GameChanges \/ UNCHANGED vars
  BY <1>10 DEF End, Restart, UpdateDownloaded, GameChanges, vars
<1> QED
  BY <1>1, <1>2, <1>3, <1>4, <1>5, <1>6, <1>7, <1>8, <1>9, <1>10
     DEF Next, Main, Worker, User, Environment, ProcessEnds, Killed, InstallUpdate

\* So does the channel, whose slots are not exceeded.
LEMMA ChannelStep == ChannelOK /\ RequestOK /\ MarkedInv /\ [Next]_vars => ChannelOK'
<1> SUFFICES ASSUME ChannelOK, RequestOK, MarkedInv, [Next]_vars PROVE ChannelOK'
  OBVIOUS
<1> USE DEF ChannelOK, process, flags, core, main, session, tick, folder, world
<1>1. ASSUME NEW a \in Actions, Claim(a) PROVE ChannelOK'
  BY <1>1 DEF Claim
<1>2. CASE BeginGameRequest \/ Mark
  BY <1>2 DEF BeginGameRequest, Mark
<1>3. CASE Send
  BY <1>3, Sending DEF Send, Room, RequestOK, MarkedInv, Requests, GameRequests, FileActions
<1>4. CASE Picked \/ Command
  BY <1>4, Sending DEF Picked, Command, Room, Requests, GameRequests
<1>5. CASE CloseRequested \/ CloseDecided
  BY <1>5 DEF CloseRequested, CloseDecided
<1>6. CASE Startup \/ Top \/ Observe \/ Recover
  BY <1>6 DEF Startup, Top, Observe, Recover, Recovers
<1>7. CASE ObserveSession
  BY <1>7 DEF ObserveSession, Readiness, ReadyPhase, Changed
<1>8. CASE Decide
  BY <1>8 DEF Decide, Due, EndTick
<1>9. CASE Refuse \/ Apply \/ Applied \/ ApplyFails
  BY <1>9 DEF Refuse, Apply, Applied, ApplyFails
<1>10. CASE Dispatch
  BY <1>10 DEF Dispatch
<1>11. CASE Release \/ Released
  BY <1>11 DEF Release, Released, EndTick
<1>12. CASE UpdateTick \/ InstallRefused
  BY <1>12 DEF UpdateTick, InstallRefused
<1>13. CASE Load \/ PublishView \/ Timeout
  BY <1>13 DEF Load, PublishView, Timeout
<1>14. CASE HandleCommand
  BY <1>14, Receiving DEF HandleCommand, Requests
<1>15. CASE HandleGame
  BY <1>15, Receiving DEF HandleGame, Requests
<1>16. CASE HandleFiles \/ HandleSelect
  BY <1>16 DEF HandleFiles, HandleSelect
<1>17. CASE End
  BY <1>17, EmptySeq DEF End
<1>18. CASE Restart \/ UpdateDownloaded \/ GameChanges
  BY <1>18 DEF Restart, UpdateDownloaded, GameChanges
<1>19. CASE UNCHANGED vars
  BY <1>19 DEF vars
<1> QED
  BY <1>1, <1>2, <1>3, <1>4, <1>5, <1>6, <1>7, <1>8, <1>9, <1>10, <1>11, <1>12, <1>13, <1>14,
     <1>15, <1>16, <1>17, <1>18, <1>19
     DEF Next, Main, Worker, User, Environment, ProcessEnds, Killed, InstallUpdate

\* So does the worker's state.
LEMMA WorkerStep == WorkerOK /\ ChannelOK /\ WindowOK /\ [Next]_vars => WorkerOK'
<1> SUFFICES ASSUME WorkerOK, ChannelOK, WindowOK, [Next]_vars PROVE WorkerOK'
  OBVIOUS
<1> USE DEF WorkerOK, process, flags, core, main, session, tick, folder, world
<1>1. ASSUME NEW a \in Actions, Claim(a) PROVE WorkerOK'
  BY <1>1 DEF Claim
<1>2. CASE BeginGameRequest \/ Mark
  BY <1>2 DEF BeginGameRequest, Mark
<1>3. CASE Send
  BY <1>3 DEF Send, Room
<1>4. CASE Picked \/ Command
  BY <1>4 DEF Picked, Command, Room
<1>5. CASE CloseRequested \/ CloseDecided
  BY <1>5 DEF CloseRequested, CloseDecided
<1>6. CASE Startup \/ Top \/ Observe \/ Recover
  <2>1. CASE Startup \/ Top
    BY <2>1 DEF Startup, Top
  <2>2. CASE Observe \/ Recover
    BY <2>2 DEF Observe, Recover, Recovers
  <2> QED
    BY <1>6, <2>1, <2>2
<1>7. CASE ObserveSession
  BY <1>7 DEF ObserveSession, Readiness, ReadyPhase, Changed
<1>8. CASE Decide
  BY <1>8 DEF Decide, Due, EndTick
<1>9. CASE Refuse \/ Apply \/ Applied \/ ApplyFails
  <2>1. pending' \in BOOLEAN
    BY <1>9 DEF Refuse, Apply, Applied, ApplyFails
  <2> QED
    BY <1>9, <2>1 DEF Refuse, Apply, Applied, ApplyFails
<1>10. CASE Dispatch
  BY <1>10 DEF Dispatch
<1>11. CASE Release \/ Released
  BY <1>11 DEF Release, Released, EndTick
<1>12. CASE UpdateTick \/ InstallRefused
  BY <1>12 DEF UpdateTick, InstallRefused
<1>13. CASE Load \/ PublishView \/ Timeout
  BY <1>13 DEF Load, PublishView, Timeout, WindowOK
<1>14. CASE HandleCommand
  BY <1>14 DEF HandleCommand
<1>15. CASE HandleGame
  BY <1>15 DEF HandleGame
<1>16. CASE HandleFiles \/ HandleSelect
  BY <1>16 DEF HandleFiles, HandleSelect, GameRequests, FileActions
<1>17. CASE End
  BY <1>17 DEF End
<1>18. CASE Restart \/ UpdateDownloaded \/ GameChanges
  <2>1. CASE Restart
    BY <2>1 DEF Restart
  <2>2. CASE UpdateDownloaded
    BY <2>2 DEF UpdateDownloaded
  <2>3. CASE GameChanges
    BY <2>3 DEF GameChanges
  <2> QED
    BY <1>18, <2>1, <2>2, <2>3
<1>19. CASE UNCHANGED vars
  BY <1>19 DEF vars
<1> QED
  BY <1>1, <1>2, <1>3, <1>4, <1>5, <1>6, <1>7, <1>8, <1>9, <1>10, <1>11, <1>12, <1>13, <1>14,
     <1>15, <1>16, <1>17, <1>18, <1>19
     DEF Next, Main, Worker, User, Environment, ProcessEnds, Killed, InstallUpdate

\* So do revisions and observations.
LEMMA RevisionsStep == RevisionsOK /\ [Next]_vars => RevisionsOK'
<1> SUFFICES ASSUME RevisionsOK, [Next]_vars PROVE RevisionsOK'
  OBVIOUS
<1> USE DEF RevisionsOK, process, flags, core, main, session, tick, folder, world
<1>1. CASE Main \/ User
  BY <1>1 DEF Main, User, BeginGameRequest, Mark, Send, CloseDecided, Claim, Picked, Command,
     CloseRequested, Room
<1>2. CASE Startup \/ Top \/ Observe \/ Recover
  BY <1>2 DEF Startup, Top, Observe, Recover, Recovers
<1>3. CASE ObserveSession \/ Decide
  BY <1>3 DEF ObserveSession, Readiness, ReadyPhase, Changed, Decide, Due, EndTick
<1>4. CASE Refuse \/ Apply \/ Applied \/ ApplyFails \/ Dispatch
  BY <1>4 DEF Refuse, Apply, Applied, ApplyFails, Dispatch
<1>5. CASE Release \/ Released \/ UpdateTick \/ InstallRefused
  BY <1>5 DEF Release, Released, EndTick, UpdateTick, InstallRefused
<1>6. CASE Load \/ PublishView \/ Timeout
  BY <1>6 DEF Load, PublishView, Timeout
<1>7. CASE HandleCommand \/ HandleFiles
  BY <1>7 DEF HandleCommand, HandleFiles
<1>8. CASE HandleGame
  BY <1>8 DEF HandleGame
<1>9. CASE HandleSelect
  BY <1>9 DEF HandleSelect
<1>10. CASE End \/ Restart \/ UpdateDownloaded \/ GameChanges \/ UNCHANGED vars
  BY <1>10 DEF End, Restart, UpdateDownloaded, GameChanges, vars
<1> QED
  BY <1>1, <1>2, <1>3, <1>4, <1>5, <1>6, <1>7, <1>8, <1>9, <1>10
     DEF Next, Main, Worker, User, Environment, ProcessEnds, Killed, InstallUpdate

\* Every step keeps the types.
LEMMA TypeStep == TypeOK /\ MarkedInv /\ [Next]_vars => TypeOK'
  BY WindowStep, RequestStep, ChannelStep, WorkerStep, RevisionsStep DEF TypeOK

-----------------------------------------------------------------------------
\* The dialog is opened instead of a message being sent.
LEMMA MarkedStep == MarkedInv /\ [Next]_vars => MarkedInv'
<1> SUFFICES ASSUME MarkedInv, [Next]_vars PROVE MarkedInv'
  OBVIOUS
<1> USE DEF MarkedInv, process, flags, core, main, session, tick, folder, world
<1>1. CASE Main \/ User
  BY <1>1 DEF Main, User, BeginGameRequest, Mark, Send, CloseDecided, Claim, Picked, Command,
     CloseRequested, Room
<1>2. CASE Startup \/ Top \/ Observe \/ Recover
  BY <1>2 DEF Startup, Top, Observe, Recover, Recovers
<1>3. CASE ObserveSession \/ Decide
  BY <1>3 DEF ObserveSession, Readiness, ReadyPhase, Changed, Decide, Due, EndTick
<1>4. CASE Refuse \/ Apply \/ Applied \/ ApplyFails \/ Dispatch
  BY <1>4 DEF Refuse, Apply, Applied, ApplyFails, Dispatch
<1>5. CASE Release \/ Released \/ UpdateTick \/ InstallRefused
  BY <1>5 DEF Release, Released, EndTick, UpdateTick, InstallRefused
<1>6. CASE Load \/ PublishView \/ Timeout
  BY <1>6 DEF Load, PublishView, Timeout
<1>7. CASE HandleCommand \/ HandleFiles
  BY <1>7 DEF HandleCommand, HandleFiles
<1>8. CASE HandleGame
  BY <1>8 DEF HandleGame
<1>9. CASE HandleSelect
  BY <1>9 DEF HandleSelect
<1>10. CASE End \/ Restart \/ UpdateDownloaded \/ GameChanges \/ UNCHANGED vars
  BY <1>10 DEF End, Restart, UpdateDownloaded, GameChanges, vars
<1> QED
  BY <1>1, <1>2, <1>3, <1>4, <1>5, <1>6, <1>7, <1>8, <1>9, <1>10
     DEF Next, Main, Worker, User, Environment, ProcessEnds, Killed, InstallUpdate

\* The worker's job and its place fit.
LEMMA JobStep == JobInv /\ WorkerOK /\ [Next]_vars => JobInv'
<1> SUFFICES ASSUME JobInv, WorkerOK, [Next]_vars PROVE JobInv'
  OBVIOUS
<1> USE DEF JobInv, process, flags, core, main, session, tick, folder, world
<1>1. ASSUME NEW a \in Actions, Claim(a) PROVE JobInv'
  BY <1>1 DEF Claim
<1>2. CASE BeginGameRequest \/ Mark
  BY <1>2 DEF BeginGameRequest, Mark
<1>3. CASE Send
  BY <1>3 DEF Send, Room
<1>4. CASE Picked \/ Command
  BY <1>4 DEF Picked, Command, Room
<1>5. CASE CloseRequested \/ CloseDecided
  BY <1>5 DEF CloseRequested, CloseDecided
<1>6. CASE Startup \/ Top \/ Observe \/ Recover
  BY <1>6 DEF Startup, Top, Observe, Recover, Recovers
<1>7. CASE ObserveSession
  BY <1>7 DEF ObserveSession, Readiness, ReadyPhase, Changed
<1>8. CASE Decide
  BY <1>8 DEF Decide, Due, EndTick, WorkerOK
<1>9. CASE Refuse \/ Apply \/ Applied \/ ApplyFails
  BY <1>9 DEF Refuse, Apply, Applied, ApplyFails, WorkerOK
<1>10. CASE Dispatch
  BY <1>10 DEF Dispatch, WorkerOK
<1>11. CASE Release \/ Released
  BY <1>11 DEF Release, Released, EndTick, WorkerOK
<1>12. CASE UpdateTick \/ InstallRefused
  BY <1>12 DEF UpdateTick, InstallRefused, WorkerOK
<1>13. CASE Load \/ PublishView \/ Timeout
  BY <1>13 DEF Load, PublishView, Timeout
<1>14. CASE HandleCommand
  BY <1>14 DEF HandleCommand
<1>15. CASE HandleGame
  BY <1>15 DEF HandleGame, WorkerOK, GameRequests, FileActions
<1>16. CASE HandleFiles \/ HandleSelect
  BY <1>16 DEF HandleFiles, HandleSelect, WorkerOK, GameRequests, FileActions
<1>17. CASE End
  BY <1>17 DEF End
<1>18. CASE Restart \/ UpdateDownloaded \/ GameChanges
  BY <1>18 DEF Restart, UpdateDownloaded, GameChanges
<1>19. CASE UNCHANGED vars
  BY <1>19 DEF vars
<1> QED
  BY <1>1, <1>2, <1>3, <1>4, <1>5, <1>6, <1>7, <1>8, <1>9, <1>10, <1>11, <1>12, <1>13, <1>14,
     <1>15, <1>16, <1>17, <1>18, <1>19
     DEF Next, Main, Worker, User, Environment, ProcessEnds, Killed, InstallUpdate

\* No journal is opened while a launch waits for its process.
LEMMA RequestedStep == RequestedInv /\ [Next]_vars => RequestedInv'
<1> SUFFICES ASSUME RequestedInv, [Next]_vars PROVE RequestedInv'
  OBVIOUS
<1> USE DEF RequestedInv, process, flags, core, main, session, tick, folder, world
<1>1. CASE Main \/ User
  BY <1>1 DEF Main, User, BeginGameRequest, Mark, Send, CloseDecided, Claim, Picked, Command,
     CloseRequested, Room
<1>2. CASE Startup \/ Top \/ Observe \/ Recover
  BY <1>2 DEF Startup, Top, Observe, Recover, Recovers
<1>3. CASE ObserveSession \/ Decide
  BY <1>3 DEF ObserveSession, Readiness, ReadyPhase, Changed, Decide, Due, EndTick
<1>4. CASE Refuse \/ Apply \/ Applied \/ ApplyFails \/ Dispatch
  BY <1>4 DEF Refuse, Apply, Applied, ApplyFails, Dispatch
<1>5. CASE Release \/ Released \/ UpdateTick \/ InstallRefused
  BY <1>5 DEF Release, Released, EndTick, UpdateTick, InstallRefused
<1>6. CASE Load \/ PublishView \/ Timeout
  BY <1>6 DEF Load, PublishView, Timeout
<1>7. CASE HandleCommand \/ HandleFiles
  BY <1>7 DEF HandleCommand, HandleFiles
<1>8. CASE HandleGame
  BY <1>8 DEF HandleGame
<1>9. CASE HandleSelect
  BY <1>9 DEF HandleSelect
<1>10. CASE End \/ Restart \/ UpdateDownloaded \/ GameChanges \/ UNCHANGED vars
  BY <1>10 DEF End, Restart, UpdateDownloaded, GameChanges, vars
<1> QED
  BY <1>1, <1>2, <1>3, <1>4, <1>5, <1>6, <1>7, <1>8, <1>9, <1>10
     DEF Next, Main, Worker, User, Environment, ProcessEnds, Killed, InstallUpdate

\* A process begins with the claim taken and nothing open.
LEMMA StartStep == StartInv /\ ChannelOK /\ [Next]_vars => StartInv'
<1> SUFFICES ASSUME StartInv, ChannelOK, [Next]_vars PROVE StartInv'
  OBVIOUS
<1> USE DEF StartInv, process, flags, core, main, session, tick, folder, world
<1>1. ASSUME NEW a \in Actions, Claim(a) PROVE StartInv'
  BY <1>1 DEF Claim
<1>2. CASE BeginGameRequest \/ Mark
  BY <1>2 DEF BeginGameRequest, Mark
<1>3. CASE Send
  BY <1>3 DEF Send, Room
<1>4. CASE Picked \/ Command
  <2>1. CASE Picked
    BY <2>1, Sending DEF Picked, Room, ChannelOK, Requests, GameRequests, FileActions
  <2>2. CASE Command
    BY <2>2, Sending DEF Command, Room, ChannelOK, Requests, GameRequests, FileActions
  <2> QED
    BY <1>4, <2>1, <2>2
<1>5. CASE CloseRequested \/ CloseDecided
  BY <1>5 DEF CloseRequested, CloseDecided
<1>6. CASE Startup \/ Top \/ Observe \/ Recover
  BY <1>6 DEF Startup, Top, Observe, Recover, Recovers
<1>7. CASE ObserveSession
  BY <1>7 DEF ObserveSession, Readiness, ReadyPhase, Changed
<1>8. CASE Decide
  BY <1>8 DEF Decide, Due, EndTick
<1>9. CASE Refuse \/ Apply \/ Applied \/ ApplyFails
  BY <1>9 DEF Refuse, Apply, Applied, ApplyFails
<1>10. CASE Dispatch
  BY <1>10 DEF Dispatch
<1>11. CASE Release \/ Released
  BY <1>11 DEF Release, Released, EndTick
<1>12. CASE UpdateTick \/ InstallRefused
  BY <1>12 DEF UpdateTick, InstallRefused
<1>13. CASE Load \/ PublishView \/ Timeout
  BY <1>13 DEF Load, PublishView, Timeout
<1>14. CASE HandleCommand
  BY <1>14 DEF HandleCommand
<1>15. CASE HandleGame
  BY <1>15 DEF HandleGame
<1>16. CASE HandleFiles \/ HandleSelect
  BY <1>16 DEF HandleFiles, HandleSelect
<1>17. CASE End
  BY <1>17 DEF End
<1>18. CASE Restart \/ UpdateDownloaded \/ GameChanges
  BY <1>18 DEF Restart, UpdateDownloaded, GameChanges
<1>19. CASE UNCHANGED vars
  BY <1>19 DEF vars
<1> QED
  BY <1>1, <1>2, <1>3, <1>4, <1>5, <1>6, <1>7, <1>8, <1>9, <1>10, <1>11, <1>12, <1>13, <1>14,
     <1>15, <1>16, <1>17, <1>18, <1>19
     DEF Next, Main, Worker, User, Environment, ProcessEnds, Killed, InstallUpdate

\* The reason is in the main thread's hands, in the channel or with the worker.
LEMMA Reasons ==
  WritingHasReason <=>
    (writing => \/ ui = "marked" /\ asked \in FileActions
                \/ Holding(queue, FileActions)
                \/ job \in FileActions \cup {"auto", "install"} /\ pc # "released")
  BY DEF WritingHasReason, WritesAhead, Holding

\* The writing flag keeps a reason.
LEMMA WritingStep == WritingHasReason /\ TypeOK /\ JobInv /\ MarkedInv /\ [Next]_vars =>
     WritingHasReason'
<1> SUFFICES ASSUME WritingHasReason, TypeOK, JobInv, MarkedInv, [Next]_vars PROVE
     WritingHasReason'
  OBVIOUS
<1> USE DEF WritingHasReason, WritesAhead, process, flags, core, main, session, tick, folder, world
<1>1. ASSUME NEW a \in Actions, Claim(a) PROVE WritingHasReason'
  BY <1>1 DEF Claim
<1>2. CASE BeginGameRequest \/ Mark
  BY <1>2 DEF BeginGameRequest, Mark
<1>3. CASE Send
  <2>1. CASE queue' = Append(queue, asked) /\ UNCHANGED flags
    <3>1. asked \in Requests
      BY <1>3 DEF Send, MarkedInv, TypeOK, RequestOK, Requests, GameRequests, FileActions
    <3>2. Holding(queue', FileActions) <=> Holding(queue, FileActions) \/ asked \in FileActions
      BY <2>1, <3>1, SendingOf DEF TypeOK, ChannelOK, Requests
    <3> QED
      BY <1>3, <2>1, <3>2, Reasons DEF Send, Holding
  <2>2. CASE writing' = FALSE
    BY <2>2
  <2> QED
    BY <1>3, <2>1, <2>2 DEF Send
<1>4. CASE Picked \/ Command
  <2>1. PICK r \in {"Picked", "Command"} : queue' = Append(queue, r) \/ queue' = queue
    BY <1>4 DEF Picked, Command
  <2>2. Holding(queue, FileActions) => Holding(queue', FileActions)
    <3>1. r \in Requests /\ queue \in Seq(Requests)
      BY DEF TypeOK, ChannelOK, Requests, GameRequests
    <3>2. Holding(queue, FileActions) => Holding(Append(queue, r), FileActions)
      BY <3>1, SendingOf
    <3> QED
      BY <2>1, <3>2
  <2> QED
    BY <1>4, <2>2, Reasons DEF Picked, Command, Holding
<1>5. CASE CloseRequested \/ CloseDecided
  BY <1>5 DEF CloseRequested, CloseDecided
<1>6. CASE Startup \/ Top \/ Observe \/ Recover
  BY <1>6 DEF Startup, Top, Observe, Recover, Recovers
<1>7. CASE ObserveSession
  BY <1>7 DEF ObserveSession, Readiness, ReadyPhase, Changed
<1>8. CASE Decide
  BY <1>8 DEF Decide, Due, EndTick, JobInv
<1>9. CASE Refuse \/ Apply \/ Applied \/ ApplyFails
  BY <1>9 DEF Refuse, Apply, Applied, ApplyFails, JobInv
<1>10. CASE Dispatch
  BY <1>10 DEF Dispatch, JobInv
<1>11. CASE Release \/ Released
  BY <1>11 DEF Release, Released, EndTick, JobInv
<1>12. CASE UpdateTick \/ InstallRefused
  BY <1>12 DEF UpdateTick, InstallRefused, JobInv
<1>13. CASE Load \/ PublishView \/ Timeout
  BY <1>13 DEF Load, PublishView, Timeout
<1>14. CASE HandleCommand
  <2>1. Holding(queue, FileActions) => Holding(queue', FileActions)
    BY <1>14, ReceivingOf DEF HandleCommand, TypeOK, ChannelOK, Requests, FileActions
  <2> QED
    BY <1>14, <2>1, Reasons DEF HandleCommand, Holding
<1>15. CASE HandleGame
  <2>1. Holding(queue, FileActions) => Holding(queue', FileActions) \/ job' \in FileActions
    BY <1>15, ReceivingOf DEF HandleGame, TypeOK, ChannelOK, Requests
  <2>2. job = None /\ pc' = "handle" /\ UNCHANGED <<writing, ui, asked>>
    BY <1>15 DEF HandleGame, JobInv
  <2> QED
    BY <2>1, <2>2, Reasons DEF Holding, GameRequests, FileActions
<1>16. CASE HandleFiles \/ HandleSelect
  BY <1>16 DEF HandleFiles, HandleSelect, JobInv, FileActions
<1>17. CASE End
  BY <1>17 DEF End
<1>18. CASE Restart \/ UpdateDownloaded \/ GameChanges
  BY <1>18 DEF Restart, UpdateDownloaded, GameChanges
<1>19. CASE UNCHANGED vars
  BY <1>19 DEF vars
<1> QED
  BY <1>1, <1>2, <1>3, <1>4, <1>5, <1>6, <1>7, <1>8, <1>9, <1>10, <1>11, <1>12, <1>13, <1>14,
     <1>15, <1>16, <1>17, <1>18, <1>19
     DEF Next, Main, Worker, User, Environment, ProcessEnds, Killed, InstallUpdate

-----------------------------------------------------------------------------
AtMain == ui \in {"claimed", "accepted", "marked"}
AtWorker == job \in GameRequests /\ pc # "released"
InChannel == Holding(queue, GameRequests)

\* OneGameRequest, spelled out.
Counted ==
  /\ busy <=> AtMain \/ picker \/ AtWorker \/ InChannel
  /\ AtMain => ~picker /\ ~AtWorker /\ ~InChannel
  /\ picker => ~AtWorker /\ ~InChannel
  /\ AtWorker => ~InChannel
  /\ Single(queue, GameRequests)

CountedInv == Listening /\ pc # "start" => Counted

\* It says the same as the set of requests.
LEMMA Counting == CountedInv <=> OneGameRequest
<1>1. <<"main", 0>> \in OpenRequests <=> AtMain
  BY DEF OpenRequests, Holders, Holds, AtMain
<1>2. <<"dialog", 0>> \in OpenRequests <=> picker
  BY DEF OpenRequests, Holders, Holds
<1>3. <<"worker", 0>> \in OpenRequests <=> AtWorker
  BY DEF OpenRequests, Holders, Holds, AtWorker
<1>4. \A i \in 1..Len(queue) : <<"channel", i>> \in OpenRequests <=> queue[i] \in GameRequests
  BY DEF OpenRequests, Holders, Holds
<1>5. \A h \in OpenRequests :
        \/ h \in {<<"main", 0>>, <<"dialog", 0>>, <<"worker", 0>>}
        \/ \E i \in 1..Len(queue) : h = <<"channel", i>>
  BY DEF OpenRequests, Holders
<1>6. (busy <=> OpenRequests # {}) <=> (busy <=> AtMain \/ picker \/ AtWorker \/ InChannel)
  BY <1>1, <1>2, <1>3, <1>4, <1>5 DEF InChannel, Holding
<1>7. \A i, j : <<"channel", i>> = <<"channel", j>> => i = j
  OBVIOUS
<1>8. \A i : /\ <<"channel", i>> # <<"main", 0>> /\ <<"channel", i>> # <<"dialog", 0>>
             /\ <<"channel", i>> # <<"worker", 0>>
  OBVIOUS
<1>9. /\ <<"main", 0>> # <<"dialog", 0>> /\ <<"main", 0>> # <<"worker", 0>>
      /\ <<"dialog", 0>> # <<"worker", 0>>
  OBVIOUS
<1>10. ASSUME \A g, h \in OpenRequests : g = h
       PROVE  /\ AtMain => ~picker /\ ~AtWorker /\ ~InChannel
              /\ picker => ~AtWorker /\ ~InChannel
              /\ AtWorker => ~InChannel
              /\ Single(queue, GameRequests)
  <2>1. AtMain => ~picker /\ ~AtWorker
    BY <1>1, <1>2, <1>3, <1>9, <1>10
  <2>2. picker => ~AtWorker
    BY <1>2, <1>3, <1>9, <1>10
  <2>3. InChannel => ~AtMain /\ ~picker /\ ~AtWorker
    BY <1>1, <1>2, <1>3, <1>4, <1>8, <1>10 DEF InChannel, Holding
  <2>4. Single(queue, GameRequests)
    <3> SUFFICES ASSUME NEW i \in 1..Len(queue), NEW j \in 1..Len(queue),
                        queue[i] \in GameRequests, queue[j] \in GameRequests
                 PROVE  i = j
      BY DEF Single
    <3>1. <<"channel", i>> \in OpenRequests /\ <<"channel", j>> \in OpenRequests
      BY <1>4
    <3>2. <<"channel", i>> = <<"channel", j>>
      BY <1>10, <3>1
    <3> QED
      BY <3>2
  <2> QED
    BY <2>1, <2>2, <2>3, <2>4
<1>11. ASSUME AtMain => ~picker /\ ~AtWorker /\ ~InChannel,
              picker => ~AtWorker /\ ~InChannel, AtWorker => ~InChannel,
              Single(queue, GameRequests), NEW g \in OpenRequests, NEW h \in OpenRequests
       PROVE  g = h
  <2>1. CASE InChannel
    <3>1. \A x \in OpenRequests : \E i \in 1..Len(queue) : x = <<"channel", i>>
      BY <1>1, <1>2, <1>3, <1>5, <1>11, <2>1
    <3>2. PICK i \in 1..Len(queue), j \in 1..Len(queue) :
            g = <<"channel", i>> /\ h = <<"channel", j>>
      BY <1>11, <3>1
    <3>3. queue[i] \in GameRequests /\ queue[j] \in GameRequests
      BY <1>4, <1>11, <3>2
    <3> QED
      BY <1>11, <3>2, <3>3 DEF Single
  <2>2. CASE ~InChannel
    <3>1. \A x \in OpenRequests : x \in {<<"main", 0>>, <<"dialog", 0>>, <<"worker", 0>>}
      BY <1>4, <1>5, <2>2 DEF InChannel, Holding
    <3> QED
      BY <1>1, <1>2, <1>3, <1>11, <3>1
  <2> QED
    BY <2>1, <2>2
<1> QED
  BY <1>6, <1>10, <1>11 DEF CountedInv, Counted, OneGameRequest

\* The claim stays with exactly one request.
LEMMA CountedStep == CountedInv /\ TypeOK /\ JobInv /\ StartInv /\ MarkedInv /\ [Next]_vars
     => CountedInv'
<1> SUFFICES ASSUME CountedInv, TypeOK, JobInv, StartInv, MarkedInv, [Next]_vars PROVE
     CountedInv'
  OBVIOUS
<1> USE DEF CountedInv, Counted, AtMain, AtWorker, InChannel, Listening, process, flags,
     core, main, session, tick, folder, world
<1>1. ASSUME NEW a \in Actions, Claim(a) PROVE CountedInv'
  BY <1>1 DEF Claim
<1>2. CASE BeginGameRequest \/ Mark
  BY <1>2 DEF BeginGameRequest, Mark
<1>3. CASE Send
  <2>0. asked \in GameRequests /\ asked \in Requests /\ queue \in Seq(Requests)
    BY <1>3 DEF Send, MarkedInv, TypeOK, RequestOK, ChannelOK, Requests, GameRequests,
     FileActions
  <2>1. CASE queue' = Append(queue, asked) /\ UNCHANGED flags
    <3>1. Holding(queue', GameRequests)
      BY <2>0, <2>1, SendingOf
    <3>2. Single(queue, GameRequests) /\ ~Holding(queue, GameRequests)
            => Single(queue', GameRequests)
      BY <2>0, <2>1, SendingOne
    <3> QED
      BY <1>3, <2>1, <3>1, <3>2 DEF Send
  <2>2. CASE busy' = FALSE /\ queue' = queue
    BY <1>3, <2>2 DEF Send
  <2> QED
    BY <1>3, <2>1, <2>2 DEF Send
<1>4. CASE Picked \/ Command
  <2>0. queue \in Seq(Requests) /\ "Command" \notin GameRequests /\ "Picked" \in GameRequests
        /\ {"Picked", "Command"} \subseteq Requests
    BY DEF TypeOK, ChannelOK, Requests, GameRequests, FileActions
  <2>1. CASE Command
    <3>1. (Holding(queue', GameRequests) <=> Holding(queue, GameRequests))
          /\ (Single(queue, GameRequests) => Single(queue', GameRequests))
      BY <2>0, <2>1, SendingOf, SendingOne DEF Command
    <3> QED
      BY <2>1, <3>1 DEF Command
  <2>2. CASE Picked
    <3>1. CASE queue' = Append(queue, "Picked")
      <4>1. Holding(queue', GameRequests)
        BY <2>0, <3>1, SendingOf
      <4>2. Single(queue, GameRequests) /\ ~Holding(queue, GameRequests)
              => Single(queue', GameRequests)
        BY <2>0, <3>1, SendingOne
      <4> QED
        BY <2>2, <3>1, <4>1, <4>2 DEF Picked
    <3>2. CASE ~Listening
      BY <2>2, <3>2 DEF Picked
    <3> QED
      BY <2>2, <3>1, <3>2 DEF Picked
  <2> QED
    BY <1>4, <2>1, <2>2
<1>5. CASE CloseRequested \/ CloseDecided
  BY <1>5 DEF CloseRequested, CloseDecided
<1>6. CASE Startup \/ Top \/ Observe \/ Recover
  BY <1>6 DEF Startup, Top, Observe, Recover, Recovers, StartInv, JobInv, Holding, Single
<1>7. CASE ObserveSession
  BY <1>7 DEF ObserveSession, Readiness, ReadyPhase, Changed
<1>8. CASE Decide
  BY <1>8 DEF Decide, Due, EndTick, JobInv, GameRequests, FileActions
<1>9. CASE Refuse \/ Apply \/ Applied \/ ApplyFails
  BY <1>9 DEF Refuse, Apply, Applied, ApplyFails, JobInv
<1>10. CASE Dispatch
  BY <1>10 DEF Dispatch, JobInv
<1>11. CASE Release \/ Released
  BY <1>11 DEF Release, Released, EndTick, TypeOK, WorkerOK, JobInv, GameRequests, FileActions
<1>12. CASE UpdateTick \/ InstallRefused
  BY <1>12 DEF UpdateTick, InstallRefused, JobInv, GameRequests, FileActions
<1>13. CASE Load \/ PublishView \/ Timeout
  BY <1>13 DEF Load, PublishView, Timeout
<1>14. CASE HandleCommand
  <2>0. queue \in Seq(Requests) /\ "Command" \notin GameRequests
    BY DEF TypeOK, ChannelOK, Requests, GameRequests, FileActions
  <2>1. (Holding(queue', GameRequests) <=> Holding(queue, GameRequests))
        /\ (Single(queue, GameRequests) => Single(queue', GameRequests))
    BY <1>14, <2>0, ReceivingOf, ReceivingOne DEF HandleCommand
  <2> QED
    BY <1>14, <2>1 DEF HandleCommand
<1>15. CASE HandleGame
  <2>0. queue \in Seq(Requests) /\ queue # <<>> /\ Head(queue) \in GameRequests
        /\ queue' = Tail(queue)
    BY <1>15 DEF HandleGame, TypeOK, ChannelOK, Requests
  <2>1. Holding(queue, GameRequests)
    BY <2>0, ReceivingOf
  <2>2. Single(queue, GameRequests)
          => Single(queue', GameRequests) /\ ~Holding(queue', GameRequests)
    BY <2>0, ReceivingOne
  <2> QED
    BY <1>15, <2>0, <2>1, <2>2 DEF HandleGame
<1>16. CASE HandleFiles \/ HandleSelect
  BY <1>16 DEF HandleFiles, HandleSelect, JobInv, GameRequests, FileActions
<1>17. CASE End
  BY <1>17 DEF End
<1>18. CASE Restart \/ UpdateDownloaded \/ GameChanges
  BY <1>18 DEF Restart, UpdateDownloaded, GameChanges, StartInv, JobInv
<1>19. CASE UNCHANGED vars
  BY <1>19 DEF vars
<1> QED
  BY <1>1, <1>2, <1>3, <1>4, <1>5, <1>6, <1>7, <1>8, <1>9, <1>10, <1>11, <1>12, <1>13, <1>14,
     <1>15, <1>16, <1>17, <1>18, <1>19
     DEF Next, Main, Worker, User, Environment, ProcessEnds, Killed, InstallUpdate

-----------------------------------------------------------------------------
\* The invariant holds initially.
LEMMA InvInit == Init => IInv
<1> SUFFICES ASSUME Init PROVE IInv
  OBVIOUS
<1>1. Len(queue) = 0
  BY EmptySeq DEF Init
<1>2. JobInv /\ MarkedInv /\ RequestedInv /\ WritingHasReason
  BY DEF Init, JobInv, MarkedInv, RequestedInv, WritingHasReason
<1>3. StartInv
  BY <1>1 DEF Init, StartInv
<1>4. OneGameRequest
  BY DEF Init, OneGameRequest
<1> QED
  BY <1>2, <1>3, <1>4, TypeInit DEF IInv

\* The invariant is inductive.
LEMMA InvStep == IInv /\ [Next]_vars => IInv'
<1> SUFFICES ASSUME IInv, [Next]_vars PROVE IInv'
  OBVIOUS
<1>1. TypeOK' /\ MarkedInv' /\ RequestedInv'
  BY TypeStep, MarkedStep, RequestedStep DEF IInv
<1>2. JobInv' /\ StartInv' /\ WritingHasReason'
  BY JobStep, StartStep, WritingStep DEF IInv, TypeOK
<1>3. CountedInv'
  BY CountedStep, Counting DEF IInv
<1>4. (CountedInv <=> OneGameRequest)'
  BY Counting, PTL
<1> QED
  BY <1>1, <1>2, <1>3, <1>4 DEF IInv

\* The invariant holds of every behaviour of the service.
THEOREM Invariance == Spec => []IInv
  BY InvInit, InvStep, PTL DEF Spec

\* Type correctness.
THEOREM TypeCorrect == Spec => []TypeOK
<1>1. IInv => TypeOK
  BY DEF IInv
<1> QED
  BY <1>1, Invariance, PTL

\* A message that is sent or received takes no work from what is ahead.
Waiting == Holding(queue, FileActions)
Working == job \in FileActions \cup {"auto", "install"} /\ pc # "released"

\* What is ahead, by these names.
LEMMA Ahead == WritesAhead <=> (ui = "marked" /\ asked \in FileActions) \/ Waiting \/ Working
  BY DEF WritesAhead, Waiting, Working, Holding

\* What it means that a step keeps the flag.
Kept == WritesAhead' /\ Listening' => writing' \/ (WritesAhead /\ ~writing) \/ TakesFlag

\* Only the end of automatic work, or a refused request meanwhile, takes the flag from work
\* that is ahead (worker.rs:403, game_service.rs:299).
LEMMA FlagStep == IInv /\ [Next]_vars => Kept
<1> SUFFICES ASSUME IInv, [Next]_vars, WritesAhead', Listening', ~writing',
                    ~(WritesAhead /\ ~writing)
             PROVE  TakesFlag
  BY DEF Kept
<1> USE DEF process, flags, core, main, session, tick, folder, world
<1>0. /\ TypeOK /\ JobInv /\ StartInv /\ MarkedInv /\ CountedInv
      /\ WritingHasReason /\ queue \in Seq(Requests)
  BY Counting DEF IInv, TypeOK, ChannelOK, Requests
<1>a. writing <=> WritesAhead
  BY <1>0 DEF WritingHasReason, TypeOK, WindowOK
<1>b. (WritesAhead <=> (ui = "marked" /\ asked \in FileActions) \/ Waiting \/ Working)
      /\ (WritesAhead' <=> ((ui = "marked" /\ asked \in FileActions) \/ Waiting \/ Working)')
  BY Ahead, PTL
<1>1. ASSUME NEW a \in Actions, Claim(a) PROVE FALSE
  BY <1>a, <1>b, <1>1 DEF Claim, Waiting, Working
<1>2. CASE BeginGameRequest \/ Mark
  BY <1>2, <1>a, <1>b DEF BeginGameRequest, Mark, Waiting, Working
<1>3. CASE Send
  <2>1. CASE queue' = Append(queue, asked) /\ UNCHANGED flags
    <3>1. Waiting' <=> Waiting \/ asked \in FileActions
      BY <1>0, <1>3, <2>1, SendingOf
         DEF Send, MarkedInv, TypeOK, RequestOK, Requests, GameRequests, FileActions, Waiting
    <3> QED
      BY <1>3, <1>a, <1>b, <2>1, <3>1 DEF Send, Working
  <2>2. CASE queue' = queue
    <3>1. ui = "marked" /\ Listening /\ pc # "start" /\ UNCHANGED <<job, pc>> /\ ui' = "free"
      BY <1>0, <1>3, <2>2 DEF Send, Listening, StartInv
    <3>2. ~Waiting /\ (Working => job \in {"auto", "install"})
      <4>1. ~InChannel /\ ~AtWorker
        BY <1>0, <3>1 DEF CountedInv, Counted, AtMain
      <4> QED
        BY <4>1 DEF InChannel, Waiting, Holding, AtWorker, Working, GameRequests
    <3> QED
      BY <1>b, <2>2, <3>1, <3>2 DEF Waiting, Working, TakesFlag
  <2> QED
    BY <1>3, <2>1, <2>2 DEF Send
<1>4. CASE Picked \/ Command
  <2>1. PICK r \in {"Picked", "Command"} : queue' = Append(queue, r) \/ queue' = queue
    BY <1>4 DEF Picked, Command
  <2>2. Waiting' <=> Waiting
    <3>1. r \in Requests /\ r \notin FileActions
      BY DEF Requests, GameRequests, FileActions
    <3>2. Holding(Append(queue, r), FileActions) <=> Holding(queue, FileActions)
      BY <1>0, <3>1, SendingOf
    <3> QED
      BY <2>1, <3>2 DEF Waiting
  <2> QED
    BY <1>4, <1>a, <1>b, <2>2 DEF Picked, Command, Working
<1>5. CASE CloseRequested \/ CloseDecided
  BY <1>5, <1>a, <1>b DEF CloseRequested, CloseDecided, Waiting, Working
<1>6. CASE Startup \/ Top \/ Observe \/ Recover
  BY <1>6, <1>a, <1>b DEF Startup, Top, Observe, Recover, Recovers, Waiting, Working
<1>7. CASE ObserveSession
  BY <1>7, <1>a, <1>b DEF ObserveSession, Waiting, Working
<1>8. CASE Decide
  BY <1>8, <1>a, <1>b DEF Decide, EndTick, Waiting, Working
<1>9. CASE Refuse \/ Apply \/ Applied \/ ApplyFails
  BY <1>9, <1>a, <1>b DEF Refuse, Apply, Applied, ApplyFails, Waiting, Working
<1>10. CASE Dispatch
  BY <1>10, <1>a, <1>b DEF Dispatch, Waiting, Working
<1>11. CASE Release
  <2>1. CASE job \in {"auto", "install"}
    BY <1>11, <2>1 DEF Release, TakesFlag
  <2>2. CASE job \notin {"auto", "install"}
    <3>1. AtWorker /\ Listening /\ pc # "start"
      BY <1>0, <1>11, <2>2 DEF Release, JobInv, AtWorker, Listening, GameRequests
    <3>2. ~AtMain /\ ~InChannel
      BY <1>0, <3>1 DEF CountedInv, Counted
    <3>3. ~Waiting
      BY <3>2 DEF InChannel, Waiting, Holding, GameRequests
    <3> QED
      BY <1>11, <1>b, <3>2, <3>3 DEF Release, AtMain, Waiting, Working
  <2> QED
    BY <2>1, <2>2
<1>12. CASE Released
  BY <1>12, <1>a, <1>b, NoneAssumption DEF Released, EndTick, Waiting, Working, GameRequests
<1>13. CASE UpdateTick \/ InstallRefused
  BY <1>13, <1>a, <1>b DEF UpdateTick, InstallRefused, Waiting, Working
<1>14. CASE Load \/ PublishView \/ Timeout
  BY <1>14, <1>a, <1>b DEF Load, PublishView, Timeout, Waiting, Working
<1>15. CASE HandleCommand
  <2>1. Waiting' <=> Waiting
    BY <1>0, <1>15, ReceivingOf DEF HandleCommand, FileActions, Waiting
  <2> QED
    BY <1>15, <1>a, <1>b, <2>1 DEF HandleCommand, Working
<1>16. CASE HandleGame
  <2>1. Waiting <=> Waiting' \/ job' \in FileActions
    BY <1>0, <1>16, ReceivingOf DEF HandleGame, Waiting
  <2>2. job' \in GameRequests /\ UNCHANGED <<writing, ui, asked>>
    BY <1>16 DEF HandleGame
  <2> QED
    BY <1>a, <1>b, <2>1, <2>2 DEF Working, GameRequests, FileActions
<1>17. CASE HandleFiles \/ HandleSelect
  BY <1>17, <1>a, <1>b DEF HandleFiles, HandleSelect, Waiting, Working, GameRequests, FileActions
<1>18. CASE End
  BY <1>18 DEF End, Listening
<1>19. CASE Restart
  <2>1. ~Waiting
    BY <1>0, <1>19 DEF Restart, StartInv, Waiting, Holding, GameRequests
  <2> QED
    BY <1>0, <1>19, <1>b, <2>1 DEF Restart, StartInv, JobInv, Waiting, Working
<1>20. CASE UpdateDownloaded \/ GameChanges
  BY <1>20, <1>a, <1>b DEF UpdateDownloaded, GameChanges, Waiting, Working
<1>21. CASE UNCHANGED vars
  BY <1>21, <1>a, <1>b DEF vars, Waiting, Working
<1> QED
  BY <1>1, <1>2, <1>3, <1>4, <1>5, <1>6, <1>7, <1>8, <1>9, <1>10, <1>11, <1>12, <1>13, <1>14,
     <1>15, <1>16, <1>17, <1>18, <1>19, <1>20, <1>21
     DEF Next, Main, Worker, User, Environment, ProcessEnds, Killed, InstallUpdate

\* The flags of the two threads, for every size of the channel: the claim is held by exactly
\* one open request, the window is kept open for a reason, and work that is ahead has the flag
\* unless the end of an automatic preparation or update, or a refused request, took it
\* (game_service.rs:249, worker.rs:403).
THEOREM FlagsTrue == Spec => FlagsAreTrue
<1>1. IInv => OneGameRequest /\ WritingHasReason
  BY DEF IInv
<1>2. IInv /\ [Next]_vars =>
        [WritesAhead' /\ Listening' => writing' \/ (WritesAhead /\ ~writing) \/ TakesFlag]_vars
  BY FlagStep DEF Kept
<1> QED
  BY <1>1, <1>2, Invariance, PTL DEF Spec, FlagsAreTrue, FlagIsKept

\* Folder and deployed setup only change in the steps of a preparation, and none runs while
\* a launch waits (requests.rs:204).
LEMMA FolderSteps ==
  IInv /\ [Next]_vars /\ requested /\ requested' => UNCHANGED folder
<1> SUFFICES ASSUME IInv, [Next]_vars, requested, requested' PROVE UNCHANGED folder
  OBVIOUS
<1>1. pending = FALSE /\ pc \notin {"prepare", "applying", "applied"}
  BY DEF IInv, RequestedInv, TypeOK, WorkerOK
<1> USE DEF process, flags, core, main, session, tick, folder, world
<1>2. CASE Main \/ User
  BY <1>2 DEF Main, User, BeginGameRequest, Mark, Send, CloseDecided, Claim, Picked, Command,
     CloseRequested
<1>3. CASE Refuse \/ Apply \/ Applied \/ ApplyFails
  BY <1>1, <1>3 DEF Refuse, Apply, Applied, ApplyFails
<1>4. CASE Startup \/ Top \/ Observe \/ Recover \/ ObserveSession \/ Decide
  BY <1>1, <1>4 DEF Startup, Top, Observe, Recover, ObserveSession, Decide
<1>5. CASE Dispatch \/ Release \/ Released \/ UpdateTick \/ InstallRefused
  BY <1>5 DEF Dispatch, Release, Released, UpdateTick, InstallRefused
<1>6. CASE Load \/ PublishView \/ Timeout
  BY <1>6 DEF Load, PublishView, Timeout
<1>7. CASE HandleCommand \/ HandleGame \/ HandleFiles \/ HandleSelect
  BY <1>7 DEF HandleCommand, HandleGame, HandleFiles, HandleSelect
<1>8. CASE End \/ Restart \/ UpdateDownloaded \/ GameChanges \/ UNCHANGED vars
  BY <1>8 DEF End, Restart, UpdateDownloaded, GameChanges, vars
<1> QED
  BY <1>2, <1>3, <1>4, <1>5, <1>6, <1>7, <1>8
     DEF Next, Worker, Environment, ProcessEnds, Killed, InstallUpdate

\* While a launch waits for its process nothing changes the setup that was launched, for
\* any number of edits and requests (requests.rs:204).
THEOREM LaunchedStays == Spec => LaunchedSetupStays
<1>1. IInv /\ [Next]_vars => [requested /\ requested' => UNCHANGED folder]_vars
  BY FolderSteps
<1> QED
  BY <1>1, Invariance, PTL DEF Spec, LaunchedSetupStays
=============================================================================
