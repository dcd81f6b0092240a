--------------------------- MODULE RegistryProofs ---------------------------
(* The application's dealings with the website and the registry: what the    *)
(* player's session and the transfer it pays for guarantee (first part,      *)
(* OnlineDownload), and what the saved trust of the registry guarantees for  *)
(* every set of documents the registry or a thief of its keys could sign     *)
(* (second part, RegistryTrust). The two components share no state: each     *)
(* theorem is about one of them.                                             *)
EXTENDS OnlineDownload, RegistryTrust, TLAPS

USE SessionAssumption, TransferAssumption

Wishes == {"restore", "check", "start", "cancel", "signOut"}

\* What the player's last action may still be asking the service.
Asks(wish) ==
  CASE wish = "restore" -> {"restore"}
    [] wish = "check"   -> {"inspect"}
    [] wish = "start"   -> {"start", "poll", "confirm"}
    [] wish = "cancel"  -> {"cancel"}
    [] OTHER            -> {"signOut"}

\* The bound on the player's actions bounds the channels, too; nothing below rests on that.
AnyCommand == [kind : Kinds, gen : Nat, step : Steps, chan : Nat, answer : Answers, token : Tokens \cup {None}]

SessionTypes ==
  /\ calls \in [Calls -> AnyCommand \cup {None}]
  /\ {pending, current, generation, timer} \subseteq Nat
  /\ over \subseteq Nat
  /\ credential \in Tokens \cup {None} /\ saved \in Tokens \cup {None}
  /\ view \in Views
  /\ wanted \in Wishes

\* Nothing is left to restore a session from, and no challenge that may become one.
Forgotten == saved = None /\ credential = None /\ pending = 0

\* The channels that are set already or will be by the next stop.
Reach == stopped \cup {current}

Said(c) == calls[c].step = "network" \/ (calls[c].step = "answered" /\ calls[c].answer = "done")

\* What is shown while a command about the player's last action is under way.
Under(kind) ==
  CASE kind = "restore" -> {"checking"}
    [] kind \in {"inspect", "signOut"} -> {"signedIn"}
    [] kind = "start"   -> {"signedOut"}
    [] kind \in {"poll", "confirm"} -> {"waiting"}
    [] OTHER            -> Statuses

\* What a command under way may rely on.
CommandInv(c) ==
  calls[c] # None =>
    /\ calls[c].gen <= generation
    /\ calls[c].kind = "receipt" => calls[c].gen = 0
    /\ calls[c].gen = generation => calls[c].kind \in Asks(wanted)
    /\ calls[c].gen = generation => view.status \in Under(calls[c].kind)
    /\ calls[c].kind = "start" => calls[c].gen = generation /\ view.status = "signedOut" /\ view.busy
    /\ calls[c].kind = "start" /\ calls[c].step # "answered" =>
         calls[c].gen \notin over /\ pending # calls[c].gen
    /\ calls[c].kind = "poll" /\ calls[c].step = "network" => pending # 0
    /\ calls[c].kind = "signOut" /\ calls[c].gen = generation /\ Said(c) => Forgotten
    /\ calls[c].step = "network" \/ (calls[c].kind = "receipt" /\ calls[c].step # "sent") =>
         calls[c].chan \in Reach

\* One command holds the lock, and one is about the player's last action.
Apart ==
  /\ \A c, d \in Calls : At(c, "network") /\ At(d, "network") => c = d
  /\ \A c, d \in Calls :
       calls[c] # None /\ calls[d] # None /\ calls[c].gen = generation /\ calls[d].gen = generation => c = d
  /\ timer = generation =>
       /\ wanted = "start" /\ view.status = "waiting"
       /\ \A c \in Calls : calls[c] # None => calls[c].gen # generation

\* Challenges and attempts are counted by the player's actions.
Counted ==
  /\ generation >= 1 /\ timer <= generation /\ pending <= generation
  /\ \A g \in over : g <= generation
  /\ pending # 0 => pending \notin over

Gone == wanted = "signOut" /\ view.status = "signedOut" => Forgotten

HeldReached == held # None => held.chan \in Reach

SessionInv ==
  /\ SessionTypes /\ CredentialIsSaved /\ Gone /\ HeldReached /\ Counted /\ Apart
  /\ \A c \in Calls : CommandInv(c)

TransferInv ==
  /\ phase # "done" => outcome = "none"
  /\ phase \in {"verify", "confirm"} => ~behind
  /\ phase = "confirm" => file = Transfer!Approved
  /\ VerifiedIsApproved

IInv == SessionInv /\ TransferInv /\ (download # None => download.chan \in Reach)

(***************************************************************************)
(* Commands.                                                               *)
(***************************************************************************)
LEMMA CommandType ==
  ASSUME SessionTypes, NEW c \in Calls, calls[c] # None
  PROVE  calls[c] \in AnyCommand
BY DEF SessionTypes

LEMMA NewType ==
  ASSUME NEW kind \in Kinds, NEW gen \in Nat
  PROVE  /\ New(kind, gen) \in AnyCommand
         /\ New(kind, gen).kind = kind /\ New(kind, gen).gen = gen
         /\ New(kind, gen).step \in {"sent", "ready"}
         /\ kind = "receipt" => New(kind, gen).step = "sent"
BY DEF New, AnyCommand, Steps, Answers

\* A command that is answered.
LEMMA AnsweredEffect ==
  ASSUME SessionTypes, NEW c \in Calls, calls[c] # None,
         NEW answer \in Answers, NEW token \in Tokens \cup {None}, Answered(c, answer, token)
  PROVE  \E r \in AnyCommand :
           /\ calls' = [calls EXCEPT ![c] = r]
           /\ r.kind = calls[c].kind /\ r.gen = calls[c].gen /\ r.chan = calls[c].chan
           /\ r.step = "answered" /\ r.answer = answer
<1> DEFINE r == [calls[c] EXCEPT !.step = "answered", !.answer = answer, !.token = token]
<1>1. calls[c] \in AnyCommand
  BY CommandType
<1>2. /\ r \in AnyCommand /\ r.kind = calls[c].kind /\ r.gen = calls[c].gen /\ r.chan = calls[c].chan
      /\ r.step = "answered" /\ r.answer = answer
  BY <1>1 DEF AnyCommand, Steps
<1>3. calls' = [calls EXCEPT ![c] = r]
  BY <1>1 DEF Answered, SessionTypes, AnyCommand
<1> QED
  BY <1>2, <1>3

\* A command whose request goes out, with a channel that a stop will reach.
LEMMA RequestEffect ==
  ASSUME SessionInv, NEW c \in Calls, calls[c] # None, calls[c].step = "ready",
         NEW token \in Tokens \cup {None}, Requests(c, token), UNCHANGED stopped
  PROVE  /\ \E r \in AnyCommand :
              /\ calls' = [calls EXCEPT ![c] = r]
              /\ r.kind = calls[c].kind /\ r.gen = calls[c].gen /\ r.step = "network"
              /\ r.chan \in Reach'
         /\ current' \in Nat /\ Reach \subseteq Reach'
<1>1. calls[c] \in AnyCommand /\ SessionTypes /\ current \in Nat
  BY CommandType DEF SessionInv, SessionTypes
<1>2. Receiver \in Nat
  BY <1>1 DEF Receiver
<1>3. CASE /\ Is(c, {"receipt"}) /\ UNCHANGED current
           /\ calls' = [calls EXCEPT ![c].step = "network", ![c].token = token]
  <2> DEFINE r == [calls[c] EXCEPT !.step = "network", !.token = token]
  <2>1. /\ r \in AnyCommand /\ r.kind = calls[c].kind /\ r.gen = calls[c].gen
        /\ r.step = "network" /\ r.chan = calls[c].chan
    BY <1>1 DEF AnyCommand, Steps
  <2>2. calls' = [calls EXCEPT ![c] = r]
    BY <1>1, <1>3 DEF SessionTypes, AnyCommand
  <2>3. calls[c].chan \in Reach
    BY <1>3 DEF SessionInv, CommandInv, Is
  <2> HIDE DEF r
  <2> QED
    BY <1>1, <1>3, <2>1, <2>2, <2>3 DEF Reach
<1>4. CASE /\ current' = Receiver
           /\ calls' = [calls EXCEPT ![c].step = "network", ![c].token = token, ![c].chan = Receiver]
  <2> DEFINE r == [calls[c] EXCEPT !.step = "network", !.token = token, !.chan = Receiver]
  <2>1. /\ r \in AnyCommand /\ r.kind = calls[c].kind /\ r.gen = calls[c].gen
        /\ r.step = "network" /\ r.chan = Receiver
    BY <1>1, <1>2 DEF AnyCommand, Steps
  <2>2. calls' = [calls EXCEPT ![c] = r]
    BY <1>1, <1>2, <1>4 DEF SessionTypes, AnyCommand
  <2> HIDE DEF r
  <2>3. Reach \subseteq Reach'
    BY <1>4 DEF Reach, Receiver
  <2>4. r.chan \in Reach'
    BY <1>4, <2>1 DEF Reach
  <2> QED
    BY <1>2, <1>4, <2>1, <2>2, <2>3, <2>4
<1> QED
  BY <1>3, <1>4 DEF Requests

(***************************************************************************)
(* The service.                                                            *)
(***************************************************************************)
\* A step of the command c, which becomes r; challenges begin and end under the lock.
ServiceChange(c, r) ==
  /\ calls' = [calls EXCEPT ![c] = r]
  /\ r.kind = calls[c].kind /\ r.gen = calls[c].gen
  /\ r.step = "network" => Free
  /\ calls[c].kind = "start" /\ r.step # "answered" => calls[c].step # "answered"
  /\ UNCHANGED <<generation, timer, wanted, view, held>>
  /\ \/ pending' = pending /\ over' = over
     \/ /\ pending' = 0 /\ over' \in {over, over \cup ({pending} \ {0})}
        /\ Free \/ calls[c].step = "network"
     \/ /\ pending' = calls[c].gen /\ over' = over
        /\ calls[c].kind = "start" /\ calls[c].step = "network" /\ r.step = "answered"
  /\ current' \in Nat /\ Reach \subseteq Reach'
  /\ credential' \in Tokens \cup {None} /\ saved' \in Tokens \cup {None} /\ CredentialIsSaved'
  /\ Forgotten /\ calls[c].kind # "start" => Forgotten'
  /\ r.kind = "poll" /\ r.step = "network" => pending' # 0
  /\ r.kind = "signOut" /\ r.gen = generation
       /\ (r.step = "network" \/ (r.step = "answered" /\ r.answer = "done")) => Forgotten'
  /\ r.step = "network" \/ (r.kind = "receipt" /\ r.step # "sent") => r.chan \in Reach'

LEMMA ServiceStep ==
  ASSUME SessionInv, NEW c \in Calls, calls[c] # None, NEW r \in AnyCommand, ServiceChange(c, r)
  PROVE  SessionInv'
<1>0. SessionTypes /\ calls[c] \in AnyCommand /\ CommandInv(c) /\ Apart /\ Counted
  BY CommandType DEF SessionInv
<1>1. calls'[c] = r /\ \A d \in Calls \ {c} : calls'[d] = calls[d]
  BY <1>0 DEF ServiceChange, SessionTypes
<1>2. /\ UNCHANGED <<generation, timer, wanted, view, held>>
      /\ r.kind = calls[c].kind /\ r.gen = calls[c].gen
  BY DEF ServiceChange
<1>3. SessionTypes'
  <2>1. calls' \in [Calls -> AnyCommand \cup {None}]
    BY <1>0 DEF ServiceChange, SessionTypes
  <2>2. pending' \in Nat /\ over' \subseteq Nat
    BY <1>0 DEF ServiceChange, SessionTypes, AnyCommand
  <2> QED
    BY <1>0, <1>2, <2>1, <2>2 DEF ServiceChange, SessionTypes
<1>4. calls[c].kind = "start" => calls[c].gen = generation /\ wanted # "signOut"
  BY <1>0 DEF CommandInv, Asks, SessionTypes, Wishes
<1>5. Gone'
  BY <1>2, <1>4 DEF SessionInv, Gone, ServiceChange
<1>6. HeldReached'
  BY <1>2 DEF SessionInv, HeldReached, ServiceChange
<1>7. Counted'
  <2>1. CASE pending' = pending /\ over' = over
    BY <1>0, <1>2, <2>1 DEF Counted
  <2>2. CASE pending' = 0 /\ over' \in {over, over \cup ({pending} \ {0})}
    BY <1>0, <1>2, <2>2 DEF Counted, SessionTypes
  <2>3. CASE /\ pending' = calls[c].gen /\ over' = over
             /\ calls[c].kind = "start" /\ calls[c].step = "network"
    BY <1>0, <1>2, <2>3 DEF Counted, CommandInv
  <2> QED
    BY <2>1, <2>2, <2>3 DEF ServiceChange
<1>8. Apart'
  <2>1. r.step = "network" => \A d \in Calls : ~At(d, "network")
    BY DEF ServiceChange, Free
  <2>2. \A d, e \in Calls : At(d, "network")' /\ At(e, "network")' => d = e
    BY <1>0, <1>1, <2>1 DEF Apart, At
  <2>3. \A d \in Calls : calls'[d] # None => calls[d] # None /\ calls'[d].gen = calls[d].gen
    BY <1>1, <1>2
  <2> QED
    BY <1>0, <1>2, <2>2, <2>3 DEF Apart
<1>9. CommandInv(c)'
  <2> SUFFICES ASSUME calls'[c] # None
      PROVE  /\ r.gen <= generation
             /\ r.kind = "receipt" => r.gen = 0
             /\ r.gen = generation => r.kind \in Asks(wanted)
             /\ r.gen = generation => view.status \in Under(r.kind)
             /\ r.kind = "start" => r.gen = generation /\ view.status = "signedOut" /\ view.busy
             /\ r.kind = "start" /\ r.step # "answered" => r.gen \notin over' /\ pending' # r.gen
             /\ r.kind = "poll" /\ r.step = "network" => pending' # 0
             /\ r.kind = "signOut" /\ r.gen = generation
                  /\ (r.step = "network" \/ (r.step = "answered" /\ r.answer = "done")) => Forgotten'
             /\ r.step = "network" \/ (r.kind = "receipt" /\ r.step # "sent") => r.chan \in Reach'
    BY <1>1, <1>2 DEF CommandInv, Said, Asks
  <2>1. r.kind = "start" /\ r.step # "answered" => r.gen \notin over' /\ pending' # r.gen
    <3> SUFFICES ASSUME r.kind = "start", r.step # "answered"
                 PROVE  r.gen \notin over' /\ pending' # r.gen
      OBVIOUS
    <3>1. calls[c].gen \notin over /\ pending # calls[c].gen /\ calls[c].gen = generation /\ generation >= 1
      BY <1>0, <1>2 DEF ServiceChange, CommandInv, Counted
    <3>2. \/ pending' = pending /\ over' = over
          \/ pending' = 0 /\ over' \in {over, over \cup ({pending} \ {0})}
      BY DEF ServiceChange
    <3> QED
      BY <1>2, <3>1, <3>2
  <2> QED
    BY <1>0, <1>2, <2>1 DEF CommandInv, ServiceChange
<1>10. ASSUME NEW d \in Calls, d # c PROVE CommandInv(d)'
  <2> SUFFICES ASSUME calls[d] # None PROVE CommandInv(d)'
    BY <1>1, <1>10 DEF CommandInv
  <2>0. CommandInv(d) /\ calls'[d] = calls[d]
    BY <1>1, <1>10 DEF SessionInv
  <2>1. calls[d].gen = generation => calls[c].gen # generation
    BY <1>0, <1>10 DEF Apart
  <2>2. calls[d].kind = "start" /\ calls[d].step # "answered" =>
          calls[d].gen \notin over' /\ pending' # calls[d].gen
    <3> SUFFICES ASSUME calls[d].kind = "start", calls[d].step # "answered"
                 PROVE  calls[d].gen \notin over' /\ pending' # calls[d].gen
      OBVIOUS
    <3>1. calls[d].gen \notin over /\ pending # calls[d].gen /\ calls[d].gen = generation /\ generation >= 1
      BY <1>0, <2>0 DEF CommandInv, Counted
    <3>2. \/ pending' = pending /\ over' = over
          \/ pending' = 0 /\ over' \in {over, over \cup ({pending} \ {0})}
      BY <1>4, <2>1, <3>1 DEF ServiceChange
    <3> QED
      BY <3>1, <3>2
  <2>3. calls[d].kind = "poll" /\ calls[d].step = "network" => pending' # 0
    <3> SUFFICES ASSUME calls[d].kind = "poll", calls[d].step = "network" PROVE pending' # 0
      OBVIOUS
    <3>1. ~Free /\ calls[c].step # "network" /\ pending # 0
      BY <1>0, <1>10, <2>0 DEF Free, At, Apart, CommandInv
    <3> QED
      BY <3>1 DEF ServiceChange
  <2>4. calls[d].kind = "signOut" /\ calls[d].gen = generation /\ Said(d) => Forgotten'
    <3>1. calls[d].gen = generation => calls[c].kind # "start"
      BY <1>4, <2>1
    <3>2. Forgotten /\ calls[c].kind # "start" => Forgotten'
      BY DEF ServiceChange
    <3> QED
      BY <2>0, <3>1, <3>2 DEF CommandInv
  <2>5. calls[d].chan \in Reach => calls[d].chan \in Reach'
    BY DEF ServiceChange
  <2> QED
    BY <1>2, <2>0, <2>2, <2>3, <2>4, <2>5 DEF CommandInv, Said, Asks
<1> QED
  BY <1>3, <1>5, <1>6, <1>7, <1>8, <1>9, <1>10 DEF SessionInv, ServiceChange

\* What is known before a step of the service.
LEMMA Before ==
  ASSUME SessionInv, NEW c \in Calls, calls[c] # None
  PROVE  /\ SessionTypes /\ CommandInv(c) /\ CredentialIsSaved /\ calls[c] \in AnyCommand
         /\ current \in Nat /\ Token \in Tokens \cup {None}
BY CommandType DEF SessionInv, SessionTypes, Token

\* stop() of cancel and sign-out, receiver() of a request that is handed out.
LEMMA BeforeLock ==
  ASSUME SessionInv, NEW c \in Calls, Stop(c) \/ Subscribe(c)
  PROVE  SessionInv'
<1>0. calls[c] # None /\ calls[c].step = "sent"
  BY DEF Stop, Subscribe, At
<1>1. SessionTypes /\ CommandInv(c) /\ CredentialIsSaved /\ calls[c] \in AnyCommand /\ current \in Nat
  BY <1>0, Before
<1>2. ASSUME Stop(c) PROVE SessionInv'
  <2> DEFINE r == [calls[c] EXCEPT !.step = "ready"]
  <2>1. /\ r \in AnyCommand /\ r.kind = calls[c].kind /\ r.gen = calls[c].gen /\ r.step = "ready"
        /\ calls' = [calls EXCEPT ![c] = r]
    BY <1>1, <1>2 DEF Stop, AnyCommand, Steps
  <2>2. Reach \subseteq Reach' /\ current' = current
    BY <1>2 DEF Stop, Reach
  <2>3. calls[c].kind \in {"cancel", "signOut"} /\ UNCHANGED <<backend, interface, held, over>>
    BY <1>2 DEF Stop, Is
  <2> HIDE DEF r
  <2>4. ServiceChange(c, r)
    BY <1>0, <1>1, <2>1, <2>2, <2>3
    DEF ServiceChange, backend, interface, SessionTypes, CredentialIsSaved, Forgotten
  <2> QED
    BY <1>0, <2>1, <2>4, ServiceStep
<1>3. ASSUME Subscribe(c) PROVE SessionInv'
  <2> DEFINE r == [calls[c] EXCEPT !.step = "ready", !.chan = Receiver]
  <2>1. Receiver \in Nat
    BY <1>1 DEF Receiver
  <2>2. /\ r \in AnyCommand /\ r.kind = calls[c].kind /\ r.gen = calls[c].gen /\ r.step = "ready"
        /\ r.chan = Receiver
    BY <1>1, <2>1 DEF AnyCommand, Steps
  <2>3. calls' = [calls EXCEPT ![c] = r]
    BY <1>1, <1>3, <2>1 DEF Subscribe, AnyCommand, SessionTypes
  <2> HIDE DEF r
  <2>4. Reach \subseteq Reach' /\ current' \in Nat /\ r.chan \in Reach'
    BY <1>3, <2>1, <2>2 DEF Subscribe, Reach, Receiver
  <2>5. calls[c].kind = "receipt" /\ UNCHANGED <<backend, interface, held, over>>
    BY <1>3 DEF Subscribe, Is
  <2>6. ServiceChange(c, r)
    BY <1>0, <1>1, <2>2, <2>3, <2>4, <2>5
    DEF ServiceChange, backend, interface, SessionTypes, CredentialIsSaved, Forgotten
  <2> QED
    BY <1>0, <2>2, <2>6, ServiceStep
<1> QED
  BY <1>2, <1>3

\* A command that is answered under the lock, or whose request is answered.
LEMMA AnswerStep ==
  ASSUME SessionInv, NEW c \in Calls, calls[c] # None, calls[c].step \in {"ready", "network"},
         calls[c].step = "ready" => Free,
         NEW answer \in Answers, NEW token \in Tokens \cup {None}, Answered(c, answer, token),
         \/ pending' = pending /\ over' = over
         \/ pending' = 0 /\ over' \in {over, over \cup ({pending} \ {0})}
         \/ pending' = calls[c].gen /\ over' = over /\ calls[c].kind = "start" /\ calls[c].step = "network",
         credential' \in Tokens \cup {None}, saved' \in Tokens \cup {None}, CredentialIsSaved',
         Forgotten /\ calls[c].kind # "start" => Forgotten',
         calls[c].kind = "signOut" /\ answer = "done" /\ calls[c].gen = generation => Forgotten',
         UNCHANGED <<current, stopped, interface, held>>
  PROVE  SessionInv'
<1>1. /\ SessionTypes /\ CommandInv(c) /\ calls[c] \in AnyCommand /\ current \in Nat
  BY Before
<1>2. PICK r \in AnyCommand :
        /\ calls' = [calls EXCEPT ![c] = r]
        /\ r.kind = calls[c].kind /\ r.gen = calls[c].gen /\ r.chan = calls[c].chan
        /\ r.step = "answered" /\ r.answer = answer
  BY <1>1, AnsweredEffect
<1>3. Reach' = Reach
  BY DEF Reach
<1>4. r.kind = "receipt" => r.chan \in Reach
  BY <1>1, <1>2 DEF CommandInv
<1>5. ServiceChange(c, r)
  <2>1. UNCHANGED <<generation, timer, wanted, view, held, current>>
    BY DEF interface
  <2>2. \/ pending' = pending /\ over' = over
        \/ /\ pending' = 0 /\ over' \in {over, over \cup ({pending} \ {0})}
           /\ Free \/ calls[c].step = "network"
        \/ /\ pending' = calls[c].gen /\ over' = over
           /\ calls[c].kind = "start" /\ calls[c].step = "network" /\ r.step = "answered"
    BY <1>2
  <2> QED
    BY <1>1, <1>2, <1>3, <1>4, <2>1, <2>2 DEF ServiceChange
<1> QED
  BY <1>5, ServiceStep

\* The lock is taken and the request goes out.
LEMMA RequestStep ==
  ASSUME SessionInv, NEW c \in Calls, calls[c] # None, calls[c].step = "ready", Free,
         NEW token \in Tokens \cup {None}, Requests(c, token),
         pending' \in {pending, 0}, over' \in {over, over \cup ({pending} \ {0})},
         over' # over => pending' = 0,
         credential' \in Tokens \cup {None}, saved' \in Tokens \cup {None}, CredentialIsSaved',
         Forgotten /\ calls[c].kind # "start" => Forgotten',
         calls[c].kind = "signOut" => Forgotten', calls[c].kind = "poll" => pending' # 0,
         UNCHANGED <<stopped, interface, held>>
  PROVE  SessionInv'
<1>1. /\ SessionTypes /\ CommandInv(c) /\ calls[c] \in AnyCommand
  BY Before
<1>2. current' \in Nat /\ Reach \subseteq Reach'
  BY RequestEffect
<1>3. PICK r \in AnyCommand :
        /\ calls' = [calls EXCEPT ![c] = r]
        /\ r.kind = calls[c].kind /\ r.gen = calls[c].gen /\ r.step = "network" /\ r.chan \in Reach'
  BY RequestEffect
<1>4. ServiceChange(c, r)
  <2>1. UNCHANGED <<generation, timer, wanted, view, held>>
    BY DEF interface
  <2>2. \/ pending' = pending /\ over' = over
        \/ /\ pending' = 0 /\ over' \in {over, over \cup ({pending} \ {0})}
           /\ Free \/ calls[c].step = "network"
    OBVIOUS
  <2> QED
    BY <1>1, <1>2, <1>3, <2>1, <2>2 DEF ServiceChange
<1> QED
  BY <1>4, ServiceStep

\* Forgetting the credential, in the vault first.
LEMMA ForgetStep ==
  ASSUME SessionInv, NEW c \in Calls, calls[c] # None, calls[c].step \in {"ready", "network"},
         calls[c].step = "ready" => Free, calls[c].kind # "signOut",
         Forget(c) \/ (VaultFails(c) /\ UNCHANGED <<saved, credential>>),
         UNCHANGED <<pending, over, current, stopped, interface, held>>
  PROVE  SessionInv'
<1>1. SessionTypes /\ CredentialIsSaved
  BY Before
<1>2. "none" \in Answers /\ "error" \in Answers
  BY DEF Answers
<1>3. CASE Cleared /\ Answered(c, "none", None)
  BY <1>1, <1>2, <1>3, AnswerStep DEF Cleared, CredentialIsSaved, Forgotten
<1>4. CASE VaultFails(c) /\ UNCHANGED <<saved, credential>>
  BY <1>1, <1>2, <1>4, AnswerStep DEF VaultFails, CredentialIsSaved, Forgotten, SessionTypes
<1> QED
  BY <1>3, <1>4 DEF Forget

\* The command's turn: what it finds decides whether it is answered or its request goes out.
LEMMA LockStep ==
  ASSUME SessionInv, NEW c \in Calls, Lock(c)
  PROVE  SessionInv'
<1>0. calls[c] # None /\ calls[c].step = "ready" /\ Free
  BY DEF Lock, LockInspect, LockStart, LockPoll, LockSignOut, LockCancel, At
<1>1. /\ SessionTypes /\ CommandInv(c) /\ CredentialIsSaved /\ calls[c] \in AnyCommand
      /\ Token \in Tokens \cup {None}
  BY <1>0, Before
<1>2. {"none", "error", "done"} \subseteq Answers /\ None \in Tokens \cup {None}
  BY DEF Answers
<1>3. ASSUME LockInspect(c) PROVE SessionInv'
  <2>1. /\ calls[c].kind \in {"restore", "inspect", "confirm", "receipt"}
        /\ UNCHANGED <<pending, stopped, interface, held, over>>
    BY <1>3 DEF LockInspect, Is
  <2>2. CASE saved = None /\ Answered(c, "none", None) /\ UNCHANGED <<saved, credential, current>>
    BY <1>0, <1>1, <1>2, <2>1, <2>2, AnswerStep DEF CredentialIsSaved, Forgotten, SessionTypes
  <2>3. CASE (Forget(c) \/ (VaultFails(c) /\ UNCHANGED <<saved, credential>>)) /\ UNCHANGED current
    BY <1>0, <2>1, <2>3, ForgetStep
  <2>4. CASE saved # None /\ credential' = saved /\ Requests(c, saved) /\ UNCHANGED saved
    BY <1>0, <1>1, <2>1, <2>4, RequestStep DEF CredentialIsSaved, Forgotten, SessionTypes
  <2>5. CASE Requests(c, Token) /\ UNCHANGED <<saved, credential>>
    BY <1>0, <1>1, <2>1, <2>5, RequestStep DEF CredentialIsSaved, Forgotten, SessionTypes
  <2> QED
    BY <1>3, <2>2, <2>3, <2>4, <2>5 DEF LockInspect
<1>4. ASSUME LockStart(c) PROVE SessionInv'
  <2>1. calls[c].kind = "start" /\ UNCHANGED <<stopped, interface, held, over>>
    BY <1>4 DEF LockStart, Is
  <2>2. CASE Answered(c, "error", None) /\ UNCHANGED <<pending, saved, credential, current>>
    BY <1>0, <1>1, <1>2, <2>1, <2>2, AnswerStep DEF CredentialIsSaved, SessionTypes
  <2>3. CASE VaultFails(c) /\ UNCHANGED <<pending, saved, credential, current>>
    BY <1>0, <1>1, <1>2, <2>1, <2>3, AnswerStep DEF VaultFails, CredentialIsSaved, SessionTypes
  <2>4. CASE Cleared /\ pending' = 0 /\ Requests(c, None)
    BY <1>0, <1>1, <1>2, <2>1, <2>4, RequestStep DEF Cleared, CredentialIsSaved, Forgotten
  <2> QED
    BY <1>4, <2>2, <2>3, <2>4 DEF LockStart
<1>5. ASSUME LockPoll(c) PROVE SessionInv'
  <2>1. calls[c].kind = "poll" /\ UNCHANGED <<credential, saved, stopped, interface, held, over>>
    BY <1>5 DEF LockPoll, Is
  <2>2. CASE pending' = 0 /\ Answered(c, "error", None) /\ UNCHANGED current
    BY <1>0, <1>1, <1>2, <2>1, <2>2, AnswerStep DEF CredentialIsSaved, Forgotten, SessionTypes
  <2>3. CASE pending # 0 /\ Requests(c, None) /\ UNCHANGED pending
    BY <1>0, <1>1, <1>2, <2>1, <2>3, RequestStep DEF CredentialIsSaved, Forgotten, SessionTypes
  <2> QED
    BY <1>5, <2>2, <2>3 DEF LockPoll
<1>6. ASSUME LockSignOut(c) PROVE SessionInv'
  <2>1. /\ calls[c].kind = "signOut" /\ UNCHANGED <<stopped, interface, held>>
        /\ pending' = 0 /\ over' = over \cup ({pending} \ {0})
    BY <1>6 DEF LockSignOut, Is
  <2>2. CASE VaultFails(c) /\ UNCHANGED <<saved, credential, current>>
    BY <1>0, <1>1, <1>2, <2>1, <2>2, AnswerStep DEF VaultFails, CredentialIsSaved, Forgotten, SessionTypes
  <2>3. CASE Cleared /\ Answered(c, "done", None) /\ UNCHANGED current
    BY <1>0, <1>1, <1>2, <2>1, <2>3, AnswerStep DEF Cleared, CredentialIsSaved, Forgotten
  <2>4. CASE Cleared /\ Requests(c, Token)
    BY <1>0, <1>1, <1>2, <2>1, <2>4, RequestStep DEF Cleared, CredentialIsSaved, Forgotten
  <2> QED
    BY <1>6, <2>2, <2>3, <2>4 DEF LockSignOut
<1>7. ASSUME LockCancel(c) PROVE SessionInv'
  <2>1. /\ calls[c].kind = "cancel" /\ UNCHANGED <<credential, saved, current, stopped, interface, held>>
        /\ pending' = 0 /\ over' = over \cup ({pending} \ {0}) /\ Answered(c, "done", None)
    BY <1>7 DEF LockCancel, Is
  <2> QED
    BY <1>0, <1>1, <1>2, <2>1, AnswerStep DEF CredentialIsSaved, Forgotten, SessionTypes
<1> QED
  BY <1>3, <1>4, <1>5, <1>6, <1>7 DEF Lock

\* The answers of the website.
LEMMA ReplyStep ==
  ASSUME SessionInv, NEW c \in Calls, Reply(c)
  PROVE  SessionInv'
<1>0. calls[c] # None /\ calls[c].step = "network"
  BY DEF Reply, RequestFails, Inspected, Started, Exchanged, Revoked, At
<1>1. /\ SessionTypes /\ CommandInv(c) /\ CredentialIsSaved /\ calls[c] \in AnyCommand
  BY <1>0, Before
<1>2. Answers = {"none", "session", "challenge", "waiting", "signedIn", "done", "error"}
      /\ None \in Tokens \cup {None} /\ calls[c].token \in Tokens \cup {None}
  BY <1>1 DEF Answers, AnyCommand
<1>3. calls[c].kind = "signOut" /\ calls[c].gen = generation => Forgotten
  BY <1>0, <1>1 DEF CommandInv, Said
<1>4. ASSUME RequestFails(c) PROVE SessionInv'
  <2>1. /\ UNCHANGED <<credential, saved, current, stopped, interface, held, over>>
        /\ pending' = IF calls[c].kind = "poll" THEN 0 ELSE pending
    BY <1>4 DEF RequestFails, Is
  <2>2. CASE calls[c].kind = "signOut" /\ Answered(c, "done", None)
    BY <1>0, <1>1, <1>2, <1>3, <2>1, <2>2, AnswerStep DEF CredentialIsSaved, Forgotten, SessionTypes
  <2>3. CASE Answered(c, "error", None)
    BY <1>0, <1>1, <1>2, <2>1, <2>3, AnswerStep DEF CredentialIsSaved, Forgotten, SessionTypes
  <2> QED
    BY <1>4, <2>2, <2>3 DEF RequestFails, Is
<1>5. ASSUME Inspected(c) PROVE SessionInv'
  <2>1. /\ calls[c].kind \in {"restore", "inspect", "confirm", "receipt"}
        /\ UNCHANGED <<pending, current, stopped, interface, held, over>>
    BY <1>5 DEF Inspected, Is
  <2>2. CASE Answered(c, "session", calls[c].token) /\ UNCHANGED <<saved, credential>>
    BY <1>0, <1>1, <1>2, <2>1, <2>2, AnswerStep DEF CredentialIsSaved, Forgotten, SessionTypes
  <2>3. CASE Forget(c)
    BY <1>0, <2>1, <2>3, ForgetStep
  <2> QED
    BY <1>5, <2>2, <2>3 DEF Inspected
<1>6. ASSUME Started(c) PROVE SessionInv'
  <2>1. /\ calls[c].kind = "start"
        /\ UNCHANGED <<credential, saved, current, stopped, interface, held, over>>
    BY <1>6 DEF Started, Is
  <2>2. CASE pending' = calls[c].gen /\ Answered(c, "challenge", None)
    BY <1>0, <1>1, <1>2, <2>1, <2>2, AnswerStep DEF CredentialIsSaved, SessionTypes
  <2>3. CASE pending' = 0 /\ Answered(c, "error", None)
    BY <1>0, <1>1, <1>2, <2>1, <2>3, AnswerStep DEF CredentialIsSaved, SessionTypes
  <2> QED
    BY <1>6, <2>2, <2>3 DEF Started
<1>7. ASSUME Exchanged(c) PROVE SessionInv'
  <2>1. /\ calls[c].kind = "poll" /\ UNCHANGED <<current, stopped, interface, held, over>>
    BY <1>7 DEF Exchanged, Is
  <2>2. ~Forgotten
    BY <1>0, <1>1, <2>1 DEF CommandInv, Forgotten
  <2>3. CASE Answered(c, "waiting", None) /\ UNCHANGED <<pending, credential, saved>>
    BY <1>0, <1>1, <1>2, <2>1, <2>2, <2>3, AnswerStep DEF CredentialIsSaved, SessionTypes
  <2>4. CASE pending' = 0 /\ Answered(c, "error", None) /\ UNCHANGED <<credential, saved>>
    BY <1>0, <1>1, <1>2, <2>1, <2>2, <2>4, AnswerStep DEF CredentialIsSaved, SessionTypes
  <2>5. CASE pending' = 0 /\ VaultFails(c) /\ UNCHANGED <<credential, saved>>
    BY <1>0, <1>1, <1>2, <2>1, <2>2, <2>5, AnswerStep DEF VaultFails, CredentialIsSaved, SessionTypes
  <2>6. ASSUME NEW t \in Tokens, pending' = 0, Answered(c, "signedIn", None), credential' = t, saved' = t
        PROVE  SessionInv'
    BY <1>0, <1>1, <1>2, <2>1, <2>2, <2>6, AnswerStep DEF CredentialIsSaved
  <2> QED
    BY <1>7, <2>3, <2>4, <2>5, <2>6 DEF Exchanged
<1>8. ASSUME Revoked(c) PROVE SessionInv'
  <2>1. /\ calls[c].kind = "signOut" /\ Answered(c, "done", None)
        /\ UNCHANGED <<pending, credential, saved, current, stopped, interface, held, over>>
    BY <1>8 DEF Revoked, Is, backend
  <2> QED
    BY <1>0, <1>1, <1>2, <1>3, <2>1, AnswerStep DEF CredentialIsSaved, Forgotten, SessionTypes
<1> QED
  BY <1>4, <1>5, <1>6, <1>7, <1>8 DEF Reply

(***************************************************************************)
(* The interface.                                                          *)
(***************************************************************************)
\* A command that is sent takes a free place.
LEMMA SentEffect ==
  ASSUME SessionTypes, NEW kind \in Kinds, NEW gen \in Nat, Sent(kind, gen)
  PROVE  /\ calls' \in [Calls -> AnyCommand \cup {None}]
         /\ \E c \in Calls :
              /\ calls[c] = None /\ calls'[c] = New(kind, gen)
              /\ \A d \in Calls \ {c} : calls'[d] = calls[d]
<1> DEFINE c == CHOOSE d \in Idle : TRUE
<1>1. c \in Idle /\ calls' = [calls EXCEPT ![c] = New(kind, gen)]
  BY DEF Sent
<1>2. c \in Calls /\ calls[c] = None
  BY <1>1 DEF Idle
<1> HIDE DEF c
<1>3. New(kind, gen) \in AnyCommand
  BY NewType
<1> QED
  BY <1>1, <1>2, <1>3 DEF SessionTypes

\* The player acts: what is under way is of the past from then on.
LEMMA ActStep ==
  ASSUME SessionInv, NEW wish \in Wishes, NEW kind \in {"inspect", "start", "cancel", "signOut"},
         kind \in Asks(wish), Act(wish), Sent(kind, generation + 1),
         timer' \in {timer, 0}, view' \in Views,
         \A c \in Calls : calls[c] # None => calls[c].kind # "start",
         kind = "inspect" => view'.status = "signedIn",
         kind = "start" => view'.status = "signedOut" /\ view'.busy,
         kind = "signOut" => view'.status = "signedIn",
         UNCHANGED <<backend, current, stopped, held, over>>
  PROVE  SessionInv'
<1>0. SessionTypes /\ Apart /\ Counted /\ generation \in Nat /\ timer \in Nat
  BY DEF SessionInv, SessionTypes
<1>1. /\ generation' = generation + 1 /\ wanted' = wish
      /\ UNCHANGED <<pending, credential, saved, current, stopped, held, over>>
  BY DEF Act, backend
<1>2. kind \in Kinds /\ generation + 1 \in Nat
  BY <1>0 DEF Kinds
<1>3. PICK c \in Calls :
        /\ calls[c] = None /\ calls'[c] = New(kind, generation + 1)
        /\ \A d \in Calls \ {c} : calls'[d] = calls[d]
  BY <1>0, <1>2, SentEffect
<1>4. calls' \in [Calls -> AnyCommand \cup {None}]
  BY <1>0, <1>2, SentEffect
<1> DEFINE r == New(kind, generation + 1)
<1>5. /\ r.kind = kind /\ r.gen = generation + 1 /\ r.step \in {"sent", "ready"}
  BY <1>2, NewType
<1> HIDE DEF r
<1>6. calls'[c] = r
  BY <1>3 DEF r
<1>7. SessionTypes'
  BY <1>0, <1>1, <1>4 DEF SessionTypes
<1>8. \A d \in Calls : calls[d] # None => calls[d].gen <= generation /\ calls[d].gen \in Nat
  BY <1>0, CommandType DEF SessionInv, CommandInv, AnyCommand
<1>9. Counted'
  BY <1>0, <1>1, <1>7 DEF Counted, SessionTypes
<1>10. Apart'
  <2>1. \A d \in Calls : calls'[d] # None /\ calls'[d].gen = generation' => d = c
    BY <1>0, <1>1, <1>3, <1>8
  <2>2. \A d \in Calls : At(d, "network")' => d # c /\ At(d, "network")
    BY <1>3, <1>5, <1>6 DEF At
  <2>3. timer' # generation'
    BY <1>0, <1>1 DEF Counted
  <2> QED
    BY <1>0, <2>1, <2>2, <2>3 DEF Apart
<1>11. Gone'
  BY <1>1 DEF Gone, Asks, SessionInv
<1>12. HeldReached'
  BY <1>1 DEF SessionInv, HeldReached, Reach
<1>13. CommandInv(c)'
  <2>1. r.step # "network" /\ r.step # "answered" /\ r.kind # "receipt"
    BY <1>5
  <2>2. r.gen \notin over /\ pending # r.gen
    BY <1>0, <1>5, <1>7 DEF Counted, SessionTypes
  <2>3. view'.status \in Under(kind)
    BY DEF Under, Views
  <2> QED
    BY <1>0, <1>1, <1>5, <1>6, <2>1, <2>2, <2>3 DEF CommandInv, Said
<1>14. ASSUME NEW d \in Calls, d # c PROVE CommandInv(d)'
  <2> SUFFICES ASSUME calls[d] # None PROVE CommandInv(d)'
    BY <1>3, <1>14 DEF CommandInv
  <2>1. /\ calls'[d] = calls[d] /\ CommandInv(d) /\ calls[d].gen <= generation /\ calls[d].gen \in Nat
    BY <1>3, <1>8, <1>14 DEF SessionInv
  <2>2. calls[d].gen # generation' /\ calls[d].gen <= generation'
    BY <1>0, <1>1, <2>1
  <2>3. calls[d].kind # "start"
    OBVIOUS
  <2>4. Reach' = Reach
    BY <1>1 DEF Reach
  <2> QED
    BY <1>1, <2>1, <2>2, <2>3, <2>4 DEF CommandInv
<1> QED
  BY <1>1, <1>7, <1>9, <1>10, <1>11, <1>12, <1>13, <1>14 DEF SessionInv, CredentialIsSaved

LEMMA PlayerStep ==
  ASSUME SessionInv, Player
  PROVE  SessionInv'
<1>0. view \in Views /\ generation \in Nat
  BY DEF SessionInv, SessionTypes
<1>1. \A c \in Calls : calls[c] # None /\ calls[c].kind = "start" => view.status = "signedOut" /\ view.busy
  BY DEF SessionInv, CommandInv
<1>2. ASSUME CheckSession PROVE SessionInv'
  <2>1. view' \in Views /\ view'.status = "signedIn"
    BY <1>0, <1>2 DEF CheckSession, Views
  <2> QED
    BY <1>1, <1>2, <2>1, ActStep DEF CheckSession, Wishes, Asks
<1>3. ASSUME SignIn PROVE SessionInv'
  <2>1. view' \in Views /\ view'.status = "signedOut" /\ view'.busy
    BY <1>0, <1>3 DEF SignIn, Views
  <2> QED
    BY <1>1, <1>3, <2>1, ActStep DEF SignIn, Wishes, Asks
<1>4. ASSUME CancelSignIn PROVE SessionInv'
  <2>1. view' \in Views
    BY <1>0, <1>4 DEF CancelSignIn, Views, Statuses
  <2> QED
    BY <1>1, <1>4, <2>1, ActStep DEF CancelSignIn, Wishes, Asks
<1>5. ASSUME SignOut PROVE SessionInv'
  <2>1. view' \in Views /\ view'.status = "signedIn"
    BY <1>0, <1>5 DEF SignOut, Views
  <2> QED
    BY <1>1, <1>5, <2>1, ActStep DEF SignOut, Wishes, Asks
<1> QED
  BY <1>2, <1>3, <1>4, <1>5 DEF Player

\* A poll that is due, and a request for the account.
LEMMA SendStep ==
  ASSUME SessionInv, TimerFires \/ AskReceipt
  PROVE  SessionInv'
<1>0. SessionTypes /\ Apart /\ Counted /\ generation \in Nat /\ timer \in Nat
  BY DEF SessionInv, SessionTypes
<1>1. UNCHANGED <<pending, credential, saved, current, stopped, view, generation, wanted, held, over>>
  BY DEF TimerFires, AskReceipt, backend, interface
<1>2. timer' = 0 \/ timer' = timer
  BY DEF TimerFires, AskReceipt, interface
<1>3. Counted' /\ Gone' /\ HeldReached' /\ CredentialIsSaved' /\ Reach' = Reach
  BY <1>0, <1>1, <1>2 DEF Counted, SessionInv, Gone, HeldReached, Reach, CredentialIsSaved, Forgotten
<1>4. ASSUME UNCHANGED calls PROVE SessionInv'
  <2>1. SessionTypes'
    BY <1>0, <1>1, <1>2, <1>4 DEF SessionTypes
  <2>2. Apart'
    BY <1>0, <1>1, <1>2, <1>4 DEF Apart, At, Counted
  <2>3. \A c \in Calls : CommandInv(c)'
    BY <1>1, <1>3, <1>4 DEF SessionInv, CommandInv, Said, Forgotten
  <2> QED
    BY <1>3, <2>1, <2>2, <2>3 DEF SessionInv
<1>5. ASSUME NEW kind \in {"poll", "receipt"}, NEW gen \in Nat, Sent(kind, gen),
             \/ kind = "poll" /\ gen = timer /\ timer = generation /\ timer' = 0
             \/ kind = "receipt" /\ gen = 0 /\ timer' = timer
      PROVE  SessionInv'
  <2>1. kind \in Kinds
    BY DEF Kinds
  <2>2. PICK c \in Calls :
          /\ calls[c] = None /\ calls'[c] = New(kind, gen)
          /\ \A d \in Calls \ {c} : calls'[d] = calls[d]
    BY <1>0, <1>5, <2>1, SentEffect
  <2>3. SessionTypes'
    BY <1>0, <1>1, <1>2, <1>5, <2>1, SentEffect DEF SessionTypes
  <2> DEFINE r == New(kind, gen)
  <2>4. /\ r.kind = kind /\ r.gen = gen /\ r.step \in {"sent", "ready"}
        /\ kind = "receipt" => r.step = "sent"
    BY <2>1, NewType
  <2> HIDE DEF r
  <2>5. calls'[c] = r
    BY <2>2 DEF r
  <2>6. Apart'
    <3>1. \A d \in Calls : At(d, "network")' => d # c /\ At(d, "network")
      BY <2>2, <2>4, <2>5 DEF At
    <3>2. CASE kind = "poll" /\ gen = timer /\ timer = generation /\ timer' = 0
      <4>1. \A d \in Calls : calls'[d] # None /\ calls'[d].gen = generation => d = c
        BY <1>0, <2>2, <3>2 DEF Apart
      <4>2. timer' # generation
        BY <1>0, <3>2 DEF Counted
      <4> QED
        BY <1>0, <1>1, <3>1, <4>1, <4>2 DEF Apart
    <3>3. CASE kind = "receipt" /\ gen = 0 /\ timer' = timer
      <4>1. \A d \in Calls : calls'[d] # None /\ calls'[d].gen = generation =>
              d # c /\ calls[d] # None /\ calls[d].gen = generation
        BY <1>0, <2>2, <2>4, <2>5, <3>3 DEF Counted
      <4> QED
        BY <1>0, <1>1, <3>1, <3>3, <4>1 DEF Apart
    <3> QED
      BY <1>5, <3>2, <3>3
  <2>7. CommandInv(c)'
    <3>1. gen = generation => kind = "poll" /\ wanted = "start" /\ view.status \in Under("poll")
      BY <1>0, <1>5 DEF Apart, Counted, Under
    <3>2. "poll" \in Asks("start")
      BY DEF Asks
    <3>3. gen <= generation
      BY <1>0, <1>5 DEF Counted
    <3> QED
      BY <1>1, <1>5, <2>4, <2>5, <3>1, <3>2, <3>3 DEF CommandInv, Said
  <2>8. ASSUME NEW d \in Calls, d # c PROVE CommandInv(d)'
    BY <1>1, <1>3, <2>2, <2>8 DEF SessionInv, CommandInv, Said, Forgotten
  <2> QED
    BY <1>3, <2>3, <2>6, <2>7, <2>8 DEF SessionInv
<1>6. ASSUME TimerFires PROVE SessionInv'
  BY <1>0, <1>4, <1>5, <1>6 DEF TimerFires
<1>7. ASSUME AskReceipt PROVE SessionInv'
  BY <1>5, <1>7 DEF AskReceipt, interface
<1> QED
  BY <1>6, <1>7

\* Tokens end, and requests that were handed out are over.
LEMMA OutsideStep ==
  ASSUME SessionInv, UNCHANGED <<calls, backend, current, stopped, interface, over>>, held' \in {held, None}
  PROVE  SessionInv'
<1>1. UNCHANGED <<calls, pending, credential, saved, current, stopped, view, generation, timer, wanted, over>>
  BY DEF backend, interface
<1>2. SessionTypes' /\ CredentialIsSaved' /\ Gone' /\ Counted'
  BY <1>1 DEF SessionInv, SessionTypes, CredentialIsSaved, Gone, Forgotten, Counted
<1>3. HeldReached' /\ Apart'
  BY <1>1 DEF SessionInv, HeldReached, Reach, Apart, At
<1>4. ASSUME NEW c \in Calls PROVE CommandInv(c)'
  BY <1>1 DEF SessionInv, CommandInv, Said, Forgotten, Reach
<1> QED
  BY <1>2, <1>3, <1>4 DEF SessionInv

\* An answer reaches the interface: it changes the store only if it is about the player's last
\* action.
LEMMA ArriveStep ==
  ASSUME SessionInv, NEW c \in Calls, Arrive(c)
  PROVE  SessionInv'
<1>0. /\ SessionTypes /\ Apart /\ Counted /\ CommandInv(c) /\ calls[c] # None
      /\ calls[c].step = "answered" /\ calls[c] \in AnyCommand /\ generation \in Nat
  BY CommandType DEF SessionInv, SessionTypes, Arrive, At
<1>1. UNCHANGED <<pending, credential, saved, current, stopped, generation, wanted, over>>
  BY DEF Arrive, backend
<1>2. Reach' = Reach /\ CredentialIsSaved' /\ (Forgotten <=> Forgotten')
  BY <1>1 DEF Reach, SessionInv, CredentialIsSaved, Forgotten
<1> DEFINE r == IF Is(c, {"poll"}) /\ Latest(c) /\ calls[c].answer = "signedIn"
                  THEN New("confirm", calls[c].gen) ELSE None
<1>3. calls' = [calls EXCEPT ![c] = r]
  BY DEF Arrive
<1>4. \/ r = None
      \/ /\ r = New("confirm", calls[c].gen) /\ calls[c].kind = "poll"
         /\ calls[c].answer = "signedIn" /\ calls[c].gen = generation
  BY DEF Is, Latest
<1>5. \/ calls[c].kind = "poll" /\ calls[c].gen = generation /\ calls[c].answer = "signedIn"
      \/ r = None
  BY <1>4
<1> HIDE DEF r
<1>6. calls[c].gen \in Nat /\ "confirm" \in Kinds
  BY <1>0 DEF AnyCommand, Kinds
<1>7. r \in AnyCommand \cup {None}
  BY <1>4, <1>6, NewType
<1>8. /\ calls' \in [Calls -> AnyCommand \cup {None}] /\ calls'[c] = r
      /\ \A d \in Calls \ {c} : calls'[d] = calls[d]
  BY <1>0, <1>3, <1>7 DEF SessionTypes
<1>9. r # None => /\ r.kind = "confirm" /\ r.gen = generation /\ r.step \in {"sent", "ready"}
                  /\ calls[c].gen = generation /\ wanted = "start" /\ view.status = "waiting"
  <2>1. calls[c].kind = "poll" /\ calls[c].gen = generation => wanted = "start" /\ view.status = "waiting"
    BY <1>0 DEF CommandInv, Asks, Under, SessionTypes, Wishes
  <2> QED
    BY <1>4, <1>6, <2>1, NewType
<1>10. HeldReached'
  <2>1. CASE held' = held
    BY <1>2, <2>1 DEF SessionInv, HeldReached
  <2>2. CASE calls[c].kind = "receipt" /\ held' = [token |-> calls[c].token, chan |-> calls[c].chan]
    BY <1>0, <1>2, <2>2 DEF HeldReached, CommandInv
  <2> QED
    BY <2>1, <2>2 DEF Arrive, Is
\* What the interface makes of the answer.
<1>11. /\ view' \in Views /\ timer' \in Nat
       /\ calls[c].gen # generation => view' = view /\ timer' = timer
       /\ timer' # timer =>
            timer' = generation /\ calls[c].kind \in {"start", "poll"} /\ r = None /\ view'.status = "waiting"
       /\ r # None => view' = view
       /\ wanted = "signOut" /\ view'.status = "signedOut" => Forgotten
  <2>1. CASE UNCHANGED <<view, timer>>
    BY <1>0, <2>1 DEF SessionTypes, SessionInv, Gone
  <2>2. ASSUME Latest(c), Applied(c), calls[c].kind # "receipt"
        PROVE  /\ view' \in Views /\ timer' \in Nat
               /\ calls[c].gen = generation
               /\ timer' # timer =>
                    timer' = generation /\ calls[c].kind \in {"start", "poll"} /\ r = None /\ view'.status = "waiting"
               /\ r # None => view' = view
               /\ wanted = "signOut" /\ view'.status = "signedOut" => Forgotten
    <3>1. calls[c].gen = generation /\ calls[c].kind \in Asks(wanted)
      BY <1>0, <2>2 DEF Latest, CommandInv
    <3>2. wanted = "signOut" => calls[c].kind = "signOut"
      BY <3>1 DEF Asks
    <3>3. view \in Views /\ timer \in Nat /\ calls[c].token \in Tokens \cup {None}
      BY <1>0 DEF SessionTypes, AnyCommand
    <3>4. wanted = "signOut" /\ view.status = "signedOut" => Forgotten
      BY DEF SessionInv, Gone
    <3>5. view' \in Views /\ timer' \in Nat
      <4>1. timer' \in Nat
        BY <1>6, <2>2, <3>3 DEF Applied, Is
      <4>2. \A s \in Statuses, t \in Tokens \cup {None} : Show(s, t) => view' \in Views
        BY DEF Show, Views
      <4>3. /\ view.shown \in Tokens \cup {None}
            /\ [view EXCEPT !.busy = FALSE] \in Views
            /\ [view EXCEPT !.status = "waiting", !.busy = FALSE] \in Views
            /\ [view EXCEPT !.status = "signedOut"] \in Views
        BY <3>3 DEF Views, Statuses
      <4>4. {"signedIn", "signedOut"} \subseteq Statuses
        BY DEF Statuses
      <4> QED
        BY <2>2, <3>3, <4>1, <4>2, <4>3, <4>4 DEF Applied, Is
    <3>6. timer' # timer => timer' = generation /\ calls[c].kind \in {"start", "poll"} /\ r = None
      BY <1>5, <2>2, <3>1 DEF Applied, Is
    <3>8. r # None => view' = view
      BY <1>5, <2>2 DEF Applied, Is
    <3>9. timer' # timer => view'.status = "waiting"
      <4>1. CASE calls[c].kind = "start"
        <5>1. timer' # timer => view' = [view EXCEPT !.status = "waiting", !.busy = FALSE]
          BY <2>2, <4>1 DEF Applied, Is
        <5> QED
          BY <3>3, <5>1 DEF Views
      <4>2. CASE calls[c].kind = "poll"
        <5>1. timer' # timer => view' = view
          BY <2>2, <4>2 DEF Applied, Is
        <5>2. view.status = "waiting"
          BY <1>0, <3>1, <4>2 DEF CommandInv, Under
        <5> QED
          BY <5>1, <5>2
      <4> QED
        BY <3>6, <4>1, <4>2
    <3>7. wanted = "signOut" /\ view'.status = "signedOut" => Forgotten
      <4> SUFFICES ASSUME wanted = "signOut", view'.status = "signedOut" PROVE Forgotten
        OBVIOUS
      <4>1. calls[c].kind = "signOut"
        BY <3>2
      <4>2. CASE calls[c].answer = "done"
        BY <1>0, <3>1, <4>1, <4>2 DEF CommandInv, Said
      <4>3. CASE calls[c].answer # "done"
        <5>1. view' = [view EXCEPT !.busy = FALSE]
          BY <2>2, <4>1, <4>3 DEF Applied, Is
        <5>2. view'.status = view.status
          BY <3>3, <5>1 DEF Views
        <5> QED
          BY <3>4, <5>2
      <4> QED
        BY <4>2, <4>3
    <3> QED
      BY <3>1, <3>5, <3>6, <3>7, <3>8, <3>9
  <2>3. \/ UNCHANGED <<view, timer>>
        \/ Latest(c) /\ Applied(c) /\ calls[c].kind # "receipt"
    BY DEF Arrive, Is
  <2> QED
    BY <2>1, <2>2, <2>3
<1>12. SessionTypes'
  BY <1>0, <1>1, <1>8, <1>11 DEF SessionTypes
<1>13. Gone'
  BY <1>1, <1>2, <1>11 DEF Gone
<1>14. Counted'
  BY <1>0, <1>1, <1>11 DEF Counted
<1>15. \A d \in Calls : calls'[d] # None =>
         /\ calls'[d].gen = generation => calls[d] # None /\ calls[d].gen = generation
         /\ calls'[d].step = "network" => calls[d] # None /\ calls[d].step = "network"
  BY <1>0, <1>8, <1>9
<1>16. Apart'
  <2>1. \A d, e \in Calls : At(d, "network")' /\ At(e, "network")' => d = e
    BY <1>0, <1>15 DEF Apart, At
  <2>2. \A d, e \in Calls : calls'[d] # None /\ calls'[e] # None
          /\ calls'[d].gen = generation /\ calls'[e].gen = generation => d = e
    BY <1>0, <1>15 DEF Apart
  <2>3. ASSUME timer' = generation
        PROVE  /\ wanted = "start" /\ view'.status = "waiting"
               /\ \A d \in Calls : calls'[d] # None => calls'[d].gen # generation
    <3>1. CASE timer' = timer
      BY <1>0, <1>11, <1>15, <2>3, <3>1 DEF Apart
    <3>2. CASE timer' # timer
      <4>1. /\ calls[c].gen = generation /\ r = None /\ calls[c].kind \in {"start", "poll"}
            /\ view'.status = "waiting"
        BY <1>11, <3>2
      <4>2. wanted = "start"
        BY <1>0, <4>1 DEF CommandInv, Asks, SessionTypes, Wishes
      <4>3. \A d \in Calls : calls'[d] # None => d # c
        BY <1>8, <4>1
      <4>4. \A d \in Calls : calls'[d] # None => calls'[d].gen # generation
        BY <1>0, <1>15, <4>1, <4>3 DEF Apart
      <4> QED
        BY <4>1, <4>2, <4>4
    <3> QED
      BY <3>1, <3>2
  <2> QED
    BY <1>1, <2>1, <2>2, <2>3 DEF Apart
<1>17. CommandInv(c)'
  <2> SUFFICES ASSUME r # None PROVE CommandInv(c)'
    BY <1>8 DEF CommandInv
  <2>1. "confirm" \in Asks("start")
    BY DEF Asks
  <2> QED
    BY <1>0, <1>1, <1>8, <1>9, <1>11, <2>1 DEF CommandInv, Said, Under
<1>18. ASSUME NEW d \in Calls, d # c PROVE CommandInv(d)'
  <2> SUFFICES ASSUME calls[d] # None PROVE CommandInv(d)'
    BY <1>8, <1>18 DEF CommandInv
  <2>1. CommandInv(d) /\ calls'[d] = calls[d]
    BY <1>8, <1>18 DEF SessionInv
  <2>2. calls[d].gen = generation => view' = view
    BY <1>0, <1>11, <1>18 DEF Apart
  <2> QED
    BY <1>1, <1>2, <2>1, <2>2 DEF CommandInv, Said
<1> QED
  BY <1>2, <1>10, <1>12, <1>13, <1>14, <1>16, <1>17, <1>18 DEF SessionInv

\* The next process has no challenge and asks for what the vault has.
LEMMA RestartStep ==
  ASSUME SessionInv, Restart
  PROVE  SessionInv'
<1>0. SessionTypes /\ Counted /\ generation \in Nat
  BY DEF SessionInv, SessionTypes
<1>1. /\ generation' = generation + 1 /\ wanted' = "restore"
      /\ over' = over \cup ({pending} \ {0}) /\ pending' = 0 /\ credential' = None /\ current' = 0
      /\ view' = [status |-> "checking", shown |-> None, busy |-> FALSE] /\ timer' = 0 /\ held' = None
      /\ saved' = saved /\ calls' = Only(New("restore", generation + 1))
  BY DEF Restart
<1> DEFINE r == New("restore", generation + 1)
           c == CHOOSE d \in Calls : TRUE
<1>2. /\ r \in AnyCommand /\ r.kind = "restore" /\ r.gen = generation + 1 /\ r.step \in {"sent", "ready"}
  BY <1>0, NewType DEF Kinds
<1>3. calls' = [d \in Calls |-> IF d = c THEN r ELSE None]
  BY <1>1 DEF Only
<1> HIDE DEF r, c
<1>4. calls' \in [Calls -> AnyCommand \cup {None}] /\ \A d \in Calls : calls'[d] # None => d = c /\ calls'[d] = r
  BY <1>2, <1>3
<1>5. SessionTypes'
  <2>1. view' \in Views
    BY <1>1 DEF Views, Statuses
  <2>2. over' \subseteq Nat /\ pending' \in Nat /\ current' \in Nat /\ timer' \in Nat
    BY <1>0, <1>1 DEF SessionTypes
  <2>4. generation' \in Nat
    BY <1>0, <1>1
  <2>3. credential' \in Tokens \cup {None} /\ saved' \in Tokens \cup {None}
    BY <1>0, <1>1 DEF SessionTypes
  <2> QED
    BY <1>1, <1>4, <2>1, <2>2, <2>3, <2>4 DEF SessionTypes, Wishes
<1>6. CredentialIsSaved' /\ Gone' /\ HeldReached'
  BY <1>1 DEF CredentialIsSaved, Gone, HeldReached
<1>7. Counted'
  BY <1>0, <1>1 DEF Counted, SessionTypes
<1>8. Apart'
  BY <1>0, <1>1, <1>4 DEF Apart, At
<1>9. ASSUME NEW d \in Calls PROVE CommandInv(d)'
  <2> SUFFICES ASSUME calls'[d] # None PROVE CommandInv(d)'
    BY DEF CommandInv
  <2>1. calls'[d] = r
    BY <1>4
  <2>2. "restore" \in Asks("restore")
    BY DEF Asks
  <2> QED
    BY <1>0, <1>1, <1>2, <2>1, <2>2 DEF CommandInv, Said, Under
<1> QED
  BY <1>5, <1>6, <1>7, <1>8, <1>9 DEF SessionInv

LEMMA SessionStarts == SessionInit => SessionInv
<1> SUFFICES ASSUME SessionInit PROVE SessionInv
  OBVIOUS
<1> DEFINE r == New("restore", 1)
           c == CHOOSE d \in Calls : TRUE
<1>1. /\ r \in AnyCommand /\ r.kind = "restore" /\ r.gen = 1 /\ r.step \in {"sent", "ready"}
  BY NewType DEF Kinds
<1>2. calls = [d \in Calls |-> IF d = c THEN r ELSE None]
  BY DEF SessionInit, Only
<1> HIDE DEF r, c
<1>3. calls \in [Calls -> AnyCommand \cup {None}] /\ \A d \in Calls : calls[d] # None => d = c /\ calls[d] = r
  BY <1>1, <1>2
<1>4. saved \in Tokens \cup {None}
  BY DEF SessionInit
<1>5. SessionTypes
  <2>1. view \in Views
    BY DEF SessionInit, Views, Statuses
  <2> QED
    BY <1>3, <1>4, <2>1 DEF SessionInit, SessionTypes, Wishes
<1>6. CredentialIsSaved /\ Gone /\ HeldReached /\ Counted
  BY DEF SessionInit, CredentialIsSaved, Gone, HeldReached, Counted
<1>7. Apart
  BY <1>3 DEF SessionInit, Apart, At
<1>8. ASSUME NEW d \in Calls PROVE CommandInv(d)
  <2> SUFFICES ASSUME calls[d] # None PROVE CommandInv(d)
    BY DEF CommandInv
  <2>1. calls[d] = r
    BY <1>3
  <2>2. "restore" \in Asks("restore")
    BY DEF Asks
  <2> QED
    BY <1>1, <2>1, <2>2 DEF SessionInit, CommandInv, Said, Under
<1> QED
  BY <1>5, <1>6, <1>7, <1>8 DEF SessionInv

LEMMA SessionGoesOnStep ==
  ASSUME SessionInv, SessionStep
  PROVE  SessionInv'
<1>1. ASSUME NEW c \in Calls, Stop(c) \/ Subscribe(c) \/ Lock(c) \/ Reply(c) \/ Arrive(c)
      PROVE  SessionInv'
  BY <1>1, BeforeLock, LockStep, ReplyStep, ArriveStep
<1>2. ASSUME NEW t \in Tokens, TokenEnds(t) PROVE SessionInv'
  BY <1>2, OutsideStep DEF TokenEnds
<1>3. ASSUME Release PROVE SessionInv'
  BY <1>3, OutsideStep DEF Release
<1> QED
  BY <1>1, <1>2, <1>3, PlayerStep, SendStep, RestartStep DEF SessionStep

(***************************************************************************)
(* The transfer.                                                           *)
(***************************************************************************)
\* What is verified stays as it was read: nothing is being written then, nor afterwards.
LEMMA TransferGoesOnStep ==
  ASSUME TransferInv, Transfer!TransferStep
  PROVE  TransferInv'
<1> USE DEF TransferInv, VerifiedIsApproved, Transfer!VerifiedIsApproved
<1>1. CASE Transfer!BeginTransfer
  BY <1>1 DEF Transfer!BeginTransfer, Transfer!Empty
<1>2. CASE Transfer!Cut \/ Transfer!GrantRefused \/ Transfer!Refuse
  BY <1>2 DEF Transfer!Cut, Transfer!GrantRefused, Transfer!Refuse, Transfer!Stop
<1>3. CASE Transfer!Granted \/ Transfer!StartOver \/ Transfer!Respond \/ Transfer!Chunk
  BY <1>3 DEF Transfer!Granted, Transfer!StartOver, Transfer!Respond, Transfer!Chunk, Transfer!Empty
<1>4. CASE Transfer!Ask \/ Transfer!Broken
  BY <1>4 DEF Transfer!Ask, Transfer!Broken, Transfer!Renew, Transfer!Stop
<1>5. CASE Transfer!Complete
  BY <1>5 DEF Transfer!Complete
<1>6. CASE Transfer!Verify
  BY <1>6 DEF Transfer!Verify, Transfer!Digest, Transfer!Stop
<1>7. CASE Transfer!Confirm
  BY <1>7 DEF Transfer!Confirm, Transfer!Stop
<1>8. CASE Transfer!Settle
  BY <1>8 DEF Transfer!Settle
<1> QED
  BY <1>1, <1>2, <1>3, <1>4, <1>5, <1>6, <1>7, <1>8
  DEF Transfer!TransferStep, Transfer!Server, Transfer!Client

(***************************************************************************)
(* The whole.                                                              *)
(***************************************************************************)
LEMMA InitInv == Init => IInv
<1>1. Init => TransferInv
  BY DEF Init, Transfer!TransferInit, TransferInv, VerifiedIsApproved, Transfer!VerifiedIsApproved
<1> QED
  BY <1>1, SessionStarts DEF Init, IInv

LEMMA Unmoved ==
  ASSUME SessionInv, UNCHANGED sessionVars
  PROVE  SessionInv' /\ Reach' = Reach
<1>1. SessionInv'
  BY OutsideStep DEF sessionVars
<1> QED
  BY <1>1 DEF sessionVars, Reach

\* A channel that a stop reaches stays one, until the process ends.
LEMMA ReachStep ==
  ASSUME SessionInv, SessionStep
  PROVE  restarts' # restarts \/ Reach \subseteq Reach'
<1>1. ASSUME NEW c \in Calls, Stop(c) \/ Subscribe(c) PROVE Reach \subseteq Reach'
  BY <1>1 DEF Stop, Subscribe, Reach, Receiver
<1>2. ASSUME NEW c \in Calls, Lock(c) PROVE Reach \subseteq Reach'
  <2>1. stopped' = stopped /\ current' \in {current, Receiver}
    BY <1>2 DEF Lock, LockInspect, LockStart, LockPoll, LockSignOut, LockCancel, Requests
  <2> QED
    BY <2>1 DEF Reach, Receiver
<1>3. ASSUME NEW c \in Calls, Reply(c) \/ Arrive(c) PROVE Reach' = Reach
  BY <1>3 DEF Reply, RequestFails, Inspected, Started, Exchanged, Revoked, Arrive, Reach
<1>4. ASSUME (\E t \in Tokens : TokenEnds(t)) \/ Player \/ TimerFires \/ AskReceipt \/ Release
      PROVE  Reach' = Reach
  BY <1>4 DEF TokenEnds, Player, CheckSession, SignIn, CancelSignIn, SignOut, TimerFires, AskReceipt,
     Release, Reach
<1>5. ASSUME Restart PROVE restarts' # restarts
  <2>1. restarts' = restarts + 1 /\ restarts < MaxRestarts
    BY <1>5 DEF Restart
  <2> QED
    BY <2>1
<1> QED
  BY <1>1, <1>2, <1>3, <1>4, <1>5 DEF SessionStep

LEMMA StepInv == IInv /\ [Next]_vars => IInv'
<1> SUFFICES ASSUME IInv, [Next]_vars PROVE IInv'
  OBVIOUS
<1>0. SessionInv /\ TransferInv /\ (download # None => download.chan \in Reach)
  BY DEF IInv
<1>1. ASSUME StartDownload PROVE IInv'
  <2>1. SessionInv' /\ Reach' = Reach
    BY <1>0, <1>1, OutsideStep DEF StartDownload, Reach
  <2>2. TransferInv'
    BY <1>0, <1>1, TransferGoesOnStep DEF StartDownload, Transfer!TransferStep, Transfer!Client
  <2>3. download'.chan \in Reach
    BY <1>0, <1>1 DEF StartDownload, SessionInv, HeldReached
  <2> QED
    BY <2>1, <2>2, <2>3 DEF IInv
<1>2. ASSUME CancelDownload \/ UNCHANGED vars PROVE IInv'
  <2>1. UNCHANGED <<sessionVars, transfer, download>>
    BY <1>2 DEF CancelDownload, vars
  <2>2. TransferInv'
    BY <1>0, <2>1 DEF TransferInv, transfer, VerifiedIsApproved, Transfer!VerifiedIsApproved
  <2> QED
    BY <1>0, <2>1, <2>2, Unmoved DEF IInv
<1>3. ASSUME TransferGoesOn PROVE IInv'
  BY <1>0, <1>3, Unmoved, TransferGoesOnStep DEF TransferGoesOn, IInv
<1>4. ASSUME NoTransfer PROVE TransferInv' /\ download' = None
  BY <1>4 DEF NoTransfer, TransferInv, VerifiedIsApproved, Transfer!VerifiedIsApproved
<1>5. ASSUME Collect PROVE IInv'
  BY <1>0, <1>4, <1>5, Unmoved DEF Collect, IInv
<1>6. ASSUME SessionGoesOn PROVE IInv'
  <2>1. SessionInv'
    BY <1>0, <1>6, SessionGoesOnStep DEF SessionGoesOn
  <2>2. CASE restarts' # restarts
    BY <1>4, <1>6, <2>1, <2>2 DEF SessionGoesOn, IInv
  <2>3. CASE restarts' = restarts
    <3>1. UNCHANGED <<transfer, download, cancelled>> /\ Reach \subseteq Reach'
      BY <1>0, <1>6, <2>3, ReachStep DEF SessionGoesOn
    <3>2. TransferInv'
      BY <1>0, <3>1 DEF TransferInv, transfer, VerifiedIsApproved, Transfer!VerifiedIsApproved
    <3> QED
      BY <1>0, <2>1, <3>1, <3>2 DEF IInv
  <2> QED
    BY <2>2, <2>3
<1> QED
  BY <1>1, <1>2, <1>3, <1>5, <1>6 DEF Next

LEMMA Invariance == Spec => []IInv
  BY InitInv, StepInv, PTL DEF Spec

(***************************************************************************)
(* The theorems.                                                           *)
(***************************************************************************)
\* The session in use is the one that outlasts a restart, and neither is left once the
\* interface says that the player is signed out, whichever vault call failed and however late
\* answers come (registry/auth.rs:313, auth_service.rs:231).
THEOREM SessionIsSaved == Spec => []SessionIsTheSaved
<1>1. IInv => SessionIsTheSaved
  BY DEF IInv, SessionInv, SessionIsTheSaved, SignedOutIsForgotten, Gone, Forgotten
<1> QED
  BY <1>1, Invariance, PTL

\* A transfer that is reported as verified left exactly the approved bytes, whatever the server
\* sent under however many grants (transport.rs:565).
THEOREM OnlyApprovedIsVerified == Spec => []VerifiedIsApproved
<1>1. IInv => VerifiedIsApproved
  BY DEF IInv, TransferInv
<1> QED
  BY <1>1, Invariance, PTL

\* Once a cancel or a sign-out had the lock, or the process ended, the challenge never becomes
\* a session (registry/auth.rs:283).
LEMMA EndedStays ==
  ASSUME IInv, [Next]_vars, credential' # credential, credential' # None, saved' # saved
  PROVE  pending # 0 /\ pending \notin over
<1>0. SessionInv
  BY DEF IInv
<1>1. SessionStep
  BY DEF Next, vars, sessionVars, backend, StartDownload, CancelDownload, TransferGoesOn, Collect,
     SessionGoesOn
<1>2. \E c \in Calls : Lock(c) \/ Reply(c)
  BY <1>1 DEF SessionStep, Stop, Subscribe, Arrive, TokenEnds, Player, CheckSession, SignIn,
     CancelSignIn, SignOut, TimerFires, AskReceipt, Release, Restart, backend
<1>3. PICK c \in Calls : Lock(c) \/ Reply(c)
  BY <1>2
<1>4. Exchanged(c)
  BY <1>3 DEF Lock, LockInspect, LockStart, LockPoll, LockSignOut, LockCancel, Reply, RequestFails,
     Inspected, Started, Revoked, Forget, Cleared, backend
<1>5. calls[c] # None /\ calls[c].kind = "poll" /\ calls[c].step = "network"
  BY <1>4 DEF Exchanged, At, Is
<1>6. pending # 0
  BY <1>0, <1>5 DEF SessionInv, CommandInv
<1> QED
  BY <1>0, <1>6 DEF SessionInv, Counted

\* What one answer makes of the interface (auth.ts:106).
LEMMA AnswerShown ==
  ASSUME SessionInv, NEW c \in Calls, Arrive(c)
  PROVE  /\ view' # view =>
              /\ <<view.status, view'.status>> \in Course(wanted)
              /\ calls[c] # None /\ calls[c].gen = generation /\ calls'[c] # calls[c]
         /\ timer' # timer => wanted = "start" /\ timer' = generation /\ view'.status = "waiting"
<1>0. /\ SessionTypes /\ CommandInv(c) /\ calls[c] # None /\ calls[c] \in AnyCommand
      /\ view \in Views /\ wanted \in Wishes
  BY CommandType DEF SessionInv, SessionTypes, Arrive, At
<1>1. calls'[c] # calls[c]
  <2>1. calls'[c] = None \/ (calls'[c] = New("confirm", calls[c].gen) /\ calls[c].kind = "poll")
    BY <1>0 DEF Arrive, Is, SessionTypes
  <2>2. New("confirm", calls[c].gen).kind = "confirm"
    BY DEF New
  <2> QED
    BY <1>0, <2>1, <2>2
<1> SUFFICES ASSUME view' # view \/ timer' # timer
             PROVE  /\ <<view.status, view'.status>> \in Course(wanted) \/ view' = view
                    /\ calls[c].gen = generation
                    /\ timer' # timer =>
                         wanted = "start" /\ timer' = generation /\ view'.status = "waiting"
  BY <1>0, <1>1
<1>2. Latest(c) /\ Applied(c) /\ calls[c].kind # "receipt"
  BY DEF Arrive, Is
<1>3. /\ calls[c].gen = generation /\ calls[c].kind \in Asks(wanted)
      /\ view.status \in Under(calls[c].kind)
  BY <1>0, <1>2 DEF Latest, CommandInv
<1>4. /\ \A st, t : Show(st, t) => view'.status = st
      /\ view' = [view EXCEPT !.busy = FALSE] => view'.status = view.status
      /\ view' = [view EXCEPT !.status = "signedOut"] => view'.status = "signedOut"
      /\ view' = [view EXCEPT !.status = "waiting", !.busy = FALSE] => view'.status = "waiting"
  <2>1. ASSUME NEW st, NEW t, Show(st, t) PROVE view'.status = st
    BY <2>1 DEF Show
  <2>2. view = [status |-> view.status, shown |-> view.shown, busy |-> view.busy]
    BY <1>0 DEF Views
  <2>3. view' = [view EXCEPT !.busy = FALSE] => view'.status = view.status
    BY <2>2
  <2>4. view' = [view EXCEPT !.status = "signedOut"] => view'.status = "signedOut"
    BY <2>2
  <2>5. view' = [view EXCEPT !.status = "waiting", !.busy = FALSE] => view'.status = "waiting"
    BY <2>2
  <2> QED
    BY <2>1, <2>3, <2>4, <2>5
<1>5. CASE calls[c].kind = "restore"
  <2>1. wanted = "restore" /\ view.status = "checking"
    BY <1>0, <1>3, <1>5 DEF Asks, Wishes, Under
  <2>2. UNCHANGED timer /\ view'.status \in {"signedIn", "signedOut"}
    BY <1>2, <1>4, <1>5 DEF Applied, Is
  <2> QED
    BY <1>3, <2>1, <2>2 DEF Course
<1>6. CASE calls[c].kind = "confirm"
  <2>1. wanted = "start" /\ view.status = "waiting"
    BY <1>0, <1>3, <1>6 DEF Asks, Wishes, Under
  <2>2. UNCHANGED timer /\ view'.status \in {"signedIn", "signedOut"}
    BY <1>2, <1>4, <1>6 DEF Applied, Is
  <2> QED
    BY <1>3, <2>1, <2>2 DEF Course
<1>7. CASE calls[c].kind = "inspect"
  <2>1. wanted = "check" /\ view.status = "signedIn"
    BY <1>0, <1>3, <1>7 DEF Asks, Wishes, Under
  <2>2. UNCHANGED timer /\ view'.status \in {"signedIn", "signedOut"}
    BY <1>2, <1>4, <1>7, <2>1 DEF Applied, Is
  <2> QED
    BY <1>3, <2>1, <2>2 DEF Course
<1>8. CASE calls[c].kind = "start"
  <2>1. wanted = "start" /\ view.status = "signedOut"
    BY <1>0, <1>3, <1>8 DEF Asks, Wishes, Under
  <2>2. \/ view'.status = "waiting" /\ timer' = calls[c].gen
        \/ view'.status = "signedOut" /\ UNCHANGED timer
    BY <1>2, <1>4, <1>8, <2>1 DEF Applied, Is
  <2> QED
    BY <1>3, <2>1, <2>2 DEF Course
<1>9. CASE calls[c].kind = "poll"
  <2>1. wanted = "start" /\ view.status = "waiting"
    BY <1>0, <1>3, <1>9 DEF Asks, Wishes, Under
  <2>2. \/ view' = view /\ timer' \in {timer, calls[c].gen}
        \/ view'.status = "signedOut" /\ UNCHANGED timer
    BY <1>2, <1>4, <1>9 DEF Applied, Is
  <2> QED
    BY <1>3, <2>1, <2>2 DEF Course
<1>10. CASE calls[c].kind = "signOut"
  <2>1. wanted = "signOut" /\ view.status = "signedIn"
    BY <1>0, <1>3, <1>10 DEF Asks, Wishes, Under
  <2>2. UNCHANGED timer /\ view'.status \in {"signedIn", "signedOut"}
    BY <1>2, <1>4, <1>10, <2>1 DEF Applied, Is
  <2> QED
    BY <1>3, <2>1, <2>2 DEF Course
<1>11. CASE calls[c].kind = "cancel"
  BY <1>2, <1>11 DEF Applied, Is
<1>12. calls[c].kind \in {"restore", "inspect", "start", "poll", "confirm", "cancel", "signOut"}
  BY <1>0, <1>3 DEF Asks, Wishes
<1> QED
  BY <1>5, <1>6, <1>7, <1>8, <1>9, <1>10, <1>11, <1>12

\* Unless the player acts, only an answer to the last action changes the interface (auth.ts:106).
LEMMA OnlyLastShown ==
  ASSUME IInv, [Next]_vars, generation' = generation
  PROVE  /\ view' # view =>
              /\ <<view.status, view'.status>> \in Course(wanted)
              /\ \E c \in Calls : calls[c] # None /\ calls[c].gen = generation /\ calls'[c] # calls[c]
         /\ timer' \notin {timer, 0} =>
              wanted = "start" /\ timer' = generation /\ view'.status = "waiting"
<1>0. SessionInv /\ generation \in Nat
  BY DEF IInv, SessionInv, SessionTypes
<1>1. CASE UNCHANGED <<view, timer>>
  BY <1>1
<1>2. CASE ~UNCHANGED <<view, timer>>
  <2>1. SessionStep
    BY <1>2 DEF Next, vars, sessionVars, interface, StartDownload, CancelDownload, TransferGoesOn,
       Collect, SessionGoesOn
  <2>2. ~Player /\ ~Restart
    BY <1>0 DEF Player, CheckSession, SignIn, CancelSignIn, SignOut, Restart, Act
  <2>3. TimerFires \/ \E c \in Calls : Arrive(c)
    BY <1>2, <2>1, <2>2 DEF SessionStep, Stop, Subscribe, Lock, LockInspect, LockStart, LockPoll,
       LockSignOut, LockCancel, Reply, RequestFails, Inspected, Started, Exchanged, Revoked, TokenEnds,
       AskReceipt, Release, interface
  <2>4. CASE TimerFires
    BY <2>4 DEF TimerFires
  <2>5. ASSUME NEW c \in Calls, Arrive(c)
        PROVE  /\ view' # view =>
                    /\ <<view.status, view'.status>> \in Course(wanted)
                    /\ \E d \in Calls : calls[d] # None /\ calls[d].gen = generation /\ calls'[d] # calls[d]
               /\ timer' \notin {timer, 0} =>
                    wanted = "start" /\ timer' = generation /\ view'.status = "waiting"
    BY <1>0, <2>5, AnswerShown
  <2> QED
    BY <2>3, <2>4, <2>5
<1> QED
  BY <1>1, <1>2

\* A challenge stays over from the moment a cancel or a sign-out had the lock or its process
\* ended, whatever answers come after (registry/auth.rs:283); and what the interface shows is
\* changed by nothing but the player and the answers to the player's last action, in the way
\* that action may change it (auth.ts:106).
THEOREM LateAnswersAreIgnored == Spec => LateAnswersChangeNothing
<1>1. IInv /\ [Next]_vars =>
        [credential' # credential /\ credential' # None /\ saved' # saved
           => pending # 0 /\ pending \notin over]_sessionVars
  BY EndedStays
<1>2. IInv /\ [Next]_vars =>
        [generation' = generation =>
           /\ view' # view =>
                /\ <<view.status, view'.status>> \in Course(wanted)
                /\ \E c \in Calls : calls[c] # None /\ calls[c].gen = generation /\ calls'[c] # calls[c]
           /\ timer' \notin {timer, 0} =>
                wanted = "start" /\ timer' = generation /\ view'.status = "waiting"]_sessionVars
  BY OnlyLastShown
<1> QED
  BY <1>1, <1>2, Invariance, PTL
  DEF Spec, LateAnswersChangeNothing, EndedChallengeStaysEnded, OnlyTheLastIsShown

\* A sign-out or a cancel reaches every request under way, the one that was handed out and the
\* transfer (auth_service.rs:83).
THEOREM StopsReachAll == Spec => StopReachesAll
<1>1. ASSUME IInv, [Next]_vars, stopped' # stopped, stopped' # {}
      PROVE  /\ \A c \in Calls : At(c, "network") => calls[c].chan \in stopped'
             /\ held # None => held.chan \in stopped'
             /\ download # None => download.chan \in stopped'
  <2>1. SessionStep /\ ~Restart
    BY <1>1 DEF Next, vars, sessionVars, StartDownload, CancelDownload, TransferGoesOn, Collect,
       SessionGoesOn, Restart
  <2>2. \E c \in Calls : Stop(c)
    BY <1>1, <2>1 DEF SessionStep, Subscribe, Lock, LockInspect, LockStart, LockPoll, LockSignOut,
       LockCancel, Reply, RequestFails, Inspected, Started, Exchanged, Revoked, Arrive, TokenEnds, Player,
       CheckSession, SignIn, CancelSignIn, SignOut, TimerFires, AskReceipt, Release
  <2>3. stopped' = Reach
    BY <2>2 DEF Stop, Reach
  <2> QED
    BY <1>1, <2>3 DEF IInv, SessionInv, CommandInv, HeldReached, At
<1>2. IInv /\ [Next]_vars =>
        [stopped' # stopped /\ stopped' # {} =>
           /\ \A c \in Calls : At(c, "network") => calls[c].chan \in stopped'
           /\ held # None => held.chan \in stopped'
           /\ download # None => download.chan \in stopped']_vars
  BY <1>1
<1> QED
  BY <1>2, Invariance, PTL DEF Spec, StopReachesAll

-----------------------------------------------------------------------------
\* The saved trust.

USE TimeAssumption, NothingAssumption, KeyDocAssumption, SecurityDocAssumption,
    ReleaseDocAssumption, HistoryAssumption, ArchiveAssumption

\* The retained decisions, and those of the saved snapshot, were all accepted.
DecisionsAccepted ==
  /\ \A h \in Hashes : decisions[h] # Nothing => <<h, decisions[h]>> \in accepted
  /\ security # Nothing =>
       \A h \in DOMAIN security.decisions : <<h, security.decisions[h]>> \in accepted

TrustInv == TrustTypeOK /\ NewestDecisionIsKept /\ DecisionsAccepted

-----------------------------------------------------------------------------

\* One decision saved: the newer of the two stays, and it is one of the two
\* (save_decision, storage/registry.rs:551).
LEMMA NewerStays ==
  ASSUME TrustTypeOK, NEW h \in Hashes, NEW new \in Decisions, NEW strict \in BOOLEAN,
         DecisionAllowed(h, new, strict)
  PROVE  /\ DecisionAfter(h, new) \in {new, decisions[h]} \cap Decisions
         /\ new.rev <= DecisionAfter(h, new).rev
         /\ new.rev = DecisionAfter(h, new).rev => new = DecisionAfter(h, new)
         /\ decisions[h] # Nothing =>
              /\ decisions[h].rev <= DecisionAfter(h, new).rev
              /\ decisions[h].rev = DecisionAfter(h, new).rev
                   => decisions[h] = DecisionAfter(h, new)
  BY DEF TrustTypeOK, DecisionAllowed, DecisionAfter, Decisions

\* The decisions of a snapshot that verifies are decisions (revisions from 1).
LEMMA SnapshotDecisions ==
  ASSUME NEW d \in SecurityDocs, NEW k, SecurityVerifies(d, k), NEW h \in DOMAIN d.decisions
  PROVE  h \in Hashes /\ d.decisions[h] \in Decisions
  BY DEF SecurityVerifies, Decisions

\* The block of a manifest is a decision.
LEMMA ReportedDecision ==
  ASSUME NEW d \in ReleaseDocs
  PROVE  /\ ArchiveOf[d.approval] \in Hashes
         /\ Reported(d) \subseteq Decisions
         /\ \A b \in Reported(d) : b = [rev |-> d.block, status |-> "blocked"]
  BY DEF Reported, Decisions, DecisionStatuses

LEMMA TrustStarts == TrustInit => TrustInv
  BY DEF TrustInit, TrustInv, TrustTypeOK, NewestDecisionIsKept, DecisionsAccepted

-----------------------------------------------------------------------------

LEMMA TrustTypeStep == TrustTypeOK /\ [TrustNext]_trustVars => TrustTypeOK'
<1> SUFFICES ASSUME TrustTypeOK, [TrustNext]_trustVars PROVE TrustTypeOK'
  OBVIOUS
<1>1. ASSUME NEW d \in KeyDocs, AcceptKeys(d) PROVE TrustTypeOK'
  BY <1>1 DEF AcceptKeys, TrustTypeOK
<1>2. ASSUME NEW d \in SecurityDocs, AcceptSecurity(d) PROVE TrustTypeOK'
  <2> USE <1>2
  <2>1. \A h \in DOMAIN d.decisions :
          /\ h \in Hashes
          /\ d.decisions[h] \in Decisions
          /\ DecisionAfter(h, d.decisions[h]) \in Decisions
    BY SnapshotDecisions, NewerStays DEF AcceptSecurity
  <2>2. decisions' \in [Hashes -> Decisions \cup {Nothing}]
    BY <2>1 DEF AcceptSecurity, TrustTypeOK
  <2>3. accepted' \subseteq Hashes \X Decisions
    BY <2>1 DEF AcceptSecurity, TrustTypeOK
  <2> QED
    BY <2>2, <2>3 DEF AcceptSecurity, TrustTypeOK
<1>3. ASSUME NEW r \in Releases, NEW d \in ReleaseDocs, AcceptRelease(r, d) PROVE TrustTypeOK'
  <2> USE <1>3
  <2> DEFINE b == [rev |-> d.block, status |-> "blocked"]
             h == ArchiveOf[d.approval]
  <2>1. Reported(d) # {} => b \in Reported(d)
    BY ReportedDecision
  <2>2. Reported(d) # {} => DecisionAfter(h, b) \in Decisions
    BY <2>1, ReportedDecision, NewerStays DEF AcceptRelease
  <2>3. decisions' \in [Hashes -> Decisions \cup {Nothing}]
    BY <2>2 DEF AcceptRelease, TrustTypeOK
  <2>4. accepted' \subseteq Hashes \X Decisions
    BY ReportedDecision DEF AcceptRelease, TrustTypeOK
  <2> QED
    BY <2>3, <2>4 DEF AcceptRelease, TrustTypeOK
<1>4. ASSUME NEW r \in Releases, Begin(r) PROVE TrustTypeOK'
  <2>1. Identity(r) \in [release : Releases, approval : Approvals, securityRev : Nat]
    BY <1>4 DEF Begin, Ready, Identity, TrustTypeOK
  <2> QED
    BY <1>4, <2>1 DEF Begin, TrustTypeOK
<1>5. CASE Commit
  BY <1>5 DEF Commit, TrustTypeOK
<1>6. CASE Abandon
  BY <1>6 DEF Abandon, TrustTypeOK
<1>7. CASE ClockMoves
  BY <1>7 DEF ClockMoves, savedTrust, TrustTypeOK
<1>8. CASE UNCHANGED trustVars
  BY <1>8 DEF trustVars, TrustTypeOK
<1> QED
  BY <1>1, <1>2, <1>3, <1>4, <1>5, <1>6, <1>7, <1>8 DEF TrustNext

\* The decisions change only with the documents.
LEMMA OthersKeepDecisions ==
  ASSUME [TrustNext]_trustVars,
         \A d \in SecurityDocs : ~AcceptSecurity(d),
         \A r \in Releases, d \in ReleaseDocs : ~AcceptRelease(r, d)
  PROVE  UNCHANGED <<decisions, accepted, security>>
  BY DEF TrustNext, trustVars, savedTrust, AcceptKeys, Begin, Commit, Abandon, ClockMoves

LEMMA DecisionStep == TrustInv /\ [TrustNext]_trustVars => NewestDecisionIsKept' /\ DecisionsAccepted'
<1> SUFFICES ASSUME TrustInv, [TrustNext]_trustVars PROVE NewestDecisionIsKept' /\ DecisionsAccepted'
  OBVIOUS
<1> USE DEF TrustInv
<1>1. ASSUME NEW d \in SecurityDocs, AcceptSecurity(d)
      PROVE  NewestDecisionIsKept' /\ DecisionsAccepted'
  <2>1. \A h \in DOMAIN d.decisions :
          /\ h \in Hashes
          /\ d.decisions[h] \in Decisions
          /\ DecisionAllowed(h, d.decisions[h], TRUE)
    BY <1>1, SnapshotDecisions DEF AcceptSecurity
  <2>2. \A h \in DOMAIN d.decisions :
          /\ decisions'[h] \in {d.decisions[h], decisions[h]} \cap Decisions
          /\ d.decisions[h].rev <= decisions'[h].rev
          /\ d.decisions[h].rev = decisions'[h].rev => d.decisions[h] = decisions'[h]
          /\ decisions[h] # Nothing =>
               /\ decisions[h].rev <= decisions'[h].rev
               /\ decisions[h].rev = decisions'[h].rev => decisions[h] = decisions'[h]
          /\ <<h, d.decisions[h]>> \in accepted'
    <3> SUFFICES ASSUME NEW h \in DOMAIN d.decisions
                 PROVE  /\ decisions'[h] \in {d.decisions[h], decisions[h]} \cap Decisions
                        /\ d.decisions[h].rev <= decisions'[h].rev
                        /\ d.decisions[h].rev = decisions'[h].rev => d.decisions[h] = decisions'[h]
                        /\ decisions[h] # Nothing =>
                             /\ decisions[h].rev <= decisions'[h].rev
                             /\ decisions[h].rev = decisions'[h].rev => decisions[h] = decisions'[h]
                        /\ <<h, d.decisions[h]>> \in accepted'
      OBVIOUS
    <3> DEFINE n == d.decisions[h]
    <3>1. h \in Hashes /\ n \in Decisions /\ DecisionAllowed(h, n, TRUE)
      BY <2>1
    <3>2. decisions'[h] = DecisionAfter(h, n) /\ <<h, n>> \in accepted'
      BY <1>1, <3>1 DEF AcceptSecurity
    <3>3. TrustTypeOK
      OBVIOUS
    <3> HIDE DEF n, TrustInv
    <3>4. /\ DecisionAfter(h, n) \in {n, decisions[h]} \cap Decisions
          /\ n.rev <= DecisionAfter(h, n).rev
          /\ n.rev = DecisionAfter(h, n).rev => n = DecisionAfter(h, n)
          /\ decisions[h] # Nothing =>
               /\ decisions[h].rev <= DecisionAfter(h, n).rev
               /\ decisions[h].rev = DecisionAfter(h, n).rev => decisions[h] = DecisionAfter(h, n)
      BY <3>1, <3>3, NewerStays
    <3> QED
      BY <3>2, <3>4 DEF n
  <2>3. \A h \in Hashes : h \notin DOMAIN d.decisions => decisions'[h] = decisions[h]
    BY <1>1 DEF AcceptSecurity
  <2>4. ASSUME NEW a \in accepted'
        PROVE  /\ decisions'[a[1]] # Nothing
               /\ a[2].rev <= decisions'[a[1]].rev
               /\ a[2].rev = decisions'[a[1]].rev => a[2] = decisions'[a[1]]
    <3>1. CASE a \in accepted
      <4>1. /\ a[1] \in Hashes
            /\ a[2] \in Decisions
            /\ decisions[a[1]] \in Decisions
            /\ a[2].rev <= decisions[a[1]].rev
            /\ a[2].rev = decisions[a[1]].rev => a[2] = decisions[a[1]]
        BY <3>1 DEF TrustTypeOK, NewestDecisionIsKept
      <4>2. CASE a[1] \in DOMAIN d.decisions
        <5>1. /\ decisions'[a[1]] \in Decisions
              /\ decisions[a[1]].rev <= decisions'[a[1]].rev
              /\ decisions[a[1]].rev = decisions'[a[1]].rev => decisions[a[1]] = decisions'[a[1]]
          BY <2>2, <4>1, <4>2 DEF Decisions
        <5> QED
          BY <4>1, <5>1 DEF Decisions
      <4>3. CASE a[1] \notin DOMAIN d.decisions
        BY <2>3, <4>1, <4>3
      <4> QED
        BY <4>2, <4>3
    <3>2. CASE a \notin accepted
      <4>1. PICK h \in DOMAIN d.decisions : a = <<h, d.decisions[h]>>
        BY <1>1, <3>2 DEF AcceptSecurity
      <4>2. /\ decisions'[h] \in Decisions
            /\ d.decisions[h].rev <= decisions'[h].rev
            /\ d.decisions[h].rev = decisions'[h].rev => d.decisions[h] = decisions'[h]
        BY <2>2
      <4> QED
        BY <4>1, <4>2
    <3> QED
      BY <3>1, <3>2
  <2>5. ASSUME NEW h \in Hashes, decisions'[h] # Nothing
        PROVE  <<h, decisions'[h]>> \in accepted'
    <3>1. accepted \subseteq accepted'
      BY <1>1 DEF AcceptSecurity
    <3>2. CASE h \in DOMAIN d.decisions
      <4>1. decisions'[h] \in {d.decisions[h], decisions[h]}
        BY <2>2, <3>2
      <4> QED
        BY <2>2, <2>5, <3>1, <3>2, <4>1 DEF DecisionsAccepted
    <3> QED
      BY <2>3, <2>5, <3>1, <3>2 DEF DecisionsAccepted
  <2>6. security' = d
    BY <1>1 DEF AcceptSecurity
  <2> QED
    BY <2>2, <2>4, <2>5, <2>6 DEF NewestDecisionIsKept, DecisionsAccepted
<1>2. ASSUME NEW r \in Releases, NEW d \in ReleaseDocs, AcceptRelease(r, d)
      PROVE  NewestDecisionIsKept' /\ DecisionsAccepted'
  <2> DEFINE b == [rev |-> d.block, status |-> "blocked"]
             h == ArchiveOf[d.approval]
  <2>1. CASE Reported(d) = {}
    <3>1. UNCHANGED <<decisions, accepted, security>>
      <4>1. decisions' = [g \in Hashes |-> decisions[g]]
        BY <1>2, <2>1 DEF AcceptRelease
      <4> QED
        BY <1>2, <2>1, <4>1 DEF AcceptRelease, TrustTypeOK
    <3> QED
      BY <3>1 DEF NewestDecisionIsKept, DecisionsAccepted
  <2>2. CASE Reported(d) # {}
    <3>1. /\ h \in Hashes
          /\ b \in Decisions
          /\ Reported(d) = {b}
      BY <2>2, ReportedDecision
    <3>2. /\ DecisionAllowed(h, b, FALSE)
          /\ decisions'[h] = DecisionAfter(h, b)
          /\ \A g \in Hashes : g # h => decisions'[g] = decisions[g]
          /\ accepted' = accepted \cup {<<h, b>>}
          /\ security' = security
      BY <1>2, <2>2, <3>1, ZenonT(40) DEF AcceptRelease
    <3> HIDE DEF b, h
    <3>3. /\ decisions'[h] \in {b, decisions[h]} \cap Decisions
          /\ b.rev <= decisions'[h].rev
          /\ b.rev = decisions'[h].rev => b = decisions'[h]
          /\ decisions[h] # Nothing =>
               /\ decisions[h].rev <= decisions'[h].rev
               /\ decisions[h].rev = decisions'[h].rev => decisions[h] = decisions'[h]
      <4>1. TrustTypeOK
        OBVIOUS
      <4> HIDE DEF TrustInv
      <4>2. /\ DecisionAfter(h, b) \in {b, decisions[h]} \cap Decisions
            /\ b.rev <= DecisionAfter(h, b).rev
            /\ b.rev = DecisionAfter(h, b).rev => b = DecisionAfter(h, b)
            /\ decisions[h] # Nothing =>
                 /\ decisions[h].rev <= DecisionAfter(h, b).rev
                 /\ decisions[h].rev = DecisionAfter(h, b).rev => decisions[h] = DecisionAfter(h, b)
        BY <3>1, <3>2, <4>1, NewerStays
      <4> QED
        BY <3>2, <4>2
    <3>4. ASSUME NEW a \in accepted
          PROVE  /\ decisions'[a[1]] # Nothing
                 /\ a[2].rev <= decisions'[a[1]].rev
                 /\ a[2].rev = decisions'[a[1]].rev => a[2] = decisions'[a[1]]
      <4>1. /\ a[1] \in Hashes
            /\ a[2] \in Decisions
            /\ decisions[a[1]] \in Decisions
            /\ a[2].rev <= decisions[a[1]].rev
            /\ a[2].rev = decisions[a[1]].rev => a[2] = decisions[a[1]]
        BY DEF TrustTypeOK, NewestDecisionIsKept
      <4>2. CASE a[1] = h
        BY <3>3, <4>1, <4>2 DEF Decisions
      <4>3. CASE a[1] # h
        BY <3>2, <4>1, <4>3
      <4> QED
        BY <4>2, <4>3
    <3>5. NewestDecisionIsKept'
      BY <3>2, <3>3, <3>4 DEF NewestDecisionIsKept
    <3>6. DecisionsAccepted'
      BY <3>2, <3>3 DEF DecisionsAccepted
    <3> QED
      BY <3>5, <3>6
  <2> QED
    BY <2>1, <2>2
<1> QED
  BY <1>1, <1>2, OthersKeepDecisions DEF NewestDecisionIsKept, DecisionsAccepted

\* The inductive invariant holds in every reachable state.
THEOREM TrustIsKept == TrustSpec => []TrustInv
<1>1. TrustInv /\ [TrustNext]_trustVars => TrustInv'
  BY TrustTypeStep, DecisionStep DEF TrustInv
<1> QED
  BY <1>1, TrustStarts, PTL DEF TrustSpec

\* Streams, decisions and the approval of a download keep their types.
THEOREM TrustTypes == TrustSpec => []TrustTypeOK
  BY TrustIsKept, PTL DEF TrustInv

\* In whatever order documents are accepted, the newest decision about an archive
\* is the retained one (save_decision, storage/registry.rs:551).
THEOREM NewestKept == TrustSpec => []NewestDecisionIsKept
  BY TrustIsKept, PTL DEF TrustInv

-----------------------------------------------------------------------------

LEMMA ForwardSame == ASSUME NEW x, x = Nothing \/ x.rev \in Nat PROVE Forward(x, x)
  BY DEF Forward

LEMMA ForwardAllowed ==
  ASSUME NEW x, NEW d, d # Nothing, d.rev \in Nat, x = Nothing \/ x.rev \in Nat, StreamAllows(x, d)
  PROVE  Forward(x, d)
  BY DEF Forward, StreamAllows

\* No accepted document takes a saved stream back or replaces the payload of a
\* revision (check_stream, storage/registry.rs:533).
THEOREM StreamsAdvance == TrustSpec => StreamsOnlyAdvance
<1> DEFINE A == /\ Forward(keyset, keyset')
                /\ Forward(security, security')
                /\ \A r \in Releases : Forward(manifest[r], manifest'[r])
<1>1. TrustTypeOK /\ [TrustNext]_trustVars => [A]_trustVars
  <2> SUFFICES ASSUME TrustTypeOK, [TrustNext]_trustVars PROVE A
    OBVIOUS
  <2>1. /\ keyset = Nothing \/ keyset.rev \in Nat
        /\ security = Nothing \/ security.rev \in Nat
        /\ \A r \in Releases : manifest[r] = Nothing \/ manifest[r].rev \in Nat
    BY DEF TrustTypeOK
  <2>2. /\ keyset' = keyset => Forward(keyset, keyset')
        /\ security' = security => Forward(security, security')
        /\ manifest' = manifest => \A r \in Releases : Forward(manifest[r], manifest'[r])
    BY <2>1, ForwardSame
  <2>3. ASSUME NEW d \in KeyDocs, AcceptKeys(d) PROVE A
    <3>1. Forward(keyset, keyset')
      BY <2>1, <2>3, ForwardAllowed DEF AcceptKeys
    <3> QED
      BY <2>2, <2>3, <3>1 DEF AcceptKeys
  <2>4. ASSUME NEW d \in SecurityDocs, AcceptSecurity(d) PROVE A
    <3>1. Forward(security, security')
      BY <2>1, <2>4, ForwardAllowed DEF AcceptSecurity
    <3> QED
      BY <2>2, <2>4, <3>1 DEF AcceptSecurity
  <2>5. ASSUME NEW r \in Releases, NEW d \in ReleaseDocs, AcceptRelease(r, d) PROVE A
    <3>1. manifest' = [manifest EXCEPT ![r] = d] /\ StreamAllows(manifest[r], d)
      BY <2>5 DEF AcceptRelease
    <3>2. ASSUME NEW q \in Releases PROVE Forward(manifest[q], manifest'[q])
      <4>1. CASE q = r
        <5>1. manifest'[q] = d
          BY <3>1, <4>1 DEF TrustTypeOK
        <5>2. Forward(manifest[q], d)
          BY <2>1, <3>1, <4>1, ForwardAllowed
        <5> QED
          BY <5>1, <5>2
      <4>2. CASE q # r
        <5>1. manifest'[q] = manifest[q]
          BY <3>1, <4>2 DEF TrustTypeOK
        <5> QED
          BY <2>1, <5>1, ForwardSame
      <4> QED
        BY <4>1, <4>2
    <3> QED
      BY <2>2, <2>5, <3>2 DEF AcceptRelease
  <2>6. CASE UNCHANGED <<keyset, security, manifest>>
    BY <2>2, <2>6
  <2>7. \/ \E d \in KeyDocs : AcceptKeys(d)
        \/ \E d \in SecurityDocs : AcceptSecurity(d)
        \/ \E r \in Releases, d \in ReleaseDocs : AcceptRelease(r, d)
        \/ UNCHANGED <<keyset, security, manifest>>
    BY DEF TrustNext, trustVars, savedTrust, Begin, Commit, Abandon, ClockMoves
  <2> QED
    BY <2>3, <2>4, <2>5, <2>6, <2>7
<1> QED
  BY <1>1, TrustTypes, PTL DEF TrustSpec, StreamsOnlyAdvance

\* A block ends only by a newer decision to clear in a newly accepted snapshot:
\* not by a manifest, an omission, an older snapshot or the clock
\* (accept_registry_security, storage/registry.rs:74).
THEOREM BlockEnds == TrustSpec => BlockEndsOnlyByClear
<1> DEFINE A == \A h \in Hashes : Blocked(h) /\ ~Blocked(h)' =>
                  /\ security' # security
                  /\ h \in DOMAIN security'.decisions
                  /\ security'.decisions[h].status = "cleared"
                  /\ security'.decisions[h].rev > decisions[h].rev
<1>1. TrustInv /\ [TrustNext]_trustVars => [A]_trustVars
  <2> SUFFICES ASSUME TrustInv, [TrustNext]_trustVars,
                      NEW h \in Hashes, Blocked(h), ~Blocked(h)'
               PROVE  /\ security' # security
                      /\ h \in DOMAIN security'.decisions
                      /\ security'.decisions[h].status = "cleared"
                      /\ security'.decisions[h].rev > decisions[h].rev
    OBVIOUS
  <2> USE DEF TrustInv
  <2>1. decisions[h] \in Decisions /\ decisions[h].status = "blocked"
    BY DEF Blocked, TrustTypeOK
  <2>2. decisions'[h] # decisions[h]
    BY DEF Blocked
  <2>3. ASSUME NEW r \in Releases, NEW d \in ReleaseDocs, AcceptRelease(r, d) PROVE FALSE
    <3> DEFINE b == [rev |-> d.block, status |-> "blocked"]
    <3>1. h = ArchiveOf[d.approval] /\ Reported(d) # {}
      BY <2>2, <2>3 DEF AcceptRelease, TrustTypeOK
    <3>2. Reported(d) = {b} /\ b \in Decisions
      BY <3>1, ReportedDecision
    <3>3. DecisionAllowed(h, b, FALSE) /\ decisions'[h] = DecisionAfter(h, b)
      BY <2>3, <3>1, <3>2 DEF AcceptRelease
    <3>4. DecisionAfter(h, b) \in {b, decisions[h]} \cap Decisions
      <4>1. TrustTypeOK
        OBVIOUS
      <4> HIDE DEF TrustInv, b
      <4> QED
        BY <3>2, <3>3, <4>1, NewerStays
    <3> QED
      BY <2>1, <3>3, <3>4 DEF Blocked
  <2>4. PICK d \in SecurityDocs : AcceptSecurity(d)
    BY <2>2, <2>3, OthersKeepDecisions
  <2>5. h \in DOMAIN d.decisions /\ security' = d
    BY <2>2, <2>4 DEF AcceptSecurity
  <2>6. d.decisions[h] \in Decisions /\ DecisionAllowed(h, d.decisions[h], TRUE)
    BY <2>4, <2>5, SnapshotDecisions DEF AcceptSecurity
  <2>7. decisions'[h] = DecisionAfter(h, d.decisions[h])
    BY <2>4, <2>5 DEF AcceptSecurity
  <2>8. /\ decisions'[h] = d.decisions[h]
        /\ decisions[h].rev < d.decisions[h].rev
    <3>1. /\ decisions'[h] \in {d.decisions[h], decisions[h]} \cap Decisions
          /\ decisions[h].rev <= decisions'[h].rev
          /\ decisions[h].rev = decisions'[h].rev => decisions[h] = decisions'[h]
      BY <2>1, <2>6, <2>7, NewerStays
    <3> QED
      BY <2>2, <3>1, <2>1 DEF Decisions
  <2>9. d.decisions[h].status = "cleared"
    BY <2>6, <2>8 DEF Blocked, Decisions, DecisionStatuses
  <2>10. security # d
    <3> SUFFICES ASSUME security = d PROVE FALSE
      OBVIOUS
    <3>1. <<h, d.decisions[h]>> \in accepted
      BY <2>5 DEF DecisionsAccepted
    <3>2. d.decisions[h].rev <= decisions[h].rev
      BY <3>1 DEF NewestDecisionIsKept
    <3> QED
      BY <2>1, <2>6, <2>8, <3>2 DEF Decisions
  <2> QED
    BY <2>1, <2>5, <2>6, <2>8, <2>9, <2>10 DEF Decisions
<1> QED
  BY <1>1, TrustIsKept, PTL DEF TrustSpec, BlockEndsOnlyByClear

\* An installation rests on the security revision its download started under, and
\* every block of its archive was cleared by a newer decision
\* (complete_registry_install, storage/registry.rs:403).
THEOREM CommitSound == TrustSpec => CommitUnderOneSnapshot
<1> DEFINE A == installed' # installed =>
       /\ underWay.securityRev = security.rev
       /\ \A a \in accepted :
            (a[1] = ArchiveOf[underWay.approval] /\ a[2].status = "blocked")
              => \E b \in accepted :
                   b[1] = a[1] /\ b[2].status = "cleared" /\ b[2].rev > a[2].rev
<1>1. TrustInv /\ [TrustNext]_trustVars => [A]_trustVars
  <2> SUFFICES ASSUME TrustInv, [TrustNext]_trustVars, installed' # installed PROVE A
    OBVIOUS
  <2> USE DEF TrustInv
  <2>1. Commit
    BY DEF TrustNext, trustVars, savedTrust, AcceptKeys, AcceptSecurity, AcceptRelease, Begin, Abandon, ClockMoves
  <2>2. /\ Ready(underWay.release)
        /\ underWay = Identity(underWay.release)
        /\ underWay # Nothing
    BY <2>1 DEF Commit
  <2>3. underWay.release \in Releases
    BY <2>2 DEF TrustTypeOK
  <2> DEFINE m == manifest[underWay.release]
  <2>4. m \in ReleaseDocs /\ m.securityRev = security.rev /\ ~Blocked(ArchiveOf[m.approval])
    BY <2>2, <2>3 DEF Ready, ReleaseVerifies, TrustTypeOK
  <2>5. underWay.approval = m.approval /\ underWay.securityRev = m.securityRev
    BY <2>2 DEF Identity
  <2>6. ASSUME NEW a \in accepted, a[1] = ArchiveOf[underWay.approval], a[2].status = "blocked"
        PROVE  \E b \in accepted :
                 b[1] = a[1] /\ b[2].status = "cleared" /\ b[2].rev > a[2].rev
    <3> DEFINE h == a[1]
    <3>1. h \in Hashes /\ a[2] \in Decisions /\ ~Blocked(h)
      BY <2>4, <2>5, <2>6 DEF TrustTypeOK
    <3>2. /\ decisions[h] # Nothing
          /\ decisions[h] \in Decisions
          /\ a[2].rev <= decisions[h].rev
          /\ a[2].rev = decisions[h].rev => a[2] = decisions[h]
      BY <3>1 DEF NewestDecisionIsKept, TrustTypeOK
    <3>3. decisions[h].status = "cleared"
      BY <3>1, <3>2 DEF Blocked, Decisions, DecisionStatuses
    <3>4. decisions[h].rev > a[2].rev
      BY <2>6, <3>1, <3>2, <3>3 DEF Decisions
    <3>5. <<h, decisions[h]>> \in accepted
      BY <3>1, <3>2 DEF DecisionsAccepted
    <3> QED
      BY <3>3, <3>4, <3>5
  <2> QED
    BY <2>4, <2>5, <2>6
<1> QED
  BY <1>1, TrustIsKept, PTL DEF TrustSpec, CommitUnderOneSnapshot

-----------------------------------------------------------------------------
\* Where a retained decision is from: a snapshot, or a manifest of a snapshot's revision.
Source(h, c) ==
  \/ \E t \in signed \cap SecurityDocs : h \in DOMAIN t.decisions /\ t.decisions[h] = c
  \/ \E m \in signed \cap ReleaseDocs, s \in signed \cap SecurityDocs :
       ArchiveOf[m.approval] = h /\ c \in Reported(m) /\ m.securityRev = s.rev

\* What is saved is what the registry signed.
FromSigned ==
  /\ keyset # Nothing => keyset \in signed \cap KeyDocs
  /\ security # Nothing => security \in signed \cap SecurityDocs
  /\ \A r \in Releases : manifest[r] # Nothing => manifest[r] \in signed \cap ManifestsOf(r)
  /\ \A h \in Hashes : decisions[h] # Nothing => Source(h, decisions[h])

\* Only what is signed is saved, and no decision without where it is from.
LEMMA FromSignedStep == TrustTypeOK /\ FromSigned /\ [TrustNext]_trustVars => FromSigned'
<1> SUFFICES ASSUME TrustTypeOK, FromSigned, [TrustNext]_trustVars PROVE FromSigned'
  OBVIOUS
<1>0. signed' = signed
  BY DEF TrustNext, trustVars, savedTrust, AcceptKeys, AcceptSecurity, AcceptRelease, Begin, Commit,
     Abandon, ClockMoves
<1>1. ASSUME NEW d \in KeyDocs, AcceptKeys(d) PROVE FromSigned'
  BY <1>0, <1>1 DEF AcceptKeys, FromSigned, Source
<1>2. ASSUME NEW d \in SecurityDocs, AcceptSecurity(d) PROVE FromSigned'
  <2>1. /\ d \in signed \cap SecurityDocs /\ security' = d
        /\ keyset' = keyset /\ manifest' = manifest
    BY <1>2 DEF AcceptSecurity
  <2>2. ASSUME NEW h \in Hashes, decisions'[h] # Nothing PROVE Source(h, decisions'[h])
    <3>1. CASE h \in DOMAIN d.decisions /\ decisions'[h] = d.decisions[h]
      BY <2>1, <3>1 DEF Source
    <3>2. CASE decisions'[h] = decisions[h]
      BY <2>2, <3>2 DEF FromSigned
    <3> QED
      BY <1>2, <3>1, <3>2 DEF AcceptSecurity, DecisionAfter
  <2> QED
    BY <1>0, <2>1, <2>2 DEF FromSigned, Source
<1>3. ASSUME NEW r \in Releases, NEW d \in ReleaseDocs, AcceptRelease(r, d) PROVE FromSigned'
  <2>1. /\ d \in signed \cap ReleaseDocs /\ d.release = r /\ manifest' = [manifest EXCEPT ![r] = d]
        /\ security # Nothing /\ d.securityRev = security.rev
        /\ keyset' = keyset /\ security' = security
    BY <1>3 DEF AcceptRelease, ReleaseVerifies, SavedSecurityVerifies
  <2>2. \A q \in Releases : manifest'[q] # Nothing => manifest'[q] \in signed \cap ManifestsOf(q)
    <3>1. d \in ManifestsOf(r)
      BY <2>1 DEF ManifestsOf
    <3>2. ASSUME NEW q \in Releases, manifest'[q] # Nothing
          PROVE  manifest'[q] \in signed \cap ManifestsOf(q)
      <4>1. CASE q = r
        BY <2>1, <3>1, <4>1 DEF TrustTypeOK
      <4>2. CASE q # r
        BY <2>1, <3>2, <4>2 DEF TrustTypeOK, FromSigned
      <4> QED
        BY <4>1, <4>2
    <3> QED
      BY <3>2
  <2>3. ASSUME NEW h \in Hashes, decisions'[h] # Nothing PROVE Source(h, decisions'[h])
    <3> DEFINE b == [rev |-> d.block, status |-> "blocked"]
    <3>1. CASE h = ArchiveOf[d.approval] /\ b \in Reported(d) /\ decisions'[h] = b
      BY <2>1, <3>1 DEF Source, FromSigned
    <3>2. CASE decisions'[h] = decisions[h]
      BY <2>3, <3>2 DEF FromSigned
    <3> QED
      BY <1>3, <3>1, <3>2 DEF AcceptRelease, DecisionAfter, Reported
  <2>4. ManifestsOf(r)' = ManifestsOf(r)
    BY DEF ManifestsOf
  <2> QED
    BY <1>0, <2>1, <2>2, <2>3 DEF FromSigned, Source, ManifestsOf
<1>4. CASE UNCHANGED <<keyset, security, manifest, decisions>>
  BY <1>0, <1>4 DEF FromSigned, Source, ManifestsOf
<1> QED
  BY <1>1, <1>2, <1>3, <1>4 DEF TrustNext, trustVars, savedTrust, Begin, Commit, Abandon, ClockMoves

\* The newest document of a stream passes the revision saved of it.
LEMMA NewestAllowed ==
  ASSUME NEW S, NEW x, NEW d \in S, Single(S), \A e \in S : e.rev \in Nat /\ e.rev <= d.rev,
         x # Nothing => x \in S
  PROVE  StreamAllows(x, d)
<1> SUFFICES ASSUME x # Nothing PROVE d.rev > x.rev \/ (d.rev = x.rev /\ Canonical(d) = Canonical(x))
  BY DEF StreamAllows
<1>1. x.rev \in Nat /\ d.rev \in Nat /\ x.rev <= d.rev
  OBVIOUS
<1>2. x.rev = d.rev => Canonical(d) = Canonical(x)
  BY DEF Single
<1> QED
  BY <1>1, <1>2

\* The decisions of a snapshot and of a manifest are stated.
LEMMA SnapshotStates ==
  ASSUME NEW docs, NEW t \in docs \cap SecurityDocs, NEW h \in DOMAIN t.decisions
  PROVE  <<h, t.decisions[h]>> \in Stated(docs)
<1> DEFINE Of(d) == {<<g, d.decisions[g]>> : g \in DOMAIN d.decisions}
<1>1. <<h, t.decisions[h]>> \in Of(t)
  OBVIOUS
<1>2. Of(t) \in {Of(d) : d \in docs \cap SecurityDocs}
  OBVIOUS
<1>3. UNION {Of(d) : d \in docs \cap SecurityDocs} \subseteq Stated(docs)
  BY DEF Stated
<1> HIDE DEF Of
<1> QED
  BY <1>1, <1>2, <1>3

LEMMA ManifestStates ==
  ASSUME NEW docs, NEW m \in docs \cap ReleaseDocs, NEW c \in Reported(m)
  PROVE  <<ArchiveOf[m.approval], c>> \in Stated(docs)
<1> DEFINE Of(d) == {<<ArchiveOf[d.approval], b>> : b \in Reported(d)}
<1>1. <<ArchiveOf[m.approval], c>> \in Of(m)
  OBVIOUS
<1>2. Of(m) \in {Of(d) : d \in docs \cap ReleaseDocs}
  OBVIOUS
<1>3. UNION {Of(d) : d \in docs \cap ReleaseDocs} \subseteq Stated(docs)
  BY DEF Stated
<1> QED
  BY <1>1, <1>2, <1>3

\* What a careful registry signed last passes what was saved before.
LEMMA NewestAccepted == TrustTypeOK /\ FromSigned => NewestIsNotRefused
<1> SUFFICES ASSUME TrustTypeOK, FromSigned, Consistent(signed) PROVE NewestIsNotRefused
  BY DEF NewestIsNotRefused
<1>1. \A d \in NewestOf(KeyDocs) : StreamAllows(keyset, d)
  <2> SUFFICES ASSUME NEW d \in NewestOf(KeyDocs) PROVE StreamAllows(keyset, d)
    OBVIOUS
  <2> DEFINE S == signed \cap KeyDocs
  <2>1. /\ d \in S /\ Single(S) /\ (keyset # Nothing => keyset \in S)
        /\ \A e \in S : e.rev \in Nat /\ e.rev <= d.rev
    BY KeyDocAssumption DEF NewestOf, Consistent, FromSigned
  <2> HIDE DEF S
  <2> QED
    BY <2>1, NewestAllowed
<1>2. ASSUME NEW a, NEW b, a \in Stated(signed), b \in Stated(signed), a[1] = b[1], a[2].rev = b[2].rev
      PROVE  a[2] = b[2]
  BY <1>2 DEF Consistent
<1>3. ASSUME NEW h \in Hashes, decisions[h] # Nothing
      PROVE  <<h, decisions[h]>> \in Stated(signed) /\ decisions[h].rev \in Nat
  <2>1. <<h, decisions[h]>> \in Stated(signed)
    <3>1. CASE \E t \in signed \cap SecurityDocs : h \in DOMAIN t.decisions /\ t.decisions[h] = decisions[h]
      BY <3>1, SnapshotStates
    <3>2. CASE \E m \in signed \cap ReleaseDocs : ArchiveOf[m.approval] = h /\ decisions[h] \in Reported(m)
      BY <3>2, ManifestStates
    <3> QED
      BY <1>3, <3>1, <3>2 DEF FromSigned, Source
  <2> QED
    BY <1>3, <2>1 DEF TrustTypeOK, Decisions
<1>4. ASSUME NEW d \in NewestOf(SecurityDocs)
      PROVE  /\ StreamAllows(security, d)
             /\ \A h \in DOMAIN d.decisions : DecisionAllowed(h, d.decisions[h], TRUE)
  <2> DEFINE S == signed \cap SecurityDocs
  <2>1. /\ d \in S /\ Single(S) /\ (security # Nothing => security \in S)
        /\ \A e \in S : e.rev \in Nat /\ e.rev <= d.rev
    BY SecurityDocAssumption DEF NewestOf, Consistent, FromSigned
  <2>2. StreamAllows(security, d)
    <3> HIDE DEF S
    <3> QED
      BY <2>1, NewestAllowed
  <2>3. ASSUME NEW h \in DOMAIN d.decisions, decisions[h] # Nothing
        PROVE  \/ d.decisions[h].rev > decisions[h].rev
               \/ d.decisions[h] = decisions[h]
    <3>1. h \in Hashes /\ d.decisions[h].rev \in Nat
      BY <2>1, SecurityDocAssumption
    <3>2. <<h, decisions[h]>> \in Stated(signed) /\ decisions[h].rev \in Nat
      BY <1>3, <2>3, <3>1
    <3>3. <<h, d.decisions[h]>> \in Stated(signed)
      BY <2>1, SnapshotStates
    <3>4. decisions[h].rev = d.decisions[h].rev => d.decisions[h] = decisions[h]
      <4>1. ASSUME decisions[h].rev = d.decisions[h].rev PROVE d.decisions[h] = decisions[h]
        <5> DEFINE a == <<h, d.decisions[h]>>
                   b == <<h, decisions[h]>>
        <5>1. a[1] = b[1] /\ a[2].rev = b[2].rev /\ a[2] = d.decisions[h] /\ b[2] = decisions[h]
          BY <4>1
        <5>2. a \in Stated(signed) /\ b \in Stated(signed)
          BY <3>2, <3>3
        <5> HIDE DEF a, b
        <5>3. a[2] = b[2]
          BY <1>2, <5>1, <5>2
        <5> QED
          BY <5>1, <5>3
      <4> QED
        BY <4>1
    <3>5. decisions[h].rev <= d.decisions[h].rev
      <4>1. CASE \E t \in S : h \in DOMAIN t.decisions /\ t.decisions[h] = decisions[h]
        BY <2>1, <4>1 DEF Consistent
      <4>2. CASE \E m \in signed \cap ReleaseDocs, s \in S :
                   ArchiveOf[m.approval] = h /\ decisions[h] \in Reported(m) /\ m.securityRev = s.rev
        <5>1. PICK m \in signed \cap ReleaseDocs, s \in S :
                ArchiveOf[m.approval] = h /\ decisions[h] \in Reported(m) /\ m.securityRev = s.rev
          BY <4>2
        <5>2. m.securityRev <= d.rev
          BY <2>1, <5>1
        <5>3. m.block <= d.decisions[h].rev
          BY <2>1, <5>1, <5>2 DEF Consistent
        <5>4. decisions[h].rev = m.block
          BY <5>1, ReportedDecision
        <5> QED
          BY <5>3, <5>4
      <4> QED
        BY <2>3, <3>1, <4>1, <4>2 DEF FromSigned, Source
    <3> QED
      BY <3>1, <3>2, <3>4, <3>5
  <2> QED
    BY <2>2, <2>3 DEF DecisionAllowed
<1>5. ASSUME NEW r \in Releases, NEW d \in NewestOf(ManifestsOf(r))
      PROVE  /\ StreamAllows(manifest[r], d)
             /\ \A b \in Reported(d) : DecisionAllowed(ArchiveOf[d.approval], b, FALSE)
  <2> DEFINE S == signed \cap ManifestsOf(r)
             h == ArchiveOf[d.approval]
  <2>1. /\ d \in S /\ Single(S) /\ (manifest[r] # Nothing => manifest[r] \in S)
        /\ \A e \in S : e.rev \in Nat /\ e.rev <= d.rev
    BY ReleaseDocAssumption DEF NewestOf, Consistent, FromSigned, ManifestsOf
  <2>2. StreamAllows(manifest[r], d)
    <3> HIDE DEF S
    <3> QED
      BY <2>1, NewestAllowed
  <2>3. d \in signed \cap ReleaseDocs /\ h \in Hashes
    BY <2>1, ReportedDecision DEF ManifestsOf
  <2>4. ASSUME NEW b \in Reported(d), decisions[h] # Nothing
        PROVE  b.rev > decisions[h].rev \/ b = decisions[h] \/ b.rev < decisions[h].rev
    <3> HIDE DEF h
    <3>1. b.rev \in Nat
      BY <2>3, ReportedDecision DEF Decisions
    <3>2. <<h, decisions[h]>> \in Stated(signed) /\ decisions[h].rev \in Nat
      BY <1>3, <2>3, <2>4
    <3>3. <<h, b>> \in Stated(signed)
      BY <2>3, ManifestStates DEF h
    <3>4. ASSUME b.rev = decisions[h].rev PROVE b = decisions[h]
      <4> DEFINE x == <<h, b>>
                 y == <<h, decisions[h]>>
      <4>1. x[1] = y[1] /\ x[2].rev = y[2].rev /\ x[2] = b /\ y[2] = decisions[h]
        BY <3>4
      <4>2. x \in Stated(signed) /\ y \in Stated(signed)
        BY <3>2, <3>3
      <4> HIDE DEF x, y
      <4>3. x[2] = y[2]
        BY <1>2, <4>1, <4>2
      <4> QED
        BY <4>1, <4>3
    <3> QED
      BY <3>1, <3>2, <3>4
  <2> QED
    BY <2>2, <2>4 DEF DecisionAllowed
<1> QED
  BY <1>1, <1>4, <1>5 DEF NewestIsNotRefused

\* What was saved admits the newest document of each stream, when the registry signs
\* consistently: the saved revision of the stream does, and so do the retained decisions about
\* the archives it names, whatever was accepted before (storage/registry.rs:533, 551).
THEOREM NewestPassesTheSaved == TrustSpec => []NewestIsNotRefused
<1>1. TrustInit => FromSigned
  BY DEF TrustInit, FromSigned
<1>2. TrustTypeOK /\ FromSigned /\ [TrustNext]_trustVars => FromSigned'
  BY FromSignedStep
<1> QED
  BY <1>1, <1>2, NewestAccepted, TrustTypes, PTL DEF TrustSpec

=============================================================================
