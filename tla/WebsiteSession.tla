--------------------------- MODULE WebsiteSession ---------------------------
(***************************************************************************)
(* The manager's session with the website: the commands of auth_service.rs *)
(* around one asynchronous lock, the account state behind it               *)
(* (registry/auth.rs), the credential in the Windows vault                 *)
(* (registry/credential.rs), and the interface's store (auth.ts), whose    *)
(* answers may come late.                                                  *)
(*                                                                         *)
(* A command waits for the lock and holds it over its request.  Cancel and *)
(* sign-out set the current cancellation channel before they wait; the     *)
(* next receiver then opens a new one.                                     *)
(***************************************************************************)
EXTENDS Naturals, FiniteSets

CONSTANTS
  Calls,           \* commands that may be under way at once
  Tokens,          \* bound: credentials the website hands out
  MaxGenerations,  \* bound: actions of the player
  MaxRestarts,     \* bound: ends of the process
  MaxFaults,       \* bound: failing calls of the vault
  None

Kinds == {"restore", "inspect", "start", "poll", "confirm", "cancel", "signOut", "receipt"}
Steps == {"sent", "ready", "network", "answered"}
Answers == {"none", "session", "challenge", "waiting", "signedIn", "done", "error"}
Statuses == {"checking", "signedOut", "waiting", "signedIn"}
Generations == 0..MaxGenerations
Channels == 0..MaxGenerations

Commands == [kind : Kinds, gen : Generations, step : Steps, chan : Channels,
             answer : Answers, token : Tokens \cup {None}]
Views == [status : Statuses, shown : Tokens \cup {None}, busy : BOOLEAN]
HeldRequests == [token : Tokens, chan : Channels]

ASSUME SessionAssumption ==
  /\ {MaxGenerations, MaxRestarts, MaxFaults} \subseteq Nat
  /\ None \notin Tokens \cup Commands \cup HeldRequests

VARIABLES
  calls,       \* commands under way
  pending,     \* the challenge of this sign-in, numbered by its generation; 0 is none
  credential,  \* the token in memory
  saved,       \* the token in the vault
  server,      \* what the website knows of each token
  current,     \* the current cancellation channel
  stopped,     \* channels that were set
  view,        \* the interface's store
  generation,  \* its counter of the player's actions
  timer,       \* the generation a poll is scheduled for; 0 is none
  held,        \* a request that was handed out for a download or a receipt
  restarts, vaultFaults,
  over,        \* auxiliary: challenges that were cancelled or signed out
  wanted       \* auxiliary: the player's last action

backend == <<pending, credential, saved>>
interface == <<view, generation, timer, wanted>>
sessionVars == <<calls, backend, server, current, stopped, interface, held,
                 restarts, vaultFaults, over>>

-----------------------------------------------------------------------------
(* Commands *)

New(kind, gen) ==
  [kind |-> kind, gen |-> gen, step |-> IF kind \in {"cancel", "signOut", "receipt"} THEN "sent" ELSE "ready",
   chan |-> 0, answer |-> "none", token |-> None]

Idle == {c \in Calls : calls[c] = None}
Sent(kind, gen) == Idle # {} /\ calls' = [calls EXCEPT ![CHOOSE c \in Idle : TRUE] = New(kind, gen)]

At(c, step) == calls[c] # None /\ calls[c].step = step
Is(c, kinds) == calls[c].kind \in kinds

Only(command) == [c \in Calls |-> IF c = CHOOSE d \in Calls : TRUE THEN command ELSE None]

\* Mutant of Free: the lock is not held over the request.
FreeAlways == TRUE

\* AuthService::auth is an asynchronous mutex: one command is between lock and answer.
Free == \A c \in Calls : ~At(c, "network")

\* Mutant of Receiver: every receiver opens a new channel.
ReceiverAlwaysNew == current + 1

Receiver == IF current \in stopped THEN current + 1 ELSE current
Cut(c) == calls[c].chan \in stopped

\* Auth::token: a credential that is over locally is none.
Token == IF credential # None /\ server[credential] = "expired" THEN None ELSE credential

Answered(c, answer, token) ==
  calls' = [calls EXCEPT ![c].step = "answered", ![c].answer = answer, ![c].token = token]

VaultFails(c) ==
  /\ vaultFaults < MaxFaults
  /\ vaultFaults' = vaultFaults + 1
  /\ Answered(c, "error", None)

\* clear_saved: the vault first; when that fails the memory keeps what the vault has.
Cleared == saved' = None /\ credential' = None /\ UNCHANGED vaultFaults
Forget(c) ==
  \/ Cleared /\ Answered(c, "none", None)
  \/ VaultFails(c) /\ UNCHANGED <<saved, credential>>

\* Before the lock: stop() of cancel and sign-out, receiver() of receipt_request.
Stop(c) ==
  /\ At(c, "sent") /\ Is(c, {"cancel", "signOut"})
  /\ stopped' = stopped \cup {current}
  /\ calls' = [calls EXCEPT ![c].step = "ready"]
  /\ UNCHANGED <<backend, server, current, interface, held, restarts, vaultFaults, over>>

Subscribe(c) ==
  /\ At(c, "sent") /\ Is(c, {"receipt"})
  /\ current' = Receiver
  /\ calls' = [calls EXCEPT ![c].step = "ready", ![c].chan = Receiver]
  /\ UNCHANGED <<backend, server, stopped, interface, held, restarts, vaultFaults, over>>

\* The lock is taken and the request goes out.
Requests(c, token) ==
  IF Is(c, {"receipt"})
    THEN calls' = [calls EXCEPT ![c].step = "network", ![c].token = token] /\ UNCHANGED current
    ELSE /\ current' = Receiver
         /\ calls' = [calls EXCEPT ![c].step = "network", ![c].token = token, ![c].chan = Receiver]

LockInspect(c) ==
  /\ At(c, "ready") /\ Free /\ Is(c, {"restore", "inspect", "confirm", "receipt"})
  /\ \/ /\ Is(c, {"restore"})
        /\ \/ saved = None /\ Answered(c, "none", None) /\ UNCHANGED <<saved, credential, vaultFaults, current>>
           \/ VaultFails(c) /\ UNCHANGED <<saved, credential, current>>
           \/ saved # None /\ server[saved] = "expired" /\ Forget(c) /\ UNCHANGED current
           \/ /\ saved # None /\ server[saved] # "expired"
              /\ credential' = saved
              /\ Requests(c, saved)
              /\ UNCHANGED <<saved, vaultFaults>>
     \/ /\ ~Is(c, {"restore"})
        /\ \/ Token = None /\ Forget(c) /\ UNCHANGED current
           \/ Token # None /\ Requests(c, Token) /\ UNCHANGED <<saved, credential, vaultFaults>>
  /\ UNCHANGED <<pending, server, stopped, interface, held, restarts, over>>

LockStart(c) ==
  /\ At(c, "ready") /\ Free /\ Is(c, {"start"})
  /\ \/ /\ Token # None
        /\ Answered(c, "error", None)
        /\ UNCHANGED <<pending, saved, credential, vaultFaults, current>>
     \/ /\ Token = None
        /\ \/ VaultFails(c) /\ UNCHANGED <<pending, saved, credential, current>>
           \/ Cleared /\ pending' = 0 /\ Requests(c, None)
  /\ UNCHANGED <<server, stopped, interface, held, restarts, over>>

\* A challenge may be over, too; the five seconds between polls are the interface's timer.
LockPoll(c) ==
  /\ At(c, "ready") /\ Free /\ Is(c, {"poll"})
  /\ \/ pending' = 0 /\ Answered(c, "error", None) /\ UNCHANGED current
     \/ pending # 0 /\ Requests(c, None) /\ UNCHANGED pending
  /\ UNCHANGED <<credential, saved, server, stopped, interface, held, restarts, vaultFaults, over>>

\* Mutant of LockSignOut: a vault that fails is passed over.
LockSignOutAnyway(c) ==
  /\ At(c, "ready") /\ Free /\ Is(c, {"signOut"})
  /\ pending' = 0
  /\ over' = over \cup ({pending} \ {0})
  /\ credential' = None
  /\ \/ vaultFaults < MaxFaults /\ vaultFaults' = vaultFaults + 1 /\ UNCHANGED saved
     \/ saved' = None /\ UNCHANGED vaultFaults
  /\ IF Token = None THEN Answered(c, "done", None) /\ UNCHANGED current ELSE Requests(c, Token)
  /\ UNCHANGED <<server, stopped, interface, held, restarts>>

\* The local credential is gone before the website is asked to revoke it.
LockSignOut(c) ==
  /\ At(c, "ready") /\ Free /\ Is(c, {"signOut"})
  /\ pending' = 0
  /\ over' = over \cup ({pending} \ {0})
  /\ \/ VaultFails(c) /\ UNCHANGED <<saved, credential, current>>
     \/ /\ Cleared
        /\ IF Token = None THEN Answered(c, "done", None) /\ UNCHANGED current ELSE Requests(c, Token)
  /\ UNCHANGED <<server, stopped, interface, held, restarts>>

LockCancel(c) ==
  /\ At(c, "ready") /\ Free /\ Is(c, {"cancel"})
  /\ pending' = 0
  /\ over' = over \cup ({pending} \ {0})
  /\ Answered(c, "done", None)
  /\ UNCHANGED <<credential, saved, server, current, stopped, interface, held, restarts, vaultFaults>>

-----------------------------------------------------------------------------
(* Answers of the website *)

\* The channel is set, the connection breaks or the website refuses: an inspection keeps
\* the credential, a poll gives its challenge up, a sign-out is done locally.
RequestFails(c) ==
  /\ At(c, "network")
  /\ IF Is(c, {"signOut"}) THEN Answered(c, "done", None) ELSE Answered(c, "error", None)
  /\ pending' = IF Is(c, {"poll"}) THEN 0 ELSE pending
  /\ UNCHANGED <<credential, saved, server, current, stopped, interface, held, restarts, vaultFaults, over>>

Inspected(c) ==
  /\ At(c, "network") /\ Is(c, {"restore", "inspect", "confirm", "receipt"})
  /\ IF server[calls[c].token] = "live"
       THEN Answered(c, "session", calls[c].token) /\ UNCHANGED <<saved, credential, vaultFaults>>
       ELSE Forget(c)
  /\ UNCHANGED <<pending, server, current, stopped, interface, held, restarts, over>>

\* The challenge is created and the browser opened, or it could not be opened.
Started(c) ==
  /\ At(c, "network") /\ Is(c, {"start"})
  /\ \/ pending' = calls[c].gen /\ Answered(c, "challenge", None)
     \/ pending' = 0 /\ Answered(c, "error", None)
  /\ UNCHANGED <<credential, saved, server, current, stopped, interface, held, restarts, vaultFaults, over>>

\* Mutant of Exchanged: a token that could not be saved is used all the same.
ExchangedUnsaved(c) ==
  /\ At(c, "network") /\ Is(c, {"poll"})
  /\ \E t \in {u \in Tokens : server[u] = "unused"} :
       /\ server' = [server EXCEPT ![t] = "live"]
       /\ pending' = 0
       /\ Answered(c, "signedIn", None)
       /\ credential' = t
       /\ \/ saved' = t /\ UNCHANGED vaultFaults
          \/ vaultFaults < MaxFaults /\ vaultFaults' = vaultFaults + 1 /\ UNCHANGED saved
  /\ UNCHANGED <<current, stopped, interface, held, restarts, over>>

\* The player has confirmed in the browser or not; a token may be issued and its answer
\* lost or unusable.
Exchanged(c) ==
  /\ At(c, "network") /\ Is(c, {"poll"})
  /\ \/ /\ Answered(c, "waiting", None)
        /\ UNCHANGED <<pending, credential, saved, server, vaultFaults>>
     \/ \E t \in {u \in Tokens : server[u] = "unused"} :
          /\ server' = [server EXCEPT ![t] = "live"]
          /\ pending' = 0
          /\ \/ Answered(c, "error", None) /\ UNCHANGED <<credential, saved, vaultFaults>>
             \/ VaultFails(c) /\ UNCHANGED <<credential, saved>>
             \/ /\ Answered(c, "signedIn", None)
                /\ credential' = t
                /\ saved' = t
                /\ UNCHANGED vaultFaults
  /\ UNCHANGED <<current, stopped, interface, held, restarts, over>>

\* The token is revoked; its answer may be lost.
Revoked(c) ==
  /\ At(c, "network") /\ Is(c, {"signOut"})
  /\ server' = [server EXCEPT ![calls[c].token] = IF @ = "live" THEN "revoked" ELSE @]
  /\ Answered(c, "done", None)
  /\ UNCHANGED <<backend, current, stopped, interface, held, restarts, vaultFaults, over>>

\* A token ends by time, or from another device.
TokenEnds(t) ==
  /\ server[t] = "live"
  /\ server' \in {[server EXCEPT ![t] = "expired"], [server EXCEPT ![t] = "revoked"]}
  /\ UNCHANGED <<calls, backend, current, stopped, interface, held, restarts, vaultFaults, over>>

-----------------------------------------------------------------------------
(* The interface *)

Act(action) ==
  /\ generation < MaxGenerations
  /\ generation' = generation + 1
  /\ wanted' = action

Show(status, shown) == view' = [status |-> status, shown |-> shown, busy |-> FALSE]

CheckSession ==
  /\ view.status = "signedIn" /\ ~view.busy
  /\ Act("check")
  /\ view' = [view EXCEPT !.busy = TRUE]
  /\ Sent("inspect", generation + 1)
  /\ UNCHANGED <<backend, server, current, stopped, timer, held, restarts, vaultFaults, over>>

SignIn ==
  /\ view.status = "signedOut" /\ ~view.busy
  /\ Act("start")
  /\ view' = [view EXCEPT !.busy = TRUE]
  /\ timer' = 0
  /\ Sent("start", generation + 1)
  /\ UNCHANGED <<backend, server, current, stopped, held, restarts, vaultFaults, over>>

\* The store says signed out before the command is under way.
CancelSignIn ==
  /\ view.status = "waiting"
  /\ Act("cancel")
  /\ view' = [view EXCEPT !.status = "signedOut", !.busy = FALSE]
  /\ timer' = 0
  /\ Sent("cancel", generation + 1)
  /\ UNCHANGED <<backend, server, current, stopped, held, restarts, vaultFaults, over>>

SignOut ==
  /\ view.status = "signedIn" /\ ~view.busy
  /\ Act("signOut")
  /\ view' = [view EXCEPT !.busy = TRUE]
  /\ timer' = 0
  /\ Sent("signOut", generation + 1)
  /\ UNCHANGED <<backend, server, current, stopped, held, restarts, vaultFaults, over>>

TimerFires ==
  /\ timer # 0
  /\ timer' = 0
  /\ IF timer = generation THEN Sent("poll", timer) ELSE UNCHANGED calls
  /\ UNCHANGED <<backend, server, current, stopped, view, generation, wanted, held, restarts, vaultFaults, over>>

\* Downloads, the registry pages and receipts ask for the account, whatever is shown.
AskReceipt ==
  /\ held = None
  /\ \A c \in Calls : calls[c] # None => calls[c].kind # "receipt"
  /\ Sent("receipt", 0)
  /\ UNCHANGED <<backend, server, current, stopped, interface, held, restarts, vaultFaults, over>>

\* Mutant of Latest: the generation is not compared.
LatestAlways(c) == TRUE

Latest(c) == calls[c].gen = generation

\* A poll that signed in asks for the session with the same generation.
Applied(c) ==
  LET a == calls[c].answer IN
  \/ Is(c, {"restore", "confirm"}) /\ UNCHANGED timer
       /\ IF a = "session" THEN Show("signedIn", calls[c].token)
          ELSE Show("signedOut", IF a = "error" THEN view.shown ELSE None)
  \/ Is(c, {"inspect"}) /\ UNCHANGED timer
       /\ IF a = "error" THEN view' = [view EXCEPT !.busy = FALSE]
          ELSE IF a = "session" THEN Show("signedIn", calls[c].token) ELSE Show("signedOut", None)
  \/ /\ Is(c, {"start"})
     /\ IF a = "challenge"
          THEN view' = [view EXCEPT !.status = "waiting", !.busy = FALSE] /\ timer' = calls[c].gen
          ELSE view' = [view EXCEPT !.busy = FALSE] /\ UNCHANGED timer
  \/ /\ Is(c, {"poll"})
     /\ CASE a = "waiting" -> timer' = calls[c].gen /\ UNCHANGED view
          [] a = "error"   -> view' = [view EXCEPT !.status = "signedOut"] /\ UNCHANGED timer
          [] OTHER         -> UNCHANGED <<view, timer>>
  \/ Is(c, {"signOut"}) /\ UNCHANGED timer
       /\ IF a = "done" THEN Show("signedOut", None) ELSE view' = [view EXCEPT !.busy = FALSE]
  \/ Is(c, {"cancel"}) /\ UNCHANGED <<view, timer>>

Arrive(c) ==
  /\ At(c, "answered")
  /\ IF Is(c, {"receipt"})
       THEN /\ held' = IF calls[c].answer = "session"
                         THEN [token |-> calls[c].token, chan |-> calls[c].chan] ELSE held
            /\ UNCHANGED <<view, timer>>
       ELSE /\ IF Latest(c) THEN Applied(c) ELSE UNCHANGED <<view, timer>>
            /\ UNCHANGED held
  /\ calls' = [calls EXCEPT ![c] =
       IF Is(c, {"poll"}) /\ Latest(c) /\ calls[c].answer = "signedIn"
         THEN New("confirm", calls[c].gen) ELSE None]
  /\ UNCHANGED <<backend, server, current, stopped, generation, wanted, restarts, vaultFaults, over>>

\* The download or the acknowledgement the request was for is over.
Release ==
  /\ held # None
  /\ held' = None
  /\ UNCHANGED <<calls, backend, server, current, stopped, interface, restarts, vaultFaults, over>>

\* The process ends; the interface restores what the vault has.
Restart ==
  /\ restarts < MaxRestarts
  /\ restarts' = restarts + 1
  /\ generation < MaxGenerations
  /\ generation' = generation + 1
  /\ wanted' = "restore"
  /\ calls' = Only(New("restore", generation + 1))
  /\ over' = over \cup ({pending} \ {0})
  /\ pending' = 0
  /\ credential' = None
  /\ current' = 0
  /\ stopped' = {}
  /\ view' = [status |-> "checking", shown |-> None, busy |-> FALSE]
  /\ timer' = 0
  /\ held' = None
  /\ UNCHANGED <<saved, server, vaultFaults>>

SessionInit ==
  /\ calls = Only(New("restore", 1))
  /\ pending = 0
  /\ credential = None
  /\ server \in {[t \in Tokens |-> "unused"]} \cup
       {[t \in Tokens |-> IF t = u THEN "live" ELSE "unused"] : u \in Tokens}
  /\ saved = IF \E t \in Tokens : server[t] = "live"
               THEN CHOOSE t \in Tokens : server[t] = "live" ELSE None
  /\ current = 0
  /\ stopped = {}
  /\ view = [status |-> "checking", shown |-> None, busy |-> FALSE]
  /\ generation = 1
  /\ timer = 0
  /\ held = None
  /\ restarts = 0
  /\ vaultFaults = 0
  /\ over = {}
  /\ wanted = "restore"

Lock(c) == LockInspect(c) \/ LockStart(c) \/ LockPoll(c) \/ LockSignOut(c) \/ LockCancel(c)
Reply(c) == RequestFails(c) \/ Inspected(c) \/ Started(c) \/ Exchanged(c) \/ Revoked(c)
Player == CheckSession \/ SignIn \/ CancelSignIn \/ SignOut

SessionStep ==
  \/ \E c \in Calls : Stop(c) \/ Subscribe(c) \/ Lock(c) \/ Reply(c) \/ Arrive(c)
  \/ \E t \in Tokens : TokenEnds(t)
  \/ Player \/ TimerFires \/ AskReceipt \/ Release \/ Restart

-----------------------------------------------------------------------------
(* Properties *)

SessionTypeOK ==
  /\ calls \in [Calls -> Commands \cup {None}]
  /\ pending \in Generations
  /\ credential \in Tokens \cup {None}
  /\ saved \in Tokens \cup {None}
  /\ server \in [Tokens -> {"unused", "live", "revoked", "expired"}]
  /\ current \in Channels
  /\ stopped \subseteq Channels
  /\ view \in Views
  /\ generation \in Generations
  /\ timer \in Generations
  /\ held \in HeldRequests \cup {None}
  /\ restarts \in 0..MaxRestarts
  /\ vaultFaults \in 0..MaxFaults
  /\ over \subseteq Generations

\* A session that is used is the one the vault has, whatever call of the vault failed:
\* a token that could not be saved is not used, and one that could not be removed stays
\* (registry/auth.rs:313, registry/auth.rs:125).
CredentialIsSaved == credential # None => saved = credential

\* "Sign-out deletes the local credential before remote revocation": once the interface
\* says so, nothing is left to restore a session from, whatever was still under way
\* (auth_service.rs:231).
SignedOutIsForgotten ==
  view.status = "signedOut" /\ wanted = "signOut" => saved = None /\ credential = None

\* The session in use and the one that outlasts a restart never part: neither is there
\* without the other when a vault call failed, nor after a sign-out.
SessionIsTheSaved == CredentialIsSaved /\ SignedOutIsForgotten

\* A challenge is over from the moment a cancel or a sign-out has the lock, or its process
\* ended; then no answer to it becomes a session, however late that comes.  An exchange that
\* had the lock before the cancel may still save one: the property does not speak of the time
\* between the player's cancel and its turn (registry/auth.rs:283, auth_service.rs:213).
EndedChallengeStaysEnded ==
  [][credential' # credential /\ credential' # None /\ saved' # saved
       => pending # 0 /\ pending \notin over]_sessionVars

\* What the answers to each action of the player may make of the status shown.
Course(action) ==
  CASE action = "restore" -> {"checking"} \X {"signedIn", "signedOut"}
    [] action \in {"check", "signOut"} -> {"signedIn"} \X {"signedIn", "signedOut"}
    [] action = "start"   -> {<<"signedOut", "signedOut">>, <<"signedOut", "waiting">>,
                              <<"waiting", "signedIn">>, <<"waiting", "signedOut">>}
    [] OTHER              -> {}

\* Unless the player acts, the interface changes only by an answer to the last action, and
\* as that action may change it: after a cancel not at all.  Nor does a late answer set the
\* timer of another poll (auth.ts:106, auth.ts:147).
OnlyTheLastIsShown ==
  [][generation' = generation =>
       /\ view' # view =>
            /\ <<view.status, view'.status>> \in Course(wanted)
            /\ \E c \in Calls : calls[c] # None /\ calls[c].gen = generation /\ calls'[c] # calls[c]
       /\ timer' \notin {timer, 0} =>
            wanted = "start" /\ timer' = generation /\ view'.status = "waiting"]_sessionVars

\* A challenge that is over stays over, and what the interface shows is changed by nothing
\* but the player and the answers to the player's last action.
LateAnswersChangeNothing == EndedChallengeStaysEnded /\ OnlyTheLastIsShown

=============================================================================
