-------------------------- MODULE RegistryTransfer --------------------------
(***************************************************************************)
(* One archive transfer (registry/transport.rs, download_with_renewal): a  *)
(* grant, the content request under it, and after a broken transfer a new  *)
(* grant and the rest of the file.  The server answers as it likes: whole  *)
(* or partial content, good or changed bytes, early ends, refusals.        *)
(*                                                                         *)
(* The staging file is a sequence of blocks.  Tokio writes a block in the  *)
(* background: the length a file shows may lack the last one until another *)
(* operation on the file waits for it.                                     *)
(***************************************************************************)
EXTENDS Naturals, Sequences

CONSTANTS
  Bytes,      \* length of the approved archive, in blocks
  MaxGrants   \* grants asked for in one transfer: three

Blocks == {"good", "changed"}
Approved == [i \in 1..Bytes |-> "good"]

VARIABLES
  phase,      \* where download_with_renewal is
  file,       \* the staging file
  behind,     \* its last block is still being written
  attempt,    \* grants asked for
  start,      \* the offset asked for
  restarted,  \* this grant has already been started over from byte zero
  received,   \* position of the stream
  outcome,    \* what is sent to the queue
  cut         \* the watch channel of cancel and sign-out

\* What the transfer itself changes.
transfer == <<phase, file, behind, attempt, start, restarted, received, outcome>>
transferVars == <<transfer>>

Phases == {"idle", "grant", "length", "ask", "stream", "verify", "confirm", "done"}
Outcomes == {"none", "ok", "unconfirmed", "failed", "cancelled"}

\* File::metadata does not wait for the block being written.
ShownLength == IF behind THEN {Len(file) - 1, Len(file)} ELSE {Len(file)}

Empty == file' = <<>> /\ behind' = FALSE

\* The loop over the grants is left, with what it remembers.
Stop(o) ==
  /\ phase' = "done"
  /\ outcome' = o
  /\ attempt' = 0
  /\ start' = 0
  /\ restarted' = FALSE
  /\ received' = 0
  /\ UNCHANGED <<file, behind>>

BeginTransfer ==
  /\ phase = "idle"
  /\ phase' = "grant"
  /\ Empty
  /\ attempt' = 1
  /\ start' = 0
  /\ restarted' = FALSE
  /\ received' = 0
  /\ outcome' = "none"

\* Mutant of Cut: the stream of the content is not stopped.
CutRequests ==
  /\ phase \in {"grant", "ask"}
  /\ cut
  /\ Stop("cancelled")

\* Every request and the stream are selected against the channel.
Cut ==
  /\ phase \in {"grant", "ask", "stream", "verify"}
  /\ cut
  /\ Stop("cancelled")

\* The answer to download_grant; any error ends the transfer, a broken connection too.
GrantRefused ==
  /\ phase = "grant"
  /\ Stop("failed")

Granted ==
  /\ phase = "grant"
  /\ \E length \in ShownLength :
       IF length >= Bytes
         THEN Empty /\ start' = 0
         ELSE start' = length /\ UNCHANGED <<file, behind>>
  /\ phase' = "length"
  /\ restarted' = FALSE
  /\ UNCHANGED <<attempt, received, outcome>>

\* download_content compares the length once more before it asks.
Ask ==
  /\ phase = "length"
  /\ \E length \in ShownLength :
       IF length # start THEN Stop("failed")
       ELSE IF cut THEN Stop("cancelled")
       ELSE /\ phase' = "ask"
            /\ UNCHANGED <<file, behind, attempt, start, restarted, received, outcome>>

\* 409 and 416 start this grant over once.
StartOver ==
  /\ phase = "ask"
  /\ start > 0
  /\ ~restarted
  /\ Empty
  /\ start' = 0
  /\ restarted' = TRUE
  /\ phase' = "length"
  /\ UNCHANGED <<attempt, received, outcome>>

\* A broken connection and 410 renew the grant; the file keeps what it has.
Renew ==
  /\ attempt < MaxGrants
  /\ phase' = "grant"
  /\ attempt' = attempt + 1
  /\ start' = 0
  /\ restarted' = FALSE
  /\ received' = 0
  /\ UNCHANGED <<file, behind, outcome>>

Broken ==
  /\ phase \in {"ask", "stream"}
  /\ Renew \/ (attempt = MaxGrants /\ Stop("failed"))

\* Every other status, a header that does not fit, more bytes than granted.
Refuse ==
  /\ phase \in {"ask", "stream"}
  /\ Stop("failed")

\* 200 sends the whole archive, 206 the rest; set_len and seek wait for the last block.
Respond ==
  /\ phase = "ask"
  /\ phase' = "stream"
  /\ \/ file' = <<>> /\ received' = 0
     \/ received' = start /\ UNCHANGED file
  /\ behind' = FALSE
  /\ UNCHANGED <<attempt, start, restarted, outcome>>

Written(block) ==
  IF received < Len(file) THEN [file EXCEPT ![received + 1] = block] ELSE Append(file, block)

Chunk ==
  /\ phase = "stream"
  /\ received < Bytes
  /\ \E block \in Blocks : file' = Written(block)
  /\ behind' = TRUE
  /\ received' = received + 1
  /\ UNCHANGED <<phase, attempt, start, restarted, outcome>>

\* The response ended with every byte; flush waits for the last block.
Complete ==
  /\ phase = "stream"
  /\ received = Bytes
  /\ phase' = "verify"
  /\ behind' = FALSE
  /\ UNCHANGED <<file, attempt, start, restarted, received, outcome>>

\* Mutant of Digest: only the bytes of this response are hashed.
DigestOfResponse == SubSeq(file, start + 1, Bytes) = SubSeq(Approved, start + 1, Bytes)

\* The whole staged file is read again and hashed.
Digest == file = Approved

Verify ==
  /\ phase = "verify"
  /\ IF Digest
       THEN IF cut
              THEN Stop("unconfirmed")
              ELSE /\ phase' = "confirm"
                   /\ UNCHANGED <<file, behind, attempt, start, restarted, received, outcome>>
       ELSE Stop("failed")

\* confirm_download_session: the same account, still allowed to download.
Confirm ==
  /\ phase = "confirm"
  /\ Stop("unconfirmed") \/ Stop("ok")

\* The background write ends.
Settle ==
  /\ behind
  /\ behind' = FALSE
  /\ UNCHANGED <<phase, file, attempt, start, restarted, received, outcome>>

TransferInit ==
  /\ phase = "idle"
  /\ file = <<>>
  /\ behind = FALSE
  /\ attempt = 0
  /\ start = 0
  /\ restarted = FALSE
  /\ received = 0
  /\ outcome = "none"

Server == GrantRefused \/ Granted \/ StartOver \/ Broken \/ Refuse \/ Respond \/ Chunk \/ Complete
Client == BeginTransfer \/ Cut \/ Ask \/ Verify \/ Confirm \/ Settle
TransferStep == Server \/ Client

-----------------------------------------------------------------------------
(* Properties *)

TransferTypeOK ==
  /\ phase \in Phases
  /\ file \in UNION {[1..n -> Blocks] : n \in 0..Bytes}
  /\ behind \in BOOLEAN
  /\ behind => file # <<>>
  /\ attempt \in 0..MaxGrants
  /\ start \in 0..(Bytes - 1)
  /\ restarted \in BOOLEAN
  /\ received \in 0..Bytes
  /\ outcome \in Outcomes

\* "A corrupt or partial file receives no success result": whatever was sent under which
\* grant, resumed, started over or still being written, a transfer that is reported as
\* verified left exactly the approved bytes (transport.rs:565).
VerifiedIsApproved ==
  outcome \in {"ok", "unconfirmed"} => file = Approved /\ ~behind

=============================================================================
