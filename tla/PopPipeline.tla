---------------------------- MODULE PopPipeline -----------------------------
(***************************************************************************)
(* What a session promises about commands, whatever its buffers, scanners  *)
(* and readiness flags do: the client may have several commands in line,   *)
(* the origin only ever has the first of them, a command leaves the line   *)
(* when its turn has come and not before, and none stays for ever.         *)
(* Session implements it.                                                  *)
(***************************************************************************)
EXTENDS Naturals, Sequences

CONSTANTS
  Commands,  \* the commands there are
  Invalid,   \* those the proxy answers itself
  Greeting,  \* the request every session starts with
  Limit      \* how long the line may get

VARIABLES
  line,      \* the commands taken from the client and not answered
  atOrigin,  \* the first of them is with the origin
  open       \* the session exists

pipeVars == << line, atOrigin, open >>

PipeInit == line = << Greeting >> /\ atOrigin = TRUE /\ open = TRUE

(* The client's next command joins the line.                               *)
Enter ==
  /\ open /\ Len(line) < Limit
  /\ \E c \in Commands : line' = Append(line, c)
  /\ UNCHANGED << atOrigin, open >>

Forward ==
  /\ open /\ ~atOrigin /\ line # <<>> /\ Head(line) \notin Invalid
  /\ atOrigin' = TRUE
  /\ UNCHANGED << line, open >>

(* The answer of the origin ends the session or not (QUIT does).           *)
Answer ==
  /\ open /\ atOrigin
  /\ line' = Tail(line) /\ atOrigin' = FALSE
  /\ open' \in BOOLEAN

Reject ==
  /\ open /\ line # <<>> /\ Head(line) \in Invalid
  /\ line' = Tail(line)
  /\ UNCHANGED << atOrigin, open >>

(* A session otherwise ends with nobody waiting in line.                   *)
Leave ==
  /\ open /\ line = <<>>
  /\ open' = FALSE
  /\ UNCHANGED << line, atOrigin >>

PipeNext == Enter \/ Forward \/ Answer \/ Reject \/ Leave

PipeSafety == PipeInit /\ [][PipeNext]_pipeVars

(* The line moves as long as somebody is in it.                            *)
PipeSpec == PipeSafety /\ WF_pipeVars(Forward) /\ WF_pipeVars(Answer \/ Reject)

=============================================================================
