------------------------------- MODULE Origin -------------------------------
(***************************************************************************)
(* The address of the origin server (net-utils/connect.c): resolve_dns,    *)
(* which at run time asks the threads of getaddrinfo_a for it,             *)
(* signalfd_read, which the signal of their answer leads to, and           *)
(* connectHost.                                                            *)
(*                                                                         *)
(* All of them work on one global request, host.  resolve_dns clears it    *)
(* and gives it names (host name, service and hints) allocated for it; a   *)
(* lookup is done in a thread that finds the names through host when it    *)
(* starts, and leaves the addresses there; signalfd_read frees the names   *)
(* host has then.                                                          *)
(***************************************************************************)
EXTENDS Naturals, Sequences

CONSTANTS
  Port,         \* origin ports that are configured
  Default,      \* the one of the command line
  Lists,        \* lists of addresses a lookup may find, << >> if it fails
  Conn,         \* connections of clients
  MaxSettings   \* bound: resolutions started at run time

(* An address, by what comes of a connect to it: it fails at once, is      *)
(* refused later, or succeeds.                                             *)
Address == {"fails", "refuses", "accepts"}

Garbage == "garbage"      \* a port read from memory that was freed
Request == 0 .. MaxSettings   \* resolutions, in the order they are started
Setting == Port \union {""}   \* what SET_ORIGIN_PORT may be given
Name    == Setting \union {Garbage}

ASSUME OriginAssumption ==
  /\ Default \in Port /\ Garbage \notin Setting
  /\ Lists \subseteq Seq(Address) /\ Lists # {}
  /\ MaxSettings \in Nat

VARIABLES
  host,     \* the global request: its names, ar_result, and the port that is for
  asked,    \* the last resolution started
  port,     \* the port each one is for
  names,    \* the memory of its names
  lookup,   \* its lookup, in a thread of getaddrinfo_a
  reads,    \* the names that lookup works on
  signals,  \* SIGRTMIN queued for the signalfd
  edge,     \* the signalfd has an event epoll has not reported
  session,  \* connections: how far they are, and the addresses there were
  crowded   \* history: the resolutions that were under way together with another

originVars == << host, asked, port, names, lookup, reads, signals, edge, session, crowded >>

OriginTypeOK ==
  /\ host \in [names : Request, list : Seq(Address), port : Name]
  /\ asked \in Request /\ port \in [Request -> Setting]
  /\ names \in [Request -> {"none", "held", "freed", "twice"}]
  /\ lookup \in [Request -> {"none", "queued", "running", "done"}]
  /\ reads \in [Request -> Request]
  /\ signals \in Nat /\ edge \in BOOLEAN
  /\ session \in [Conn -> [state : {"none", "waiting", "rejected", "connecting", "up", "refused"},
                           list : Seq(Address), at : Nat, port : Name]]
  /\ crowded \subseteq Request

(* At the start resolve_dns waits for the answer, and frees the names.     *)
OriginInit ==
  /\ host \in {[names |-> 0, list |-> list, port |-> Default] : list \in Lists}
  /\ asked = 0 /\ port = [r \in Request |-> Default]
  /\ names = [r \in Request |-> IF r = 0 THEN "freed" ELSE "none"]
  /\ lookup = [r \in Request |-> IF r = 0 THEN "done" ELSE "none"]
  /\ reads = [r \in Request |-> 0]
  /\ signals = 0 /\ edge = FALSE
  /\ session = [c \in Conn |-> [state |-> "none", list |-> << >>, at |-> 0, port |-> Default]]
  /\ crowded = {}

(* A resolution is over when its lookup has ended and the event of its     *)
(* signal has been taken.  Nothing in the code waits for that.             *)
Quiet == ~edge /\ \A r \in Request : lookup[r] \in {"none", "done"}
Crowds == crowded' = IF Quiet THEN crowded ELSE crowded \union {asked, asked + 1}

(* resolve_dns(originServer, p, 1).  What host had is forgotten.           *)
ResolveKeeping(p) ==     \* Mutant: ar_result of the last resolution stays
  /\ asked < MaxSettings /\ asked' = asked + 1
  /\ host' = [host EXCEPT !.names = asked + 1]
  /\ port' = [port EXCEPT ![asked + 1] = p]
  /\ names' = [names EXCEPT ![asked + 1] = "held"]
  /\ lookup' = [lookup EXCEPT ![asked + 1] = "queued"]
  /\ Crowds /\ UNCHANGED << reads, signals, edge, session >>
ResolveFreeing(p) ==     \* Mutant: it frees the names host had, too
  /\ asked < MaxSettings /\ asked' = asked + 1
  /\ host' = [names |-> asked + 1, list |-> << >>, port |-> p]
  /\ port' = [port EXCEPT ![asked + 1] = p]
  /\ names' = [names EXCEPT ![asked + 1] = "held",
                            ![host.names] = IF @ = "held" THEN "freed" ELSE "twice"]
  /\ lookup' = [lookup EXCEPT ![asked + 1] = "queued"]
  /\ Crowds /\ UNCHANGED << reads, signals, edge, session >>
Resolve(p) ==
  /\ asked < MaxSettings /\ asked' = asked + 1
  /\ host' = [names |-> asked + 1, list |-> << >>, port |-> p]
  /\ port' = [port EXCEPT ![asked + 1] = p]
  /\ names' = [names EXCEPT ![asked + 1] = "held"]
  /\ lookup' = [lookup EXCEPT ![asked + 1] = "queued"]
  /\ Crowds /\ UNCHANGED << reads, signals, edge, session >>

(* A thread takes the request up, and is done with it.                     *)
LookupBegins(r) ==
  /\ lookup[r] = "queued" /\ lookup' = [lookup EXCEPT ![r] = "running"]
  /\ reads' = [reads EXCEPT ![r] = host.names]
  /\ UNCHANGED << host, asked, port, names, signals, edge, session, crowded >>

NamesRead(r) ==
  {port[reads[r]]} \union (IF names[reads[r]] = "held" THEN {} ELSE {Garbage})

LookupEnds(r) ==
  /\ lookup[r] = "running" /\ lookup' = [lookup EXCEPT ![r] = "done"]
  /\ \E list \in Lists, p \in NamesRead(r) :
       host' = IF list = << >> THEN host ELSE [host EXCEPT !.list = list, !.port = p]
  /\ signals' = signals + 1 /\ edge' = TRUE
  /\ UNCHANGED << asked, port, names, reads, session, crowded >>

(* processEvent on the signalfd, which is edge-triggered: one signal is    *)
(* read, and the names host has are freed.                                 *)
signalfd_readOnly ==     \* Mutant: the signal is read and nothing is freed
  /\ edge /\ edge' = FALSE /\ signals' = signals - 1
  /\ UNCHANGED << host, asked, port, names, lookup, reads, session, crowded >>
signalfd_read ==
  /\ edge /\ edge' = FALSE /\ signals' = signals - 1
  /\ names' = [names EXCEPT ![host.names] = IF @ = "held" THEN "freed" ELSE "twice"]
  /\ UNCHANGED << host, asked, port, lookup, reads, session, crowded >>

(* connectHost: the first address whose connect does not fail at once.     *)
TriedFirst(list) == IF list # << >> /\ list[1] # "fails" THEN {1} ELSE {}   \* Mutant
Tried(list) ==
  {i \in 1 .. Len(list) : list[i] # "fails" /\ \A j \in 1 .. i - 1 : list[j] = "fails"}

(* acceptClient, as far as the origin matters to it.                       *)
connectHost(c) ==
  /\ session[c].state = "waiting"
  /\ session' = [session EXCEPT ![c] =
       IF Tried(host.list) = {}
       THEN [state |-> "rejected", list |-> host.list, at |-> 0, port |-> host.port]
       ELSE [state |-> "connecting", list |-> host.list,
             at |-> CHOOSE i \in Tried(host.list) : TRUE, port |-> host.port]]
  /\ UNCHANGED << host, asked, port, names, lookup, reads, signals, edge, crowded >>

Connects(c) ==
  /\ session[c].state = "none" /\ session' = [session EXCEPT ![c].state = "waiting"]
  /\ UNCHANGED << host, asked, port, names, lookup, reads, signals, edge, crowded >>

(* The origin's answer; a refusal ends the session.                        *)
OriginAnswers(c) ==
  /\ session[c].state = "connecting"
  /\ session' = [session EXCEPT ![c].state =
       IF session[c].list[session[c].at] = "accepts" THEN "up" ELSE "refused"]
  /\ UNCHANGED << host, asked, port, names, lookup, reads, signals, edge, crowded >>
=============================================================================
