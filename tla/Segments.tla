------------------------------ MODULE Segments ------------------------------
(***************************************************************************)
(* The half-connections of one proxied session (CommSegment, server.h) and *)
(* what closeClient (server.c) does to them.                               *)
(*                                                                         *)
(* A session has up to three peers: the POP3 client, the origin server and *)
(* the filter that rewrites a message.  Each has an OUT half, which the    *)
(* proxy reads, and an IN half, which the proxy writes.                    *)
(***************************************************************************)

CS_CLIENT == {"CLIENT_OUT", "CLIENT_IN"}
CS_SERVER == {"SERVER_OUT", "SERVER_IN"}
CS_FILTER == {"FILTER_OUT", "FILTER_IN"}

Segment == CS_CLIENT \union CS_SERVER \union CS_FILTER

(* Mutant: SERVER_OUT alone is closed, SERVER_IN stays.                    *)
FollowUpClientOnly(l) ==
  IF "CLIENT_IN" \in l THEN {"CLIENT_OUT"} \union CS_SERVER \union CS_FILTER ELSE {}

(* The recursive call closeClient makes after closing the segments in l.   *)
FollowUp(l) ==
  IF "CLIENT_IN" \in l THEN {"CLIENT_OUT"} \union CS_SERVER \union CS_FILTER
  ELSE IF "SERVER_OUT" \in l THEN {"SERVER_IN"}
  ELSE {}

(* What is still active after closeClient(client, level) on a session whose *)
(* active segments are act.  Each call masks the level it is given with the *)
(* active segments, closes those, and calls itself with FollowUp of what it *)
(* closed.  The call for CLIENT_IN asks for no CLIENT_IN and the call for   *)
(* SERVER_OUT for no SERVER_OUT, so three calls are the longest chain.      *)
ActiveAfter(act, level) ==
  LET first  == level \intersect act
      act1   == act \ first
      second == FollowUp(first) \intersect act1
      act2   == act1 \ second
      third  == FollowUp(second) \intersect act2
  IN  act2 \ third

(* Both halves of a peer are closed by this call: its descriptor is closed. *)
Disconnects(act, level, peer) ==
  /\ act \intersect peer # {}
  /\ ActiveAfter(act, level) \intersect peer = {}

(* The readiness flag of EventData that closing a segment resets.          *)
FlagOf(seg) ==
  CASE seg = "CLIENT_OUT" -> "clientRead"
    [] seg = "CLIENT_IN"  -> "clientWrite"
    [] seg = "SERVER_OUT" -> "serverRead"
    [] seg = "SERVER_IN"  -> "serverWrite"
    [] seg = "FILTER_OUT" -> "filterRead"
    [] seg = "FILTER_IN"  -> "filterWrite"

Flag == {"clientRead", "clientWrite", "serverRead", "serverWrite",
         "filterRead", "filterWrite"}

-----------------------------------------------------------------------------
(* The other calls of closeClient in processClient: the level, the      *)
(* segments the block that calls it must find open, and closed.            *)
ClosingCalls ==
  { [level |-> {"FILTER_IN"},  needs |-> {"SERVER_OUT", "FILTER_IN"}, without |-> {}],
    [level |-> CS_CLIENT \union CS_SERVER,
                             needs |-> {"SERVER_OUT", "CLIENT_IN"}, without |-> {"FILTER_IN"}],
    [level |-> {"SERVER_OUT"}, needs |-> {"SERVER_OUT", "CLIENT_IN"}, without |-> {"FILTER_IN"}],
    [level |-> {"FILTER_OUT"}, needs |-> {"FILTER_OUT", "CLIENT_IN"}, without |-> {}],
    [level |-> {"CLIENT_OUT"}, needs |-> {"CLIENT_OUT", "SERVER_IN"}, without |-> {}],
    [level |-> {"SERVER_IN"},  needs |-> {"SERVER_IN"},               without |-> {}],
    [level |-> CS_CLIENT \union CS_SERVER,
                             needs |-> {"CLIENT_IN"},               without |-> {"CLIENT_OUT"}] }

(* What a session may be left with by a block that closes segments of it.  *)
Closings(act) ==
  {ActiveAfter(act, call.level) :
     call \in {k \in ClosingCalls : k.needs \subseteq act /\ k.without \intersect act = {}}}

(* "Waiting for connection": the origin has answered, or refused.          *)
Unconnected(act) == act # {} /\ act \intersect CS_SERVER = {}
OriginTaken(act)   == IF Unconnected(act) THEN {act \union CS_SERVER} ELSE {}
OriginRefused(act) == IF Unconnected(act) THEN {ActiveAfter(act, CS_CLIENT)} ELSE {}

(* The filter of a message that is retrieved.                              *)
FilterTaken(act) ==
  IF {"SERVER_OUT", "CLIENT_IN"} \subseteq act /\ "FILTER_IN" \notin act
  THEN {act \union CS_FILTER} ELSE {}
=============================================================================
