---------------------------- MODULE SessionLife -----------------------------
(***************************************************************************)
(* What the server loop relies on of a session, whatever passes through    *)
(* it: which half-connections are open.  A session starts with its client, *)
(* takes up the origin and filters, closes segments with the calls of      *)
(* closeClient that processClient makes and in no other way, and when      *)
(* nothing is open it is gone.  Session implements this specification, and *)
(* Server is built of sessions that follow it.                             *)
(***************************************************************************)
EXTENDS Segments

VARIABLE open      \* activeSegments

Init == open = CS_CLIENT

Next ==
  open' \in OriginTaken(open) \union OriginRefused(open)
              \union FilterTaken(open) \union Closings(open)

Spec == Init /\ [][Next]_open
=============================================================================
