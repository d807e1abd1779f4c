---------------------------- MODULE MCManagement ----------------------------
(* Management with what administrators send.                               *)
EXTENDS Management

(* The port is set and asked for, as the management client sends it, with  *)
(* the newline, and as others may; other requests come that are shorter    *)
(* than the argument of the port is deep in the buffer, and longer.        *)
MCRequests ==
  {[word |-> "SET_ORIGIN_PORT", data |-> p, after |-> "newline"] : p \in Port}
    \union {[word |-> "GET_ORIGIN_PORT", data |-> "absent", after |-> a] : a \in {"end", "newline"}}
    \union {[word |-> "GET_MGMT_PORT", data |-> "", after |-> "end"],
             [word |-> "stats", data |-> "absent", after |-> "other"],
             [word |-> "SET_LISTEN_PORT", data |-> "995", after |-> "end"]}

(* What lookups find: nothing, an address that is up behind one that      *)
(* fails, or behind one that is down.                                      *)
MCLists == {<< >>, << "fails", "accepts" >>, << "refuses", "accepts" >>}
=============================================================================
