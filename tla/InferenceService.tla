--------------------------- MODULE InferenceService ---------------------------
(***************************************************************************)
(* What the inference server promises its clients, without sockets, bytes  *)
(* or buffers: connections are served first come first served and one at   *)
(* a time; the network runs only for the connection whose turn it is; a    *)
(* client never holds more whole replies than the network ran for it; a    *)
(* turn that is over does not come back.                                   *)
(***************************************************************************)
EXTENDS Naturals, Sequences

CONSTANTS Conns, NoConn

VARIABLES
  up,        (* The service is there.                                      *)
  line,      (* The connections waiting, in the order they came.           *)
  turn,      (* The connection being served.                               *)
  done,      (* The connections that have had their turn.                  *)
  inferred,  (* Per connection, the frames the network ran for.            *)
  delivered  (* Per connection, the whole replies its client holds.        *)

vars == <<up, line, turn, done, inferred, delivered>>

InLine(c) == \E i \in DOMAIN line : line[i] = c

Init ==
  /\ up = TRUE
  /\ line = <<>>
  /\ turn = NoConn
  /\ done = {}
  /\ inferred = [c \in Conns |-> 0]
  /\ delivered = [c \in Conns |-> 0]

Arrive(c) ==
  /\ up
  /\ c \notin done /\ c # turn /\ ~InLine(c)
  /\ line' = Append(line, c)
  /\ UNCHANGED <<up, turn, done, inferred, delivered>>

Begin ==
  /\ up
  /\ turn = NoConn
  /\ line # <<>>
  /\ turn' = Head(line)
  /\ line' = Tail(line)
  /\ UNCHANGED <<up, done, inferred, delivered>>

Infer ==
  /\ turn \in Conns
  /\ inferred' = [inferred EXCEPT ![turn] = @ + 1]
  /\ UNCHANGED <<up, line, turn, done, delivered>>

Deliver(c) ==
  /\ delivered[c] < inferred[c]
  /\ delivered' = [delivered EXCEPT ![c] = @ + 1]
  /\ UNCHANGED <<up, line, turn, done, inferred>>

End ==
  /\ turn \in Conns
  /\ turn' = NoConn
  /\ done' = done \cup {turn}
  /\ UNCHANGED <<up, line, inferred, delivered>>

Stop ==
  /\ up
  /\ up' = FALSE
  /\ line' = <<>>
  /\ turn' = NoConn
  /\ done' = done \cup {c \in Conns : InLine(c) \/ c = turn}
  /\ UNCHANGED <<inferred, delivered>>

Next ==
  \/ Begin \/ Infer \/ End \/ Stop
  \/ \E c \in Conns : Arrive(c) \/ Deliver(c)

Spec == Init /\ [][Next]_vars
=============================================================================
