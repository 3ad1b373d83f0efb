-------------------------------- MODULE Room --------------------------------
(***************************************************************************)
(* What a room promises, with no host loop, no sockets and no buffers.     *)
(*                                                                         *)
(* A room has one history of events: the numbered chunks of PTY output and *)
(* the changes of its geometry.  Somebody who joins is told the geometry   *)
(* and a recent, unbroken stretch of the output; from then on its view is  *)
(* extended by every event, in the order of the history, until it leaves.  *)
(* Nobody is ever behind an event another participant has been given.      *)
(***************************************************************************)
EXTENDS RoomFrames

CONSTANTS Participant, Geometry

VARIABLES
  geometry,     \* the size everybody has been told last
  published,    \* how many output chunks there have been
  history,      \* all the events so far
  members,      \* who is in the room
  view          \* per participant, everything it has been sent

vars == <<geometry, published, history, members, view>>

Init ==
  /\ geometry \in Geometry
  /\ published = 0
  /\ history = <<>>
  /\ members = {}
  /\ view = [p \in Participant |-> <<>>]

Join(p) ==
  /\ p \notin members
  /\ members' = members \cup {p}
  /\ \E m \in 0..published :
       view' = [view EXCEPT ![p] =
                  <<Hello, SizeFrame(geometry)>> \o DataAfter(m, published)]
  /\ UNCHANGED <<geometry, published, history>>

Leave(p) ==
  /\ p \in members
  /\ members' = members \ {p}
  /\ view' = [view EXCEPT ![p] = <<>>]
  /\ UNCHANGED <<geometry, published, history>>

\* Publishing may cost the room some members; all the others get the event.
Publish(f) ==
  /\ history' = Append(history, f)
  /\ members' \in SUBSET members
  /\ view' = [p \in Participant |->
                IF p \in members' THEN Append(view[p], f) ELSE <<>>]

Output ==
  /\ Publish(Data(published + 1))
  /\ published' = published + 1
  /\ UNCHANGED geometry

Resize ==
  /\ \E z \in Geometry \ {geometry} :
       /\ Publish(SizeFrame(z))
       /\ geometry' = z
  /\ UNCHANGED published

Next ==
  \/ \E p \in Participant : Join(p) \/ Leave(p)
  \/ Output
  \/ Resize

Spec == Init /\ [][Next]_vars
=============================================================================
