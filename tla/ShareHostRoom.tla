---------------------------- MODULE ShareHostRoom ----------------------------
(***************************************************************************)
(* The host loop implements the room: at every step of the loop the        *)
(* session's state, read through this mapping, takes a step of Room or     *)
(* none at all.                                                            *)
(***************************************************************************)
EXTENDS ShareHost

R == INSTANCE Room WITH
  Participant <- Client,
  Geometry <- Size,
  geometry <- current,
  published <- Published,
  history <- History,
  members <- Members,
  view <- stream

\* Joining is one step: nobody sees the room between its greeting and the next
\* event.  An event reaches the recording and every client that is kept in the
\* same step.
ImplementsRoom == R!Spec
=============================================================================
