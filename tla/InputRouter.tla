---------------------------- MODULE InputRouter ----------------------------
(***************************************************************************)
(* LocalInputRouter: the prefix key of ptyroom's local terminals.  Ctrl-]  *)
(* makes the next key a command; half a second without one makes it an     *)
(* ordinary key again.  The modules that read a terminal compose this one. *)
(***************************************************************************)
EXTENDS Naturals

LOCAL_ESCAPE == "^]"

NewRouter == [mode |-> "forward", expired |-> FALSE]

\* LocalInputAction: what the caller does with a key.
Remote == "remote"
Disconnect == "disconnect"
ForceRedraw == "redraw"
UnknownCommand == "unknown"
SetStatus(status) == status
Connected == "connected"
Command == "command"
Help == "help"

PushCommand(key) ==
  CASE key = "."          -> Disconnect
    [] key = "?"          -> SetStatus(Help)
    [] key = "r"          -> ForceRedraw
    [] key = LOCAL_ESCAPE -> Remote
    [] OTHER              -> UnknownCommand

PushForward(key) == IF key = LOCAL_ESCAPE THEN SetStatus(Command) ELSE Remote

Push(router, key) ==
  IF router.mode = "command" THEN PushCommand(key) ELSE PushForward(key)

\* The router after a key: in command mode exactly after a lone prefix.
Pushed(router, key) ==
  IF Push(router, key) = SetStatus(Command)
  THEN [mode |-> "command", expired |-> FALSE]
  ELSE NewRouter

\* tick: COMMAND_MODE_TIMEOUT has passed since the prefix.
TimedOut(router) == router.mode = "command" /\ router.expired
=============================================================================
