---------------------------- MODULE MovementInput ----------------------------
(***************************************************************************)
(* What the desktop client remembers of the movement keys and of what it   *)
(* has told the server (src/battle_qt_client/game/MovementInputController  *)
(* .cpp): the direction that is desired and the one that was last sent.    *)
(* Whether the interval for sending it again has passed is a parameter.    *)
(***************************************************************************)
EXTENDS Integers

Still == <<0, 0>>
Direction == (-1 .. 1) \X (-1 .. 1)
NotSent == <<>>             \* no direction: nothing was sent, or it was rejected
NoCommand == "none"

ControllerRecord == [desired : Direction, last : Direction \cup {NotSent}]
Reset == [desired |-> Still, last |-> NotSent]

\* currentMoveDirection: opposite keys cancel.
One(pressed) == IF pressed THEN 1 ELSE 0
MoveDirection(keys) ==
  <<One("D" \in keys) - One("A" \in keys), One("S" \in keys) - One("W" \in keys)>>

ShouldSendMove(ctl, dir, due) == ctl.last # dir \/ due

\* The command for a newly desired direction: a stop is sent once, and only after a move.
DesiredCommand(ctl, dir, due) ==
  IF dir = Still
  THEN IF ctl.last \in {NotSent, Still} THEN NoCommand ELSE "stop"
  ELSE IF ShouldSendMove(ctl, dir, due) THEN "move" ELSE NoCommand

UpdateDesired(ctl, dir, due) ==
  [desired |-> dir,
   last    |-> IF DesiredCommand(ctl, dir, due) = NoCommand THEN ctl.last ELSE dir]

PollSends(ctl, due) == ctl.desired # Still /\ ShouldSendMove(ctl, ctl.desired, due)

Polled(ctl) == [ctl EXCEPT !.last = ctl.desired]

\* Mutant of MarkRejected: a rejection is only shown to the player.
MarkRejectedNot(ctl) == ctl

MarkRejected(ctl) == [ctl EXCEPT !.last = NotSent]
=============================================================================
