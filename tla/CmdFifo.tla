-------------------------------- MODULE CmdFifo --------------------------------
(***************************************************************************)
(* What the command queue of wiseaccess.c promises its two users: a        *)
(* bounded first-in first-out buffer.  The MQTT thread puts whole commands *)
(* in at one end, the main loop takes whole commands out at the other, and *)
(* nothing is lost, invented, repeated, mixed or reordered in between.     *)
(* A command refused because the buffer is full leaves no trace here.      *)
(***************************************************************************)
EXTENDS Naturals, Sequences

CONSTANTS Items,     \* the commands that may be queued
          Capacity,  \* how many of them the buffer holds
          Nothing    \* what `out` is before the first command is taken

VARIABLES queue,     \* commands accepted and not yet taken
          out        \* the command taken last

vars == <<queue, out>>

Init == queue = << >> /\ out = Nothing

Put(c) ==
    /\ Len(queue) < Capacity
    /\ queue' = Append(queue, c)
    /\ UNCHANGED out

Take ==
    /\ queue # << >>
    /\ out' = Head(queue)
    /\ queue' = Tail(queue)

Next == Take \/ \E c \in Items : Put(c)

Spec == Init /\ [][Next]_vars
================================================================================
