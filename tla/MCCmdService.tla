------------------------------ MODULE MCCmdService ------------------------------
\* Two kinds of items in sample/test.c: a number without callbacks, and a string with
\* both.
EXTENDS CmdService, TLC

CONSTANTS temp, name

MCItems == {temp, name}
MCType == temp :> "VALUE" @@ name :> "STRING"
MCGetter == temp :> "none" @@ name :> "own"
================================================================================
