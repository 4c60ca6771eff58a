------------------------------ MODULE MCCmdQueue -------------------------------
(* A ring of four slots, so that it holds three commands and wraps within a *)
(* few steps, two distinguishable commands and two members per slot.        *)
EXTENDS CmdQueue
================================================================================
