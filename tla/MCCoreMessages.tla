----------------------------- MODULE MCCoreMessages -----------------------------
\* Two of the messages of wiseagentlite.c, one of them on a topic that functions of
\* WISECore.c publish on too.  The buffers hold finitely many messages.
EXTENDS CoreMessages

MCOwn == {Message("deviceinfo", "data"), Message("agentactionreq", "infoSpec")}
================================================================================
