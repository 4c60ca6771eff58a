------------------------------- MODULE MCMosquitto -------------------------------
\* One of the three topics of the server, and a sensor's: with two threads that is enough
\* for an entry that is cut off and for one that is stored behind an entry cut off before.
\* Nothing else to bound: the topic list holds every topic once, or more often after a race.
EXTENDS Mosquitto

MCServerTopics == <<"agentactionack">>
================================================================================
