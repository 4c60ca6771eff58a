------------------------------ MODULE MCMemClients ------------------------------
\* The sizes of inc/wiseconfig.h and src/wisememory.c themselves.
EXTENDS MemClients
================================================================================
