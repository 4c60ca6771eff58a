------------------------------ MODULE MCConnection ------------------------------
\* Three losses: one during each connect_callback, one in the quiet.
EXTENDS Connection
================================================================================
