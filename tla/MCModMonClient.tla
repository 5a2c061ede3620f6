---------------------------- MODULE MCModMonClient -----------------------------
EXTENDS ModMonClient
================================================================================
