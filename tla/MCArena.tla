------------------------------- MODULE MCArena ------------------------------
EXTENDS Arena
=============================================================================
