------------------------------- MODULE MCServe -------------------------------
EXTENDS Serve
===============================================================================
