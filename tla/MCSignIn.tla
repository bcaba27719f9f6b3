------------------------------- MODULE MCSignIn -------------------------------
EXTENDS SignIn
===============================================================================
