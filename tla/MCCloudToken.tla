----------------------------- MODULE MCCloudToken -----------------------------
EXTENDS CloudToken
===============================================================================
