------------------------------ MODULE MCArrays ------------------------------
EXTENDS Arrays
=============================================================================
