------------------------------ MODULE MCLibrary ------------------------------
\* Instance of Library for TLC: an application that is installed for the
\* user and for the system.
EXTENDS Library
=============================================================================
