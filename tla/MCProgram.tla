------------------------------ MODULE MCProgram -------------------------------
EXTENDS Program
=============================================================================
