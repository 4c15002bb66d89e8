------------------------------ MODULE MCUltimate ------------------------------
EXTENDS Ultimate, TLC

\* Sockets are interchangeable.
SocketSymmetry == Permutations(Socket)
=============================================================================
