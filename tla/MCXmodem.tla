------------------------------- MODULE MCXmodem -------------------------------
EXTENDS Xmodem

\* Data that could be taken for an EOT, a CAN and a SOH, in blocks of each size.
MCFile == <<<<4, 1>>, <<24, 4, 4>>, <<0, 255>>>>
MCNoise == {0, 1, 2, 4, 24, 255}
MCBases == {0, 254}
=============================================================================
