--------------------------------- MODULE MCUci ---------------------------------
EXTENDS Uci
=============================================================================
