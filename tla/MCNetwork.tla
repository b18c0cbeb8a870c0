----------------------------- MODULE MCNetwork ------------------------------
EXTENDS Network
MCStreams == {<<>>, <<1, 2, 3>>}
=============================================================================
