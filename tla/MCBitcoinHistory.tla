-------------------------- MODULE MCBitcoinHistory --------------------------
EXTENDS BitcoinHistory
=============================================================================
