------------------------------- MODULE MCATM --------------------------------
EXTENDS ATMSystem

MCPin == <<0, 0>>
=============================================================================
