------------------------ MODULE MercenaryContractsMC ------------------------
EXTENDS MercenaryContracts
CONSTANTS o1, o2, a1, a2
=============================================================================
