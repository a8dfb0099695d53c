--------------------------- MODULE MCGreetingGate ---------------------------
EXTENDS GreetingGate
=============================================================================
