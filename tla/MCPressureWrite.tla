-------------------------- MODULE MCPressureWrite --------------------------
EXTENDS PressureWrite
MCSize == [f \in Files |-> IF f = 1 THEN 1 ELSE 2]
=============================================================================
