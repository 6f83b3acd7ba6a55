-------------------------- MODULE MCPressureTask --------------------------
EXTENDS PressureTask
CONSTANTS a, b
MCProcesses == a :> 2 @@ b :> 1
=============================================================================
