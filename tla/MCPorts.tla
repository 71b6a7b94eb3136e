------------------------------- MODULE MCPorts -------------------------------
EXTENDS Ports, TLC

MCSemaphore == ({"cs", "ps", "mutex"} \X Port) \cup {all}

MCInputValue == [s \in MCSemaphore |-> CASE s[1] = "cs" -> 0
                                         [] s[1] = "ps" -> N
                                         [] s[1] = "mutex" -> 1]
=============================================================================
