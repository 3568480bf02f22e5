------------------------------- MODULE MCConsole -------------------------------
\* Console with two pages behind one address, which therefore share its limit.
EXTENDS Console

OneAddress == [c \in Pages |-> CHOOSE ip \in IPs : TRUE]

===============================================================================
