------------------------------ MODULE MCDupCall ------------------------------
EXTENDS DupCall

CONSTANTS a, b

MCCallers == {a, b}

====
