----------------------------- MODULE MCRateLimit -----------------------------
EXTENDS RateLimit

CONSTANTS a, b

MCCallers == {a, b}

====
