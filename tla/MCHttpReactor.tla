--------------------------- MODULE MCHttpReactor ---------------------------
EXTENDS HttpReactor
=============================================================================
