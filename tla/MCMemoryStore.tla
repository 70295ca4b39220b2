--------------------------- MODULE MCMemoryStore ---------------------------
EXTENDS MemoryRotation

Inside == {"inside"}
Anywhere == {"inside", "unterminated"}
=============================================================================
