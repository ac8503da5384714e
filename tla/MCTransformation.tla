--------------------------- MODULE MCTransformation ---------------------------
EXTENDS Transformation
CONSTANTS r1, r2
=============================================================================
