--------------------------- MODULE MCImageIngest ---------------------------
EXTENDS ImageIngest
=============================================================================
