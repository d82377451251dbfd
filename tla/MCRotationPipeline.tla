------------------------- MODULE MCRotationPipeline -------------------------
EXTENDS RotationPipeline
=============================================================================
