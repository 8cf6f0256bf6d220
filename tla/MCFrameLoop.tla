---------------------------- MODULE MCFrameLoop ----------------------------
EXTENDS FrameLoop
============================================================================
