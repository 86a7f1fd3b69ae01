-------------------------- MODULE MCFinalityProber --------------------------
EXTENDS FinalityProber
=============================================================================
