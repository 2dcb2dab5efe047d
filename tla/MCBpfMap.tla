------------------------------ MODULE MCBpfMap ------------------------------
EXTENDS BpfMap

\* The first sample is neither the least nor the greatest, and a 0 is given
\* that must not be taken for the 0 of a CPU that recorded nothing.
ThreeSamples == <<2, 0, 3>>
=============================================================================
