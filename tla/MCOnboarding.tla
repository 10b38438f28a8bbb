----------------------------- MODULE MCOnboarding -----------------------------
EXTENDS Onboarding, TLC

CONSTANTS p1, p2

Papers == Permutations(Docs)
===============================================================================
