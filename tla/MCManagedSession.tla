---------------------------- MODULE MCManagedSession ----------------------------
\* ManagedSession with model values.  Tool uses of the two kinds are not
\* interchangeable, so no symmetry is declared.
EXTENDS ManagedSession

=============================================================================
