-------------------------- MODULE MCJBindingSession --------------------------
EXTENDS JBindingSession, TLC
=============================================================================
