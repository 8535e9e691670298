------------------------------- MODULE MCBoot -------------------------------
EXTENDS Boot

\* A file of two statements, then one of a single statement.
MCStatements == <<2, 1>>
=============================================================================
