----------------------------- MODULE MCRunStore -----------------------------
EXTENDS RunStore

Commands == {"start", "resume", "cleanup", "abort"}

=============================================================================
