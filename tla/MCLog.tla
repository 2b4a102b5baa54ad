------------------------------- MODULE MCLog -------------------------------
\* One log of three entries and two heartbeats, under stops, clock time and one
\* failing disk write.
EXTENDS LogReview
=============================================================================
