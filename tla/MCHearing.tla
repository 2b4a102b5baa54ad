----------------------------- MODULE MCHearing -----------------------------
\* Two relays; the clock is corrected once, or one write fails. The ages are
\* small: a file is believed for a tick, and a correction goes past that.
EXTENDS Hearing
=============================================================================
