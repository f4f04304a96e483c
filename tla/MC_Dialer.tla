------------------------------- MODULE MC_Dialer -------------------------------
EXTENDS Dialer

\* forever (-1, and any other negative int32), never (0), and 1..3 retries
MCRedialChoices == {-2, -1, 0, 1, 2, 3}
=============================================================================
