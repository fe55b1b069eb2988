--------------------------- MODULE MCAudioSettings ---------------------------
\* AudioSettings with two microphones.
EXTENDS AudioSettings, TLC

CONSTANTS m1, m2
ConstMics == {m1, m2}
=============================================================================
