-------------------------- MODULE MCComPortStream --------------------------
EXTENDS ComPortStream

\* One byte of each class the receiver tells apart: the flags it acts on, the
\* other start flag, a link flag it does not know, plain data whose top bit
\* is clear or set, and an escaped flag (0x2C stands for 0xAC after an ESC).
MCInputs == {FLAG_START, FLAG_IDA, FLAG_END, FLAG_ESC, FLAG__NULL, FLAG_LPH2RL, 44, 200}
MCSizes == {0, 1, 2}
=============================================================================
