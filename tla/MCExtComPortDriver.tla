------------------------- MODULE MCExtComPortDriver -------------------------
EXTENDS ExtComPortDriver

\* An identification byte and a message byte that have to be escaped, and a
\* response of one byte.
MCIdentification == <<160>>
MCMessages == {<<160>>}
MCResponse == <<82>>
=============================================================================
