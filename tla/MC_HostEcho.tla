----------------------------- MODULE MC_HostEcho -----------------------------
EXTENDS HostEcho

\* Texts as UTF-8 character widths, against a receive buffer scaled from
\* 1024 to 4 bytes.  A short one, with a two-byte character, fits it.
MC_Short == {<<2, 1>>}

\* One byte too long: all ASCII (cut on a character boundary), and ASCII
\* then a two-byte character that the cut splits.
MC_Long == {<<1, 1, 1, 1, 1>>, <<1, 1, 1, 2>>}

MC_ShortAndLong == MC_Short \cup MC_Long

\* 'H', one byte.
MC_PAYLOAD == 1

=============================================================================
