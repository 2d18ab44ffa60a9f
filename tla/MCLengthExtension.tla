------------------------- MODULE MCLengthExtension -------------------------
EXTENDS LengthExtension

\* Every length of up to five extension bytes.
SomeLengths == 1 .. 1300

\* The shortest literal run the decoder refuses: 65793 zero bytes and a last
\* one, 15 + 255 * 65793 > 1 << 24.
TooLong == {16777234}
=============================================================================
