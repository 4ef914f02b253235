---------------------------- MODULE MCFileStream ----------------------------
EXTENDS FileStream

\* Two lines, the second without its newline, so that calls meet a full
\* line, a line cut by count, and end of file after some bytes.
MC_Input == <<"a", NL, "b">>

\* count 0 and 1 take the early return and the empty loop, 2 and 3 cut a
\* line or read it whole.
MC_Counts == {0, 1, 2, 3}
=============================================================================
