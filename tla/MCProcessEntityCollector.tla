--------------------- MODULE MCProcessEntityCollector ---------------------
EXTENDS ProcessEntityCollector

\* Task names up to three characters over a letter, a space and both
\* parentheses: every way a name can hide a ") " or a "(" is reached.
MCCommChars == {"a", " ", "(", ")"}

\* One field short of processor, exactly up to processor, and the full
\* 52-field line of current kernels.
MCFieldCounts == {36, 37, 50}
=============================================================================
