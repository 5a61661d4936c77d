----------------------------- MODULE MCBufferedLog -----------------------------
EXTENDS BufferedLog

\* A short line, one that fills the buffer behind it, one that fits no buffer.
MCLineLength == <<1, 3, 5>>

=============================================================================
