------------------------- MODULE MCVscodeCollector -------------------------
EXTENDS VscodeCollector

\* The conversations have a native span each, and the first a synthesized one.  The last
\* span starts more than the window after the first one and less after the others, which
\* start together.
MCSpans == 1 .. 4
MCStart == <<0, 1, 1, 3>>
MCConversation == <<1, 2, 1, 2>>
MCNone == -1
=============================================================================
