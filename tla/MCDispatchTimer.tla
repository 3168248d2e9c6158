-------------------------- MODULE MCDispatchTimer --------------------------
EXTENDS DispatchTimer

\* The first count wraps and ticks four times, the second ticks three times.
WrapStart == <<0, 3>>
=============================================================================
