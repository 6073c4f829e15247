-------------------------- MODULE MCTaskLifecycle --------------------------
EXTENDS TaskLifecycle

CONSTANTS m1, m2

\* A request, and then a copy of it, another request, or a command.
MCCarried == <<{m1}, {m1, m2}>>
MCUses == <<{"work"}, {"work", "stop", "end", "other"}>>
=============================================================================
