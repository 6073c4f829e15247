---------------------------- MODULE MCGuiBridge ----------------------------
EXTENDS GuiBridge

CONSTANTS friend, alike, crowd, hello, find

\* "alike" is not listed, but its name contains that of the friend; so does the crowd's,
\* which is listed.
ChatTarget == (friend :> friend) @@ (alike :> friend) @@ (crowd :> crowd)
ChatAlike == {<<friend, friend>>, <<alike, friend>>, <<crowd, crowd>>, <<friend, crowd>>, <<crowd, friend>>}
=============================================================================
