--------------------------- MODULE MCRelationWalk ---------------------------
EXTENDS RelationWalk

CONSTANTS a0, a1, a2, a3, sequel, other

\* At most two relations, so that every shape of cycle, diamond and self-loop over
\* the four anime comes up; each anime is a sequel, but for one.
EdgeTo(a) == <<IF a = a3 THEN other ELSE sequel, a>>
ShortLists == {<<>>} \cup {<<EdgeTo(a)>> : a \in Anime}
              \cup {<<EdgeTo(a), EdgeTo(b)>> : a, b \in Anime}
=============================================================================
