---- MODULE MCAniDBObj ----
EXTENDS AniDBObj
====
