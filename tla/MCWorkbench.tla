---------------------------- MODULE MCWorkbench ----------------------------
EXTENDS Workbench

Case(id, priority, risk, closed, source, located, target) ==
    [id |-> id, priority |-> priority, risk |-> risk, closed |-> closed,
     source |-> source, located |-> located, target |-> target]

Event(id, attack, high, confidence) ==
    [id |-> id, attack |-> attack, high |-> high, confidence |-> confidence]

\* Two sources, one of them located only in its second case.
MCCases == <<Case("c1", "P1", 95, FALSE, "x", TRUE, "a"),
             Case("c2", "P2", 80, FALSE, "y", FALSE, "a"),
             Case("c3", "P1", 70, TRUE, "y", TRUE, "b"),
             Case("c4", "P3", 60, FALSE, "x", TRUE, "b"),
             Case("c5", "P4", 10, FALSE, "z", TRUE, "c")>>

MCEvents == <<Event("e1", FALSE, FALSE, 30), Event("e2", TRUE, TRUE, 95),
              Event("e3", TRUE, FALSE, 60)>>

\* Nothing yet; then two events and three cases; then one event and two cases more,
\* the first case closed.
MCWorlds ==
    <<[events |-> <<>>, cases |-> <<>>],
      [events |-> SubSeq(MCEvents, 1, 2), cases |-> SubSeq(MCCases, 1, 3)],
      [events |-> MCEvents,
       cases |-> [MCCases EXCEPT ![1].closed = TRUE]]>>

MCLists == <<<<>>, SubSeq(MCEvents, 1, 2), MCEvents>>

MCTexts == {"", "x", "nowhere"}
MCFound == [text \in MCTexts |-> IF text = "x" THEN {"e1", "e3"} ELSE {}]
=============================================================================
