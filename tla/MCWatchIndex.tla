----------------------------- MODULE MCWatchIndex -----------------------------
EXTENDS WatchIndex

\* A story: when the watcher becomes ready, how many paths may have no note at
\* first, what happens once, and how often a reading fails.
Story(start, vacant, S, faults) ==
  [start |-> start, vacant |-> vacant,
   count |-> [e \in Events |-> IF e = "fault" THEN faults ELSE IF e \in S THEN 1 ELSE 0]]

Early == {Story("early", 0, {"write", "delete"}, 1), Story("early", 0, {"write"}, 3),
          Story("early", 0, {"write", "delete", "overflow"}, 0),
          Story("early", 0, {"write", "overflow"}, 1), Story("early", 1, {"write", "rename"}, 0),
          Story("early", 1, {"link", "rename"}, 0), Story("early", 1, {"save", "create"}, 0),
          Story("early", 0, {"save"}, 1)}
Anytime == {Story("any", 0, {"write", "delete"}, 0), Story("any", 0, {"save"}, 0)}
Stories == Early \cup Anytime

Transient == {Story("early", 1, {"save", "delete"}, 0)}
=============================================================================
