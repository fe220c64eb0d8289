--------------------------- MODULE MCEditorSession ---------------------------
EXTENDS EditorSession, TLC

Symmetry == Permutations(Text)

Story == [eager |-> FALSE, edit |-> 2, external |-> 0, crash |-> 0, fault |-> 0, flush |-> 0,
          close |-> 0]
Competition == [Story EXCEPT !.edit = 3, !.external = 2]
Waiting == [Story EXCEPT !.edit = 3, !.flush = 2]
Closing == [Story EXCEPT !.edit = 4, !.flush = 1, !.close = 1]
Failures == [Story EXCEPT !.external = 1, !.crash = 1, !.fault = 1]
Hasty == [Failures EXCEPT !.eager = TRUE]

Stories == {Competition, Waiting, Closing, Failures, Hasty}
Recovery == {[Story EXCEPT !.crash = 1]}
Undone == {[Story EXCEPT !.edit = 3, !.external = 1, !.flush = 1]}
=============================================================================
