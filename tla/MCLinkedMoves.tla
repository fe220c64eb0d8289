--------------------------- MODULE MCLinkedMoves ---------------------------
EXTENDS LinkedMoves

CONSTANTS L1, L2, N1

Base == [links |-> << >>, corpus |-> {}, strict |-> FALSE,
         ext |-> 1, crash |-> 1, fault |-> 1]

Note == [Base EXCEPT !.links = <<Src, L1>>]              \* a note that links to itself
Attachment == [Base EXCEPT !.links = <<L1, L2>>, !.corpus = {L1, L2, N1}]
Copy == [Attachment EXCEPT !.strict = TRUE, !.links = <<L1>>, !.ext = 2]  \* a contained one
Alone == [Base EXCEPT !.ext = 2, !.crash = 2]           \* renameFile
Publication == [Alone EXCEPT !.strict = TRUE, !.corpus = {N1}]

MCNotes == {L1, L2, N1}
MCStories == {Note, Attachment, Copy, Alone, Publication}
=============================================================================
