--------------------------- MODULE MCConversations ---------------------------
(* Model checking Conversations: the stories; the rest of the instance is in *)
(* the configuration.                                                        *)
EXTENDS Conversations, TLC

Story == [edits |-> 0, forks |-> 0, selects |-> 0, presses |-> 0, other |-> 0,
          losses |-> 0, load |-> "loaded"]

\* Edits that wait for one another; a creation that is tried again twice at once
Edited == [Story EXCEPT !.edits = 2, !.losses = 1, !.presses = 1]
PressedTwice == [Story EXCEPT !.edits = 1, !.losses = 1, !.presses = 2]

\* Another tab in between: conflicts, and retries that read the conversation again
Contended == [Story EXCEPT !.edits = 1, !.losses = 1, !.other = 1, !.presses = 1]
ContendedTwice == [Story EXCEPT !.other = 1, !.losses = 2, !.presses = 3]

\* A fork that fails and is tried again, also while a rename is being stored
Forked == [Story EXCEPT !.forks = 1, !.edits = 1, !.losses = 1, !.presses = 2]

\* A page that could not list, loads, and selects what it is shown
Listed == [Story EXCEPT !.forks = 1, !.edits = 1, !.selects = 1, !.load = "failed"]
ListedLate == [Story EXCEPT !.other = 1, !.selects = 2, !.losses = 1, !.presses = 1,
                            !.load = "failed"]

MCStories == {Edited, PressedTwice, Contended, ContendedTwice, Forked, Listed, ListedLate}

=============================================================================
