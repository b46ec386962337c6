--------------------------- MODULE MCDocumentDrafts ---------------------------
(* Model checking DocumentDrafts: two tabs, one proposal, and one story for   *)
(* each group of clicks, so that the run is the sum of their state spaces.    *)
EXTENDS DocumentDrafts, TLC

CONSTANTS t1, t2, p

Story(edits, clicks, offers) ==
    [edits |-> t1 :> edits[1] @@ t2 :> edits[2],
     clicks |-> t1 :> clicks[1] @@ t2 :> clicks[2],
     offers |-> t1 :> offers @@ t2 :> offers,
     losses |-> 0, ends |-> FALSE, shares |-> FALSE]

\* A proposal is accepted, twice or to be undone, while both tabs type.
Commands == Story(<<1, 1>>, <<2, 0>>, {"apply", "undo"})
\* One is accepted between two edits of the same tab.
EditsAround == Story(<<2, 1>>, <<1, 0>>, {"apply"})
\* The same in one tab, over a network that loses something.
LostCommands ==
    [Story(<<1, 1>>, <<2, 0>>, {"apply", "undo"}) EXCEPT !.losses = 1, !.ends = TRUE]
\* Readiness changes share the document's revision with saves.
ReadinessChanges ==
    [Story(<<1, 1>>, <<2, 0>>, {"readiness"}) EXCEPT !.offers[t2] = {}, !.losses = 1]
\* Saves that fail or come too late, until plain writes end.
Retries == [Story(<<2, 1>>, <<1, 0>>, {"retry"}) EXCEPT !.losses = 1, !.ends = TRUE]
\* Recovery copies: the answer of the first attempt is lost while the other tab
\* types on, ...
LostCopies == [Story(<<2, 1>>, <<2, 0>>, {"copy"}) EXCEPT !.losses = 1]
\* ... or somebody else edits the copy before the second attempt.
SharedCopies == [Story(<<3, 0>>, <<3, 0>>, {"copy"}) EXCEPT !.losses = 1, !.shares = TRUE]

MCStories ==
    {Commands, EditsAround, LostCommands, ReadinessChanges, Retries, LostCopies, SharedCopies}
MCCommands == {Story(<<1, 1>>, <<1, 0>>, {"apply"})}
=============================================================================
