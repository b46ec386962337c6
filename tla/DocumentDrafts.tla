---------------------------- MODULE DocumentDrafts ----------------------------
(***************************************************************************)
(* A plain document (one without a collaboration room) that several tabs    *)
(* edit: the draft and the revision each editor keeps, autosave, accepting  *)
(* and undoing proposals, readiness changes, the conflict dialog with its   *)
(* recovery copy, and the revision-checked writes of the server.            *)
(*                                                                         *)
(* A tab runs in one JavaScript thread, so an action is one callback: a     *)
(* click, a timer or the answer of a request.  The server serializes the    *)
(* writes of a document, so it serves a request in one step; requests are   *)
(* served and answered in any order, and either half may be lost.           *)
(*                                                                         *)
(* Content is a set of marks: <<t, n>> for the n-th edit of tab t,          *)
(* <<"target", p>> for the passage that proposal p replaces and             *)
(* <<"applied", p>> for what replaced it.                                   *)
(***************************************************************************)
EXTENDS Naturals, Sequences, FiniteSets, FiniteSetsExt

CONSTANTS
    Tabs,
    Proposals,
    Stories,    \* what users and the network may do, each a set of bounds:
                \* edits and clicks (of each tab), offers (the kinds of clicks of
                \* each tab), losses (of requests or answers), ends (whether
                \* plain writes may end), shares (whether others edit a copy)
    DraftReplacedDuringCommands \* whether a tab that waits for an apply or an undo
                \* may meanwhile take another draft: the page is rendered again
                \* with newer data, or the user loads the server's version

ASSUME DraftsBounds ==
    /\ \A b \in Stories :
         /\ b.edits \in [Tabs -> Nat] /\ b.clicks \in [Tabs -> Nat]
         /\ b.offers \in [Tabs -> SUBSET {"apply", "undo", "readiness", "copy", "retry"}]
         /\ b.losses \in Nat /\ b.ends \in BOOLEAN /\ b.shares \in BOOLEAN
    /\ DraftReplacedDuringCommands \in BOOLEAN

\* No tab is named like the marks that no tab types.
ASSUME MarksApart == {"target", "applied", "other"} \cap Tabs = {}

VARIABLES
    history,    \* every revision of the document: its content and who wrote it
    readiness,  \* the readiness of the document
    plain,      \* FALSE once the document is archived or has a collaboration room
    accepted,   \* the proposals with status accepted
    changes,    \* the documentChanges rows
    copies,     \* documents created from a conflicted draft, by creation key
    tab,        \* what each tab's editor remembers
    requests,   \* requests under way and answers on their way back
    losses,
    story       \* the bounds of this behaviour, chosen once

vars == <<history, readiness, plain, accepted, changes, copies, tab, requests, losses, story>>
serverVars == <<history, readiness, plain, accepted, changes, copies>>

Target(ps) == {<<"target", p>> : p \in ps}
Applied(ps, content) == (content \ Target(ps)) \cup {<<"applied", p>> : p \in ps}
Applies(ps, content) == Target(ps) \subseteq content
Own(t, content) == {m \in content : m[1] = t}
Other == <<"other", 1>>    \* what another client writes into a recovery copy

Revision == Len(history)
Document == history[Revision].content
Levels == {"draft", "needs_review"}

NoConflict == [local |-> {}, server |-> {}, revision |-> 0]
NoCopy == [key |-> 0, revision |-> 0]
NoAnswer == [kind |-> "none", content |-> {}, revision |-> 0, readiness |-> "draft"]
Reply(kind) ==
    [kind |-> kind, content |-> Document, revision |-> Revision, readiness |-> readiness]
Refusal == [NoAnswer EXCEPT !.kind = "refused"]

Init ==
    /\ history = <<[content |-> Target(Proposals), by |-> "creation"]>>
    /\ readiness = "draft"
    /\ plain = TRUE
    /\ accepted = {} /\ changes = {} /\ copies = {}
    /\ tab = [t \in Tabs |->
         [draft |-> Target(Proposals), version |-> 0, persisted |-> 0, base |-> 1,
          save |-> "saved", gen |-> 0, conflict |-> NoConflict,
          workflow |-> [readiness |-> "draft", revision |-> 1], mutating |-> FALSE,
          key |-> 0, keys |-> 0, copy |-> NoCopy, left |-> FALSE,
          edits |-> 0, clicks |-> 0]]
    /\ requests = {} /\ losses = 0
    /\ story \in Stories

-----------------------------------------------------------------------------
(* What a tab has under way.                                               *)
Waiting(t, kinds) == {m \in requests : m.tab = t /\ m.kind \in kinds /\ m.waiting}
Commanding(t) == Waiting(t, {"apply", "undo"}) # {}
Reading(t) == Waiting(t, {"read"}) # {}
Copying(t) == Waiting(t, {"create", "copy"}) # {}
Here(t) == ~tab[t].left
Replaceable(t) == DraftReplacedDuringCommands \/ ~Commanding(t)
HasConflict(t) == tab[t].conflict # NoConflict

\* A request of tab s, as its editor stands.
Request(t, s, kind) ==
    [tab |-> t, kind |-> kind, sent |-> s.draft, expected |-> s.base, version |-> s.version,
     gen |-> s.gen, proposals |-> {}, readiness |-> "draft", key |-> 0,
     waiting |-> TRUE, answer |-> NoAnswer]
ReadRequest(t, s) == [Request(t, s, "read") EXCEPT !.sent = {}, !.expected = 0, !.version = 0, !.gen = 0]

Becomes(t, s) == tab' = [tab EXCEPT ![t] = s]
Send(m) == requests' = requests \cup {m}
Click(t, kind) ==
    /\ Here(t) /\ kind \in story.offers[t]
    /\ tab[t].clicks < story.clicks[t]

-----------------------------------------------------------------------------
(* What the user and the timers of a tab do.                               *)

\* The user types, perhaps over the passage that a proposal is about.
Type(t) ==
    /\ Here(t) /\ tab[t].edits < story.edits[t]
    /\ \E over \in SUBSET Proposals :
         LET s == tab[t]
             text == (s.draft \ Target(over)) \cup {<<t, s.edits + 1>>} IN
         /\ Cardinality(over) <= 1 /\ Applies(over, s.draft)
         /\ Becomes(t, [s EXCEPT !.version = @ + 1, !.edits = @ + 1, !.draft = text, !.save = "dirty",
                !.conflict = IF HasConflict(t) THEN [@ EXCEPT !.local = text] ELSE @])
    /\ UNCHANGED <<serverVars, requests, losses, story>>

SaveDraft(t, clicks) ==
    LET s == [tab[t] EXCEPT !.gen = @ + 1, !.save = "saving", !.clicks = @ + clicks] IN
    /\ Here(t) /\ ~HasConflict(t) /\ ~tab[t].mutating
    /\ Becomes(t, s)
    /\ Send(Request(t, s, "save"))
    /\ UNCHANGED <<serverVars, losses, story>>

Autosave(t) == tab[t].save = "dirty" /\ SaveDraft(t, 0)

\* The save command is there unless the draft is saved or being saved; a dirty
\* draft is saved by the timer, so only a failed one makes a difference.
Retry(t) == Click(t, "retry") /\ tab[t].save = "failed" /\ SaveDraft(t, 1)

\* The user accepts proposals: the whole draft goes with them.  Nothing keeps a
\* user from a second click while the first is under way.
AcceptProposals(t) ==
    /\ Click(t, "apply")
    /\ \E ps \in SUBSET Proposals \ {{}} :
         /\ Applies(ps, tab[t].draft)
         /\ Send([Request(t, tab[t], "apply") EXCEPT
                     !.proposals = ps, !.gen = 0, !.key = tab[t].clicks])
    /\ Becomes(t, [tab[t] EXCEPT !.clicks = @ + 1])
    /\ UNCHANGED <<serverVars, losses, story>>

UndoChange(t) ==
    /\ Click(t, "undo")
    /\ tab[t].save = "saved"
    /\ \E c \in changes : c.after = tab[t].base
    /\ Send([Request(t, tab[t], "undo") EXCEPT !.sent = {}, !.gen = 0, !.key = tab[t].clicks])
    /\ Becomes(t, [tab[t] EXCEPT !.clicks = @ + 1])
    /\ UNCHANGED <<serverVars, losses, story>>

\* A readiness change waits for a workflow read that is under way.
ChangeReadiness(t) ==
    /\ Click(t, "readiness") /\ ~tab[t].mutating /\ ~Reading(t)
    /\ tab[t].save = "saved" /\ ~HasConflict(t)
    /\ Send([ReadRequest(t, tab[t]) EXCEPT !.kind = "readiness",
              !.readiness = tab[t].workflow.readiness, !.expected = tab[t].workflow.revision])
    /\ Becomes(t, [tab[t] EXCEPT !.mutating = TRUE, !.clicks = @ + 1])
    /\ UNCHANGED <<serverVars, losses, story>>

\* Focus, the network coming back, another tab's notification, or the poll.
RefreshWorkflow(t) ==
    /\ Here(t) /\ "readiness" \in story.offers[t] /\ ~Reading(t) /\ ~tab[t].mutating
    /\ Send(ReadRequest(t, tab[t]))
    /\ UNCHANGED <<serverVars, tab, losses, story>>

\* The page is rendered again with the document as it was at some revision.  A
\* snapshot older than what the tab knows is ignored, and so is every snapshot
\* while the draft is not saved.
SameDocumentSnapshot(t) ==
    /\ Here(t) /\ tab[t].save = "saved"
    /\ Replaceable(t)
    /\ \E r \in tab[t].base .. Revision :
         Becomes(t, [tab[t] EXCEPT !.draft = history[r].content, !.base = r,
             !.persisted = tab[t].version, !.conflict = NoConflict, !.copy = NoCopy, !.key = 0])
    /\ UNCHANGED <<serverVars, requests, losses, story>>

LoadServerVersion(t) ==
    /\ Here(t) /\ HasConflict(t) /\ Replaceable(t)
    /\ LET s == tab[t] IN
       Becomes(t, [s EXCEPT !.gen = @ + 1, !.version = @ + 1, !.persisted = s.version + 1,
           !.draft = s.conflict.server, !.base = s.conflict.revision,
           !.conflict = NoConflict, !.copy = NoCopy, !.key = 0, !.save = "saved"])
    /\ UNCHANGED <<serverVars, requests, losses, story>>

\* Save the conflicted draft as a new document.  A second attempt reuses the
\* creation key of the first, or saves into the copy that the first one made.
SaveAsNew(t) ==
    LET s == tab[t]
        key == IF s.key # 0 THEN s.key ELSE s.keys + 1
        m == [Request(t, s, "create") EXCEPT !.sent = s.conflict.local, !.gen = 0, !.expected = 0] IN
    /\ Click(t, "copy") /\ HasConflict(t) /\ ~Copying(t)
    /\ \/ /\ s.copy = NoCopy
          /\ Becomes(t, [s EXCEPT !.key = key, !.keys = Max({@, key}), !.clicks = @ + 1])
          /\ Send([m EXCEPT !.key = key])
       \/ /\ s.copy # NoCopy
          /\ Becomes(t, [s EXCEPT !.clicks = @ + 1])
          /\ Send([m EXCEPT !.kind = "copy", !.key = s.copy.key, !.expected = s.copy.revision])
    /\ UNCHANGED <<serverVars, losses, story>>

-----------------------------------------------------------------------------
(* The server.                                                             *)
Answered(m, answer) ==
    requests' = (requests \ {m}) \cup
        (IF m.waiting THEN {[m EXCEPT !.answer = answer]} ELSE {})
AnsweredNow(m) ==    \* with the document as this step leaves it
    Answered(m, [kind |-> "ok", content |-> history'[Len(history')].content,
                 revision |-> Len(history'), readiness |-> readiness'])

Commit(content, t) == history' = Append(history, [content |-> content, by |-> t])

ServeSave(m) ==
    /\ m.kind = "save"
    /\ \/ /\ plain /\ m.expected = Revision
          /\ Commit(m.sent, m.tab)
          /\ UNCHANGED readiness
          /\ AnsweredNow(m)
       \/ /\ ~plain \/ m.expected # Revision
          /\ Answered(m, IF plain THEN Reply("conflict") ELSE Refusal)
          /\ UNCHANGED <<history, readiness>>
    /\ UNCHANGED <<plain, accepted, changes, copies>>

ServeApply(m) ==
    /\ m.kind = "apply"
    /\ LET pending == m.proposals \cap accepted = {} IN
       \/ /\ plain /\ pending /\ m.expected = Revision /\ Applies(m.proposals, m.sent)
          /\ Commit(Applied(m.proposals, m.sent), m.tab)
          /\ accepted' = accepted \cup m.proposals
          /\ changes' = changes \cup {[proposals |-> m.proposals, before |-> m.sent,
                                       after |-> Revision + 1, undone |-> FALSE]}
          /\ UNCHANGED readiness
          /\ AnsweredNow(m)
       \/ /\ ~(plain /\ pending /\ m.expected = Revision /\ Applies(m.proposals, m.sent))
          /\ Answered(m, IF plain /\ pending /\ m.expected # Revision
                         THEN Reply("conflict") ELSE Refusal)
          /\ UNCHANGED <<history, readiness, accepted, changes>>
    /\ UNCHANGED <<plain, copies>>

\* Undo names its change by the revision the change made.
ServeUndo(m) ==
    /\ m.kind = "undo"
    /\ \E c \in changes :
         /\ c.after = m.expected
         /\ \/ /\ plain /\ ~c.undone /\ Revision = c.after
               /\ Commit(c.before, m.tab)
               /\ accepted' = accepted \ c.proposals
               /\ changes' = (changes \ {c}) \cup {[c EXCEPT !.undone = TRUE]}
               /\ UNCHANGED readiness
               /\ AnsweredNow(m)
            \/ /\ ~(plain /\ ~c.undone /\ Revision = c.after)
               /\ Answered(m, IF plain /\ ~c.undone THEN Reply("conflict") ELSE Refusal)
               /\ UNCHANGED <<history, readiness, accepted, changes>>
    /\ UNCHANGED <<plain, copies>>

\* A readiness change raises the document's revision and leaves its content.
ServeReadiness(m) ==
    /\ m.kind = "readiness"
    /\ \/ /\ plain /\ m.readiness = readiness
          /\ readiness' = CHOOSE l \in Levels : l # readiness
          /\ Commit(Document, m.tab)
          /\ AnsweredNow(m)
       \/ /\ ~plain \/ m.readiness # readiness
          /\ Answered(m, IF plain THEN Reply("conflict") ELSE Refusal)
          /\ UNCHANGED <<history, readiness>>
    /\ UNCHANGED <<plain, accepted, changes, copies>>

ServeRead(m) ==
    /\ m.kind = "read"
    /\ Answered(m, IF plain THEN [Reply("ok") EXCEPT !.content = {}] ELSE Refusal)
    /\ UNCHANGED serverVars

\* A creation key names one document: sending it again finds that document.
ServeCreate(m) ==
    /\ m.kind = "create"
    /\ LET k == <<m.tab, m.key>>
           there == {c \in copies : c.key = k}
           made == [key |-> k, content |-> m.sent, revision |-> 1, shared |-> FALSE]
           c == IF there = {} THEN made ELSE CHOOSE c \in there : TRUE IN
       /\ copies' = copies \cup {c}
       /\ Answered(m, [NoAnswer EXCEPT !.kind = IF there = {} THEN "ok" ELSE "replayed",
                           !.content = c.content, !.revision = c.revision])
    /\ UNCHANGED <<history, readiness, plain, accepted, changes>>

ServeCopy(m) ==
    /\ m.kind = "copy"
    /\ \E c \in copies :
         /\ c.key = <<m.tab, m.key>>
         /\ LET saved == [c EXCEPT !.content = m.sent, !.revision = @ + 1]
                fits == c.revision = m.expected
                d == IF fits THEN saved ELSE c IN
            /\ copies' = (copies \ {c}) \cup {d}
            /\ Answered(m, [NoAnswer EXCEPT !.kind = IF fits THEN "ok" ELSE "conflict",
                                !.content = d.content, !.revision = d.revision])
    /\ UNCHANGED <<history, readiness, plain, accepted, changes>>

Kinds == {"save", "apply", "undo", "readiness", "read", "create", "copy"}

Serve(ts, kinds) ==
    /\ \E m \in requests :
         /\ m.answer = NoAnswer /\ m.tab \in ts /\ m.kind \in kinds
         /\ \/ ServeSave(m) \/ ServeApply(m) \/ ServeUndo(m) \/ ServeReadiness(m)
            \/ ServeRead(m) \/ ServeCreate(m) \/ ServeCopy(m)
    /\ UNCHANGED <<tab, losses, story>>

\* The document is archived, or a collaboration room is initialized for it.
EndPlainWrites ==
    /\ plain /\ story.ends
    /\ plain' = FALSE
    /\ UNCHANGED <<history, readiness, accepted, changes, copies, tab, requests, losses, story>>

\* Another client opens a recovery copy and edits it, once.
OtherEditsCopy ==
    /\ story.shares
    /\ \E c \in copies :
         /\ ~c.shared
         /\ copies' = (copies \ {c}) \cup
              {[c EXCEPT !.content = @ \cup {Other}, !.revision = @ + 1, !.shared = TRUE]}
    /\ UNCHANGED <<history, readiness, plain, accepted, changes, tab, requests, losses, story>>

-----------------------------------------------------------------------------
(* Answers, in the tab that waits for them.                                *)
Take(m, s) ==    \* and the tab has nothing more to ask
    Becomes(m.tab, s) /\ requests' = requests \ {m}
TakeAndSend(m, s, next) ==
    Becomes(m.tab, s) /\ requests' = (requests \ {m}) \cup {next}

\* serverRevisionRef only advances: an answer may be late.
Advance(base, revision) == Max({base, revision})

Recovered(s, a) ==
    [s EXCEPT !.gen = @ + 1, !.copy = NoCopy, !.key = 0, !.save = "failed",
        !.conflict = [local |-> s.draft, server |-> a.content, revision |-> a.revision]]

NotSaved_Silent(s, m) == s

NotSaved(s, m) ==
    IF m.gen # s.gen THEN s
    ELSE [s EXCEPT !.save = IF s.version = m.version THEN "failed" ELSE "dirty"]

Saved_AnyVersion(s, m) ==
    [s EXCEPT !.persisted = Max({@, m.version}), !.base = Advance(@, m.answer.revision),
        !.save = IF m.gen # s.gen THEN @ ELSE "saved"]

Saved(s, m) ==
    [s EXCEPT !.persisted = Max({@, m.version}), !.base = Advance(@, m.answer.revision),
        !.save = IF m.gen # s.gen THEN @
                 ELSE IF s.version = m.version THEN "saved" ELSE "dirty"]

SaveConflicts(s, m) ==
    IF m.gen # s.gen THEN s
    ELSE IF s.persisted >= m.version
    THEN [s EXCEPT !.save = IF s.version <= s.persisted THEN "saved" ELSE "dirty"]
    ELSE Recovered(s, m.answer)

TakeSave(m) ==
    LET s == tab[m.tab] IN
    /\ m.kind = "save"
    /\ \/ m.answer.kind = "ok" /\ Take(m, Saved(s, m))
       \/ m.answer.kind = "conflict" /\ Take(m, SaveConflicts(s, m))
       \/ m.answer.kind = "refused" /\ Take(m, NotSaved(s, m))

AppliedTo_Server(s, m) ==
    [s EXCEPT !.gen = @ + 1, !.base = Advance(@, m.answer.revision), !.version = @ + 1,
        !.persisted = s.version + 1, !.draft = m.answer.content, !.save = "saved"]

\* What was typed while the proposals were on their way is kept: they are
\* applied to it again.  When they no longer apply, the tab keeps its old base.
AppliedTo(s, m) ==
    LET newer == s.version # m.version IN
    IF newer /\ ~Applies(m.proposals, s.draft) THEN s
    ELSE [s EXCEPT !.gen = @ + 1, !.base = Advance(@, m.answer.revision), !.version = @ + 1,
             !.persisted = Max({@, IF newer THEN m.version ELSE s.version + 1}),
             !.draft = IF newer THEN Applied(m.proposals, s.draft) ELSE m.answer.content,
             !.save = IF newer THEN "dirty" ELSE "saved"]

TakeApply(m) ==
    LET s == tab[m.tab] IN
    /\ m.kind = "apply"
    /\ \/ m.answer.kind = "ok" /\ Take(m, AppliedTo(s, m))
       \/ m.answer.kind = "conflict" /\ Take(m, Recovered(s, m.answer))
       \/ m.answer.kind = "refused" /\ Take(m, s)

Undone(s, m) ==
    IF s.version # m.version
    THEN [s EXCEPT !.save = "failed", !.conflict =
              [local |-> s.draft, server |-> m.answer.content, revision |-> m.answer.revision]]
    ELSE [s EXCEPT !.gen = @ + 1, !.base = Advance(@, m.answer.revision), !.version = @ + 1,
             !.persisted = s.version + 1, !.draft = m.answer.content,
             !.conflict = NoConflict, !.save = "saved"]

TakeUndo(m) ==
    LET s == tab[m.tab] IN
    /\ m.kind = "undo"
    /\ \/ m.answer.kind = "ok" /\ Take(m, Undone(s, m))
       \/ m.answer.kind = "conflict" /\ Take(m, Recovered(s, m.answer))
       \/ m.answer.kind = "refused" /\ Take(m, s)

ReadinessTaken_Always(s, m) ==
    [s EXCEPT !.workflow = [readiness |-> m.answer.readiness, revision |-> m.answer.revision],
        !.base = IF m.answer.kind = "ok" THEN Advance(@, m.answer.revision) ELSE @]

\* The base follows a readiness change only when that change is provably the
\* one revision since the base.  The authoritative workflow is read afterwards.
ReadinessTaken(s, m) ==
    [s EXCEPT !.workflow = [readiness |-> m.answer.readiness, revision |-> m.answer.revision],
        !.base = IF m.answer.kind = "ok" /\ m.expected = s.base /\ m.answer.revision = m.expected + 1
                 THEN Advance(@, m.answer.revision) ELSE @]

TakeReadiness(m) ==
    LET s == tab[m.tab] IN
    /\ m.kind = "readiness"
    /\ TakeAndSend(m, IF m.answer.kind = "refused" THEN s ELSE ReadinessTaken(s, m), ReadRequest(m.tab, s))

TakeRead(m) ==
    LET s == tab[m.tab]
        w == [readiness |-> m.answer.readiness, revision |-> m.answer.revision] IN
    /\ m.kind = "read"
    /\ Take(m, [s EXCEPT !.mutating = FALSE,
                    !.workflow = IF m.answer.kind = "ok" THEN w ELSE @])

\* The copy holds what was sent.  The tab moves to it unless its user typed on.
CopyKept(m, s) == [s EXCEPT !.copy = [key |-> m.key, revision |-> m.answer.revision]]

Leave(t, s) ==
    /\ Becomes(t, [s EXCEPT !.left = TRUE])
    /\ requests' = {n \in requests : n.tab # t} \cup
         {[n EXCEPT !.waiting = FALSE] : n \in {n \in requests : n.tab = t /\ n.answer = NoAnswer}}

CopyHolds_Leaves(m, s) == Leave(m.tab, CopyKept(m, s))

CopyHolds(m, s) ==
    \/ s.version # m.version /\ Take(m, CopyKept(m, s))
    \/ s.version = m.version /\ Leave(m.tab, CopyKept(m, s))

TakeCreate(m) ==
    LET s == tab[m.tab] IN
    /\ m.kind = "create"
    /\ IF m.answer.kind = "replayed" /\ m.answer.content # m.sent
       THEN TakeAndSend(m, [s EXCEPT !.copy = [key |-> m.key, revision |-> m.answer.revision]],
                [m EXCEPT !.kind = "copy", !.expected = m.answer.revision, !.answer = NoAnswer])
       ELSE CopyHolds(m, s)

TakeCopy(m) ==
    LET s == tab[m.tab] IN
    /\ m.kind = "copy"
    /\ IF m.answer.kind = "conflict" /\ m.answer.content # m.sent
       THEN Take(m, [s EXCEPT !.copy = NoCopy, !.key = 0])
       ELSE CopyHolds(m, s)

TakeAnswer(ts, kinds) ==
    /\ \E m \in requests :
         /\ m.answer # NoAnswer /\ m.tab \in ts /\ m.kind \in kinds
         /\ \/ TakeSave(m) \/ TakeApply(m) \/ TakeUndo(m) \/ TakeReadiness(m)
            \/ TakeRead(m) \/ TakeCreate(m) \/ TakeCopy(m)
    /\ UNCHANGED <<serverVars, losses, story>>

\* The request or its answer is lost, and the editor's fetch fails.  The server
\* may still serve a request that it has not served yet.
Lose ==
    /\ losses < story.losses
    /\ losses' = losses + 1
    /\ \E m \in requests :
         LET s == tab[m.tab]
             orphan == IF m.answer = NoAnswer THEN {[m EXCEPT !.waiting = FALSE]} ELSE {}
             read == IF m.kind = "readiness" THEN {ReadRequest(m.tab, s)} ELSE {} IN
         /\ m.waiting
         /\ Becomes(m.tab,
              CASE m.kind = "save" -> NotSaved(s, m)
                [] m.kind = "read" -> [s EXCEPT !.mutating = FALSE]
                [] OTHER -> s)
         /\ requests' = (requests \ {m}) \cup orphan \cup read
    /\ UNCHANGED <<serverVars, story>>

Next ==
    \/ \E t \in Tabs :
         \/ Type(t) \/ Autosave(t) \/ Retry(t) \/ AcceptProposals(t) \/ UndoChange(t)
         \/ ChangeReadiness(t) \/ RefreshWorkflow(t) \/ SameDocumentSnapshot(t)
         \/ LoadServerVersion(t) \/ SaveAsNew(t)
    \/ Serve(Tabs, Kinds) \/ TakeAnswer(Tabs, Kinds) \/ Lose
    \/ EndPlainWrites \/ OtherEditsCopy

Spec == Init /\ [][Next]_vars

\* Requests are served and their answers taken (or they are lost), and timers
\* run.  Reads may go on for ever, so they are served in their own right.
FairSpec ==
    /\ Spec
    /\ WF_vars(Serve(Tabs, Kinds \ {"read"})) /\ WF_vars(TakeAnswer(Tabs, Kinds \ {"read"}))
    /\ \A t \in Tabs :
         WF_vars(Autosave(t)) /\ WF_vars(Serve({t}, {"read"})) /\ WF_vars(TakeAnswer({t}, {"read"}))

-----------------------------------------------------------------------------
(* Properties.                                                             *)

\* The revision an editor writes with exists, and so does the version of the
\* draft it believes is persisted; a request never comes from a later draft.
DraftsTypeOK ==
    /\ \A t \in Tabs :
         /\ tab[t].save \in {"saved", "dirty", "saving", "failed"}
         /\ tab[t].base \in 1 .. Revision
         /\ tab[t].persisted \in 0 .. tab[t].version
    /\ \A m \in requests : m.gen <= tab[m.tab].gen /\ m.version <= tab[m.tab].version

\* No write of the document drops what another tab typed and saved there: a stale
\* writer gets a conflict (the revision check of saveDocumentDraft, of applying and
\* of undoing, with the bases that DocumentShell sends).  Of a recovery copy this
\* is not so: a tab that lost the answer of its creation takes the copy's current
\* revision for its own and overwrites what another client wrote there since.
NothingOverwritten ==
    \A r \in 2 .. Revision : \A t \in Tabs \ {history[r].by} :
        Own(t, history[r - 1].content) \subseteq history[r].content

\* What a tab typed that no revision of the document has.
Unsaved(t) ==
    Own(t, tab[t].draft) \ UNION {history[r].content : r \in 1 .. Revision}

\* An editor that shows "saved" has nothing that no revision holds: the guard
\* that asks before the page is left (the beforeunload handler) looks only there.
UnsavedIsGuarded ==
    \A t \in Tabs : Here(t) /\ Unsaved(t) # {} => tab[t].save # "saved"

\* A tab that moved to its recovery copy left nothing of its user behind, whatever
\* was typed, lost or retried on the way (saveLocalConflictAsNew).
CopyComplete ==
    \A t \in Tabs : tab[t].left =>
        \E c \in copies : c.key = <<t, tab[t].copy.key>> /\ Own(t, tab[t].draft) \subseteq c.content

\* No answer, however late, and no newer page takes unsaved typing out of the
\* editor; only a user who asks for the server's version gives it up.
EditsKept ==
    [][\A t \in Tabs : Unsaved(t) \subseteq tab'[t].draft \/ LoadServerVersion(t)]_vars

\* An editor does not stay "saving" or locked by a readiness change: it ends up
\* saved, or tells its user that a save failed or is in conflict.
DraftsSettle ==
    \A t \in Tabs :
        []<>(~tab[t].mutating /\ (tab[t].save \in {"saved", "failed"} \/ HasConflict(t)))
=============================================================================
