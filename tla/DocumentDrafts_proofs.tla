------------------------ MODULE DocumentDrafts_proofs ------------------------
(***************************************************************************)
(* Proofs about DocumentDrafts, for any tabs, proposals and stories.        *)
(*                                                                         *)
(* Nothing unsaved passes for saved and nothing unsaved leaves an editor,   *)
(* whatever is lost.  What is saved are the marks that some revision holds  *)
(* (Held).  The invariant says of every tab that a draft counts as saved    *)
(* only when Held has all its user typed (TabSound), and of every request   *)
(* that as long as the tab's draft version is the one it was sent with, the *)
(* draft has nothing of the user that is neither in the request nor held    *)
(* (Sound).  Held only grows, so a step of the server keeps both; a step of *)
(* a tab keeps them when versions advance with what is typed.               *)
(*                                                                         *)
(* No write drops what another tab wrote: every draft, write and answer has *)
(* of the others what the revision it names has (Founded, RequestFounded),  *)
(* and the server writes at that revision only.  No save into a recovery    *)
(* copy drops what another client wrote there: the revision that a tab      *)
(* knows of a copy lies before that client's (Behind).                      *)
(*                                                                         *)
(* A tab leaves only when its copy has all its user typed.  The text of a   *)
(* conflict, and what is sent to a copy while the draft has that version,   *)
(* have all that the draft has or that a newer page may bring to it (Holds, *)
(* OInv).  What an answer tells of a copy holds: no save that is still on   *)
(* its way expects a revision that late (CopyAnswered, KInv).               *)
(***************************************************************************)
EXTENDS DocumentDrafts, TLAPS

Held(h) == UNION {h[r].content : r \in 1 .. Len(h)}
Entries(h) == {h[r] : r \in 1 .. Len(h)}

TabFields == {"draft", "version", "persisted", "base", "save", "gen", "conflict", "workflow",
              "mutating", "key", "keys", "copy", "left", "edits", "clicks"}
RequestFields == {"tab", "kind", "sent", "expected", "version", "gen", "proposals",
                  "readiness", "key", "waiting", "answer"}
Writes == {"save", "apply", "undo"}

\* Of the editor s of tab t, while the history is h.
TabSound(t, s, h) ==
    /\ DOMAIN s = TabFields
    /\ s.version \in Nat /\ s.persisted \in Nat /\ s.gen \in Nat
    /\ s.base \in 1 .. Len(h)
    /\ s.persisted <= s.version
    /\ s.save \in {"saved", "dirty", "saving", "failed"}
    /\ DOMAIN s.conflict = {"local", "server", "revision"}
    /\ s.conflict.server \subseteq Held(h)
    /\ s.conflict # NoConflict => s.conflict.revision \in 1 .. Len(h)
    /\ s.save = "saved" \/ s.persisted = s.version => Own(t, s.draft) \subseteq Held(h)

\* Of the request m of a tab whose editor is s.
Sound(m, s, h) ==
    /\ DOMAIN m = RequestFields
    /\ m.tab \in Tabs /\ m.version \in Nat /\ m.gen \in Nat
    /\ m.gen <= s.gen /\ m.version <= s.version
    /\ m.kind = "undo" => m.sent = {}
    /\ m.kind = "readiness" =>
         m.answer = NoAnswer \/ m.answer.kind \in {"ok", "conflict", "refused"}
    /\ m.kind \in Writes /\ m.version = s.version =>
         Own(m.tab, s.draft) \subseteq m.sent \cup Held(h)
    /\ m.kind \in Writes /\ m.answer.kind = "ok" => Own(m.tab, m.sent) \subseteq Held(h)
    /\ m.kind \in Writes \cup {"readiness"} /\ m.answer.kind \in {"ok", "conflict"} =>
         m.answer.content \subseteq Held(h) /\ m.answer.revision \in 1 .. Len(h)

HistorySound(h) == h \in Seq(Entries(h)) /\ Len(h) \in Nat \ {0}

IInv ==
    /\ HistorySound(history)
    /\ DOMAIN tab = Tabs
    /\ \A t \in Tabs : TabSound(t, tab[t], history)
    /\ \A m \in requests : m.tab \in Tabs /\ Sound(m, tab[m.tab], history)

\* What a step of tab t may do to its editor: it forgets nothing that is not
\* held, and the draft of one version has nothing new that is not held.
Keeps(t, s, s2, h) == Own(t, s.draft) \subseteq s2.draft \cup Held(h)
Follows(t, s, s2, h) ==
    /\ s.gen <= s2.gen /\ s.version <= s2.version
    /\ s.version = s2.version => Own(t, s2.draft) \subseteq s.draft \cup Held(h)
Steps(t, s, s2, h) ==
    TabSound(t, s2, h) /\ Follows(t, s, s2, h) /\ Keeps(t, s, s2, h)

-----------------------------------------------------------------------------
(* Lemmas.                                                                 *)

LEMMA MaxOfTwo ==
    ASSUME NEW a \in Nat, NEW b \in Nat
    PROVE  /\ Max({a, b}) \in {a, b}
           /\ Max({a, b}) >= a /\ Max({a, b}) >= b
<1>1. \E x \in {a, b} : \A y \in {a, b} : x >= y
  <2>1. CASE a >= b
    BY <2>1
  <2>2. CASE ~(a >= b)
    BY <2>2
  <2> QED BY <2>1, <2>2
<1>2. Max({a, b}) = CHOOSE x \in {a, b} : \A y \in {a, b} : x >= y
  BY DEF Max
<1> HIDE DEF Max
<1>3. Max({a, b}) \in {a, b} /\ \A y \in {a, b} : Max({a, b}) >= y
  BY <1>1, <1>2
<1> QED BY <1>3

\* A commit keeps what was held and adds what it wrote.
LEMMA CommitHolds ==
    ASSUME NEW h, HistorySound(h), NEW e
    PROVE  /\ HistorySound(Append(h, e))
           /\ Len(Append(h, e)) = Len(h) + 1
           /\ Held(h) \subseteq Held(Append(h, e))
           /\ e.content \subseteq Held(Append(h, e))
           /\ Append(h, e)[Len(h) + 1] = e
<1> DEFINE S == Entries(h) \cup {e}
           a == Append(h, e)
<1>1. h \in Seq(S)
  <2>1. \A r \in 1 .. Len(h) : h[r] \in S
    BY DEF Entries
  <2> QED BY <2>1 DEF HistorySound
<1>2. /\ a \in Seq(S) /\ Len(a) = Len(h) + 1
      /\ \A r \in 1 .. Len(h) : a[r] = h[r]
      /\ a[Len(h) + 1] = e
  BY <1>1
<1> HIDE DEF a
<1>3. HistorySound(a)
  <2>1. \A r \in 1 .. Len(a) : a[r] \in Entries(a)
    BY DEF Entries
  <2>2. a \in Seq(Entries(a))
    BY <1>2, <2>1
  <2> QED BY <1>2, <2>2 DEF HistorySound
<1>4. Held(h) \subseteq Held(a)
  <2> SUFFICES ASSUME NEW x \in Held(h) PROVE x \in Held(a)
    OBVIOUS
  <2>1. PICK r \in 1 .. Len(h) : x \in h[r].content
    BY DEF Held
  <2>2. r \in 1 .. Len(a) /\ x \in a[r].content
    BY <1>2, <2>1 DEF HistorySound
  <2> QED BY <2>2 DEF Held
<1>5. e.content \subseteq Held(a)
  <2>1. Len(h) + 1 \in 1 .. Len(a)
    BY <1>2 DEF HistorySound
  <2> QED BY <1>2, <2>1 DEF Held
<1> QED BY <1>2, <1>3, <1>4, <1>5 DEF a

\* What the last revision holds is held.
LEMMA DocumentHeld ==
    ASSUME HistorySound(history), NEW r \in 1 .. Revision
    PROVE  history[r].content \subseteq Held(history)
BY DEF Held, Revision

\* Committing proposals leaves alone what tabs typed.
LEMMA ProposalsKeepOwn ==
    ASSUME NEW t \in Tabs, NEW ps, NEW content
    PROVE  Own(t, content) \subseteq Applied(ps, content)
BY MarksApart DEF Own, Applied, Target

\* Tabs and requests stay sound while the history grows.
LEMMA Growing ==
    ASSUME NEW h, NEW h2, HistorySound(h), HistorySound(h2),
           Len(h) <= Len(h2), Held(h) \subseteq Held(h2)
    PROVE  /\ \A t, s : TabSound(t, s, h) => TabSound(t, s, h2)
           /\ \A m, s : Sound(m, s, h) => Sound(m, s, h2)
<1>1. Len(h) \in Nat /\ Len(h2) \in Nat
  BY DEF HistorySound
<1>2. ASSUME NEW t, NEW s, TabSound(t, s, h) PROVE TabSound(t, s, h2)
  BY <1>1, <1>2 DEF TabSound
<1>3. ASSUME NEW m, NEW s, Sound(m, s, h) PROVE Sound(m, s, h2)
  BY <1>1, <1>3 DEF Sound
<1> QED BY <1>2, <1>3

\* A step of the server: the editors stay, and the history may grow.
LEMMA ServerStep ==
    ASSUME IInv, UNCHANGED tab, HistorySound(history'),
           Len(history) <= Len(history'), Held(history) \subseteq Held(history'),
           \A m \in requests' : m.tab \in Tabs /\
             (Sound(m, tab[m.tab], history) \/ Sound(m, tab[m.tab], history'))
    PROVE  IInv'
<1>1. /\ \A t, s : TabSound(t, s, history) => TabSound(t, s, history')
      /\ \A m, s : Sound(m, s, history) => Sound(m, s, history')
  BY Growing DEF IInv
<1> QED BY <1>1 DEF IInv

\* A step of tab t: its requests stay sound, and new ones are.
LEMMA TabStep ==
    ASSUME IInv, NEW t \in Tabs, NEW s2, Becomes(t, s2), UNCHANGED history,
           TabSound(t, s2, history), Follows(t, tab[t], s2, history),
           \A m \in requests' : m.tab \in Tabs /\
             (Sound(m, tab[m.tab], history) \/ (m.tab = t /\ Sound(m, s2, history)))
    PROVE  IInv'
<1>1. DOMAIN tab' = Tabs /\ tab'[t] = s2 /\ \A u \in Tabs \ {t} : tab'[u] = tab[u]
  BY DEF IInv, Becomes
<1>2. ASSUME NEW m \in requests', Sound(m, tab[t], history), m.tab = t
      PROVE  Sound(m, s2, history)
  <2>1. TabSound(t, tab[t], history)
    BY DEF IInv
  <2>3. ASSUME m.kind \in Writes, m.version = s2.version
        PROVE  Own(t, s2.draft) \subseteq m.sent \cup Held(history)
    <3>1. tab[t].version = s2.version
      BY <1>2, <2>1, <2>3 DEF Sound, Follows, TabSound
    <3>2. Own(t, tab[t].draft) \subseteq m.sent \cup Held(history)
      BY <1>2, <2>3, <3>1 DEF Sound
    <3> QED BY <3>1, <3>2 DEF Follows, Own
  <2>4. m.gen <= s2.gen /\ m.version <= s2.version
    <3>1. /\ m.gen \in Nat /\ m.version \in Nat
          /\ m.gen <= tab[t].gen /\ m.version <= tab[t].version
      BY <1>2 DEF Sound
    <3>2. /\ tab[t].gen \in Nat /\ tab[t].version \in Nat
          /\ s2.gen \in Nat /\ s2.version \in Nat
          /\ tab[t].gen <= s2.gen /\ tab[t].version <= s2.version
      BY <2>1 DEF TabSound, Follows
    <3> QED BY <3>1, <3>2
  <2> QED BY <1>2, <2>3, <2>4 DEF Sound
<1>3. \A m \in requests' : m.tab \in Tabs /\ Sound(m, tab'[m.tab], history)
  BY <1>1, <1>2
<1>4. \A u \in Tabs : TabSound(u, tab'[u], history)
  BY <1>1 DEF IInv
<1> QED BY <1>1, <1>3, <1>4 DEF IInv

-----------------------------------------------------------------------------
(* What the answers do to an editor.                                       *)

\* A request that was sent just now, with the editor as it stands.
LEMMA FreshRequest ==
    ASSUME NEW t \in Tabs, NEW s, NEW h, TabSound(t, s, h), NEW m,
           DOMAIN m = RequestFields, m.tab = t, m.version \in Nat, m.gen \in Nat,
           m.version <= s.version, m.gen <= s.gen, m.answer = NoAnswer,
           m.kind = "undo" => m.sent = {} /\ Own(t, s.draft) \subseteq Held(h),
           m.kind \in {"save", "apply"} => m.sent = s.draft
    PROVE  Sound(m, s, h)
BY DEF Sound, Writes, NoAnswer, Own

LEMMA SavedSteps ==
    ASSUME NEW t \in Tabs, NEW s, NEW h, HistorySound(h), TabSound(t, s, h),
           NEW m, Sound(m, s, h), m.tab = t, m.kind = "save", m.answer.kind = "ok"
    PROVE  Steps(t, s, Saved(s, m), h)
<1> DEFINE s2 == Saved(s, m)
<1>1. Max({s.persisted, m.version}) \in {s.persisted, m.version}
  BY MaxOfTwo DEF TabSound, Sound
<1>2. Max({s.persisted, m.version}) \in Nat /\ Max({s.persisted, m.version}) <= s.version
  BY <1>1 DEF TabSound, Sound
<1>3. Advance(s.base, m.answer.revision) \in 1 .. Len(h)
  <2>1. m.answer.revision \in 1 .. Len(h)
    BY DEF Sound, Writes
  <2>2. Max({s.base, m.answer.revision}) \in {s.base, m.answer.revision}
    BY <2>1, MaxOfTwo DEF TabSound, HistorySound
  <2> QED BY <2>1, <2>2 DEF Advance, TabSound
<1>4. m.version = s.version => Own(t, s.draft) \subseteq Held(h)
  BY DEF Sound, Writes, Own
<1>5. /\ DOMAIN s2 = TabFields
      /\ s2.draft = s.draft /\ s2.version = s.version /\ s2.gen = s.gen
      /\ s2.conflict = s.conflict
      /\ s2.persisted = Max({s.persisted, m.version})
      /\ s2.base = Advance(s.base, m.answer.revision)
      /\ s2.save = IF m.gen # s.gen THEN s.save
                   ELSE IF s.version = m.version THEN "saved" ELSE "dirty"
  BY DEF Saved, TabSound, TabFields
<1> HIDE DEF s2
<1>6. s2.save = "saved" \/ s2.persisted = s2.version => Own(t, s2.draft) \subseteq Held(h)
  BY <1>1, <1>4, <1>5 DEF TabSound
<1>7. TabSound(t, s2, h)
  BY <1>2, <1>3, <1>5, <1>6 DEF TabSound
<1>8. Follows(t, s, s2, h) /\ Keeps(t, s, s2, h)
  BY <1>5 DEF Follows, Keeps, Own, TabSound
<1> QED BY <1>7, <1>8 DEF Steps, s2

\* A request that failed, or whose answer is for an older draft.
LEMMA NotSavedSteps ==
    ASSUME NEW t \in Tabs, NEW s, NEW h, TabSound(t, s, h), NEW m
    PROVE  Steps(t, s, NotSaved(s, m), h)
<1>1. /\ DOMAIN NotSaved(s, m) = TabFields
      /\ \A f \in TabFields \ {"save"} : NotSaved(s, m)[f] = s[f]
      /\ NotSaved(s, m).save \in {s.save, "failed", "dirty"}
  BY DEF NotSaved, TabSound, TabFields
<1> QED BY <1>1 DEF Steps, TabSound, Follows, Keeps, Own, TabFields

LEMMA RecoveredSteps ==
    ASSUME NEW t \in Tabs, NEW s, NEW h, HistorySound(h), TabSound(t, s, h), NEW a,
           a.content \subseteq Held(h), a.revision \in 1 .. Len(h)
    PROVE  Steps(t, s, Recovered(s, a), h)
<1> DEFINE s2 == Recovered(s, a)
<1>1. /\ DOMAIN s2 = TabFields
      /\ s2.draft = s.draft /\ s2.version = s.version /\ s2.gen = s.gen + 1
      /\ s2.persisted = s.persisted /\ s2.base = s.base /\ s2.save = "failed"
      /\ s2.conflict = [local |-> s.draft, server |-> a.content, revision |-> a.revision]
  BY DEF Recovered, TabSound, TabFields
<1> HIDE DEF s2
<1>2. TabSound(t, s2, h)
  BY <1>1 DEF TabSound
<1>3. Follows(t, s, s2, h) /\ Keeps(t, s, s2, h)
  BY <1>1 DEF Follows, Keeps, Own, TabSound
<1> QED BY <1>2, <1>3 DEF Steps, s2

LEMMA SaveConflictsSteps ==
    ASSUME NEW t \in Tabs, NEW s, NEW h, HistorySound(h), TabSound(t, s, h),
           NEW m, Sound(m, s, h), m.tab = t, m.kind = "save", m.answer.kind = "conflict"
    PROVE  Steps(t, s, SaveConflicts(s, m), h)
<1>1. CASE m.gen # s.gen
  BY <1>1 DEF SaveConflicts, Steps, Follows, Keeps, Own, TabSound
<1>2. CASE m.gen = s.gen /\ s.persisted >= m.version
  <2> DEFINE s2 == SaveConflicts(s, m)
  <2>1. /\ DOMAIN s2 = TabFields
        /\ s2.draft = s.draft /\ s2.version = s.version /\ s2.gen = s.gen
        /\ s2.persisted = s.persisted /\ s2.base = s.base /\ s2.conflict = s.conflict
        /\ s2.save = IF s.version <= s.persisted THEN "saved" ELSE "dirty"
    BY <1>2 DEF SaveConflicts, TabSound, TabFields
  <2> HIDE DEF s2
  <2>2. TabSound(t, s2, h)
    BY <2>1 DEF TabSound
  <2>3. Follows(t, s, s2, h) /\ Keeps(t, s, s2, h)
    BY <2>1 DEF Follows, Keeps, Own, TabSound
  <2> QED BY <2>2, <2>3 DEF Steps, s2
<1>3. CASE m.gen = s.gen /\ ~(s.persisted >= m.version)
  <2>1. m.answer.content \subseteq Held(h) /\ m.answer.revision \in 1 .. Len(h)
    BY DEF Sound, Writes
  <2>2. SaveConflicts(s, m) = Recovered(s, m.answer)
    BY <1>3 DEF SaveConflicts
  <2> QED BY <2>1, <2>2, RecoveredSteps
<1> QED BY <1>1, <1>2, <1>3

LEMMA AppliedToSteps ==
    ASSUME NEW t \in Tabs, NEW s, NEW h, HistorySound(h), TabSound(t, s, h),
           NEW m, Sound(m, s, h), m.tab = t, m.kind = "apply", m.answer.kind = "ok"
    PROVE  Steps(t, s, AppliedTo(s, m), h)
<1> DEFINE s2 == AppliedTo(s, m)
           newer == s.version # m.version
<1>1. CASE newer /\ ~Applies(m.proposals, s.draft)
  BY <1>1 DEF AppliedTo, Steps, Follows, Keeps, Own, TabSound
<1>2. m.answer.content \subseteq Held(h) /\ m.answer.revision \in 1 .. Len(h)
  BY DEF Sound, Writes
<1>3. Advance(s.base, m.answer.revision) \in 1 .. Len(h)
  <2>1. Max({s.base, m.answer.revision}) \in {s.base, m.answer.revision}
    BY <1>2, MaxOfTwo DEF TabSound, HistorySound
  <2> QED BY <1>2, <2>1 DEF Advance, TabSound
<1>4. CASE ~newer
  <2>1. Max({s.persisted, s.version + 1}) = s.version + 1
    <3>1. /\ Max({s.persisted, s.version + 1}) \in {s.persisted, s.version + 1}
          /\ Max({s.persisted, s.version + 1}) >= s.version + 1
      <4>1. s.persisted \in Nat /\ s.version + 1 \in Nat
        BY DEF TabSound
      <4> QED BY <4>1, MaxOfTwo
    <3> QED BY <3>1 DEF TabSound
  <2>2. /\ DOMAIN s2 = TabFields
        /\ s2.draft = m.answer.content /\ s2.version = s.version + 1 /\ s2.gen = s.gen + 1
        /\ s2.persisted = s.version + 1 /\ s2.base = Advance(s.base, m.answer.revision)
        /\ s2.conflict = s.conflict /\ s2.save = "saved"
    BY <1>4, <2>1 DEF AppliedTo, TabSound, TabFields
  <2> HIDE DEF s2
  <2>3. Own(t, s.draft) \subseteq Held(h)
    BY <1>4 DEF Sound, Writes, Own
  <2>4. TabSound(t, s2, h)
    BY <1>2, <1>3, <2>2 DEF TabSound, Own
  <2>5. Follows(t, s, s2, h) /\ Keeps(t, s, s2, h)
    BY <2>2, <2>3 DEF Follows, Keeps, TabSound
  <2> QED BY <2>4, <2>5 DEF Steps, s2
<1>5. CASE newer /\ Applies(m.proposals, s.draft)
  <2>1. Max({s.persisted, m.version}) \in Nat /\ Max({s.persisted, m.version}) <= s.version
    <3>1. Max({s.persisted, m.version}) \in {s.persisted, m.version}
      BY MaxOfTwo DEF TabSound, Sound
    <3> QED BY <3>1 DEF TabSound, Sound
  <2>2. /\ DOMAIN s2 = TabFields
        /\ s2.draft = Applied(m.proposals, s.draft)
        /\ s2.version = s.version + 1 /\ s2.gen = s.gen + 1
        /\ s2.persisted = Max({s.persisted, m.version})
        /\ s2.base = Advance(s.base, m.answer.revision)
        /\ s2.conflict = s.conflict /\ s2.save = "dirty"
    BY <1>5 DEF AppliedTo, TabSound, TabFields
  <2> HIDE DEF s2
  <2>3. TabSound(t, s2, h)
    BY <1>3, <2>1, <2>2 DEF TabSound
  <2>4. Follows(t, s, s2, h) /\ Keeps(t, s, s2, h)
    BY <2>2, ProposalsKeepOwn DEF Follows, Keeps, TabSound
  <2> QED BY <2>3, <2>4 DEF Steps, s2
<1> QED BY <1>1, <1>4, <1>5

LEMMA UndoneSteps ==
    ASSUME NEW t \in Tabs, NEW s, NEW h, HistorySound(h), TabSound(t, s, h),
           NEW m, Sound(m, s, h), m.tab = t, m.kind = "undo", m.answer.kind = "ok"
    PROVE  Steps(t, s, Undone(s, m), h)
<1> DEFINE s2 == Undone(s, m)
<1>1. m.answer.content \subseteq Held(h) /\ m.answer.revision \in 1 .. Len(h)
  BY DEF Sound, Writes
<1>2. CASE s.version # m.version
  <2>1. /\ DOMAIN s2 = TabFields
        /\ s2.draft = s.draft /\ s2.version = s.version /\ s2.gen = s.gen
        /\ s2.persisted = s.persisted /\ s2.base = s.base /\ s2.save = "failed"
        /\ s2.conflict = [local |-> s.draft, server |-> m.answer.content,
                          revision |-> m.answer.revision]
    BY <1>2 DEF Undone, TabSound, TabFields
  <2> HIDE DEF s2
  <2>2. TabSound(t, s2, h)
    BY <1>1, <2>1 DEF TabSound
  <2>3. Follows(t, s, s2, h) /\ Keeps(t, s, s2, h)
    BY <2>1 DEF Follows, Keeps, Own, TabSound
  <2> QED BY <2>2, <2>3 DEF Steps, s2
<1>3. CASE s.version = m.version
  <2>1. Advance(s.base, m.answer.revision) \in 1 .. Len(h)
    <3>1. Max({s.base, m.answer.revision}) \in {s.base, m.answer.revision}
      BY <1>1, MaxOfTwo DEF TabSound, HistorySound
    <3> QED BY <1>1, <3>1 DEF Advance, TabSound
  <2>2. /\ DOMAIN s2 = TabFields
        /\ s2.draft = m.answer.content /\ s2.version = s.version + 1 /\ s2.gen = s.gen + 1
        /\ s2.persisted = s.version + 1 /\ s2.base = Advance(s.base, m.answer.revision)
        /\ s2.conflict = NoConflict /\ s2.save = "saved"
    BY <1>3 DEF Undone, TabSound, TabFields
  <2> HIDE DEF s2
  <2>3. Own(t, s.draft) \subseteq Held(h)
    BY <1>3 DEF Sound, Writes, Own
  <2>4. TabSound(t, s2, h)
    BY <1>1, <2>1, <2>2 DEF TabSound, Own, NoConflict
  <2>5. Follows(t, s, s2, h) /\ Keeps(t, s, s2, h)
    BY <2>2, <2>3 DEF Follows, Keeps, TabSound
  <2> QED BY <2>4, <2>5 DEF Steps, s2
<1> QED BY <1>2, <1>3

LEMMA ReadinessSteps ==
    ASSUME NEW t \in Tabs, NEW s, NEW h, HistorySound(h), TabSound(t, s, h),
           NEW m, Sound(m, s, h), m.kind = "readiness", m.answer.kind \in {"ok", "conflict"}
    PROVE  Steps(t, s, ReadinessTaken(s, m), h)
<1> DEFINE s2 == ReadinessTaken(s, m)
<1>1. Advance(s.base, m.answer.revision) \in 1 .. Len(h)
  <2>1. m.answer.revision \in 1 .. Len(h)
    BY DEF Sound
  <2>2. Max({s.base, m.answer.revision}) \in {s.base, m.answer.revision}
    BY <2>1, MaxOfTwo DEF TabSound, HistorySound
  <2> QED BY <2>1, <2>2 DEF Advance, TabSound
<1>2. /\ DOMAIN s2 = TabFields
      /\ \A f \in TabFields \ {"base", "workflow"} : s2[f] = s[f]
      /\ s2.base \in {s.base, Advance(s.base, m.answer.revision)}
  BY DEF ReadinessTaken, TabSound, TabFields
<1> HIDE DEF s2
<1>3. TabSound(t, s2, h)
  BY <1>1, <1>2 DEF TabSound, TabFields
<1>4. Follows(t, s, s2, h) /\ Keeps(t, s, s2, h)
  BY <1>2 DEF Follows, Keeps, Own, TabSound, TabFields
<1> QED BY <1>3, <1>4 DEF Steps, s2

\* Fields that say nothing about the draft may change freely.
LEMMA QuietSteps ==
    ASSUME NEW t \in Tabs, NEW s, NEW s2, NEW h, TabSound(t, s, h),
           DOMAIN s2 = TabFields,
           \A f \in TabFields \ {"clicks", "mutating", "workflow", "copy", "key", "keys", "left"} :
             s2[f] = s[f]
    PROVE  Steps(t, s, s2, h)
BY DEF Steps, TabSound, Follows, Keeps, Own, TabFields

-----------------------------------------------------------------------------
(* Steps of the tabs.                                                      *)

\* What no step but a reload of the server's version does otherwise.
NothingForgotten == \A u \in Tabs : Unsaved(u) \subseteq tab'[u].draft

LEMMA StepOfTab ==
    ASSUME IInv, NEW t \in Tabs, NEW s2, Becomes(t, s2), UNCHANGED history,
           Steps(t, tab[t], s2, history),
           \A m \in requests' : m.tab \in Tabs /\
             (Sound(m, tab[m.tab], history) \/ (m.tab = t /\ Sound(m, s2, history)))
    PROVE  IInv' /\ NothingForgotten
<1>1. IInv'
  BY TabStep DEF Steps
<1>2. DOMAIN tab' = Tabs /\ tab'[t] = s2 /\ \A u \in Tabs \ {t} : tab'[u] = tab[u]
  BY DEF IInv, Becomes
<1>3. \A u \in Tabs : Unsaved(u) = Own(u, tab[u].draft) \ Held(history)
  BY DEF Unsaved, Held, Revision
<1>4. NothingForgotten
  BY <1>2, <1>3 DEF NothingForgotten, Steps, Keeps, Own
<1> QED BY <1>1, <1>4

\* Requests that were sound and are still there.
LEMMA OldRequests ==
    ASSUME IInv, NEW m \in requests
    PROVE  m.tab \in Tabs /\ Sound(m, tab[m.tab], history) /\ TabSound(m.tab, tab[m.tab], history)
BY DEF IInv

\* The editors stay, and the history may grow.
LEMMA StepOfServer ==
    ASSUME IInv, UNCHANGED tab, HistorySound(history'),
           Len(history) <= Len(history'), Held(history) \subseteq Held(history'),
           \A m \in requests' : m.tab \in Tabs /\
             (Sound(m, tab[m.tab], history) \/ Sound(m, tab[m.tab], history'))
    PROVE  IInv' /\ NothingForgotten
<1>1. IInv'
  BY ServerStep
<1>2. NothingForgotten
  BY DEF NothingForgotten, Unsaved, Own
<1> QED BY <1>1, <1>2

LEMMA TypeStep ==
    ASSUME IInv, NEW t \in Tabs, Type(t)
    PROVE  IInv' /\ NothingForgotten
<1> DEFINE s == tab[t]
<1>1. PICK over \in SUBSET Proposals :
        LET text == (s.draft \ Target(over)) \cup {<<t, s.edits + 1>>} IN
        Becomes(t, [s EXCEPT !.version = @ + 1, !.edits = @ + 1, !.draft = text, !.save = "dirty",
            !.conflict = IF HasConflict(t) THEN [@ EXCEPT !.local = text] ELSE @])
  BY DEF Type
<1> DEFINE text == (s.draft \ Target(over)) \cup {<<t, s.edits + 1>>}
           s2 == [s EXCEPT !.version = @ + 1, !.edits = @ + 1, !.draft = text, !.save = "dirty",
                    !.conflict = IF HasConflict(t) THEN [@ EXCEPT !.local = text] ELSE @]
<1>2. TabSound(t, s, history)
  BY DEF IInv
<1>3. /\ DOMAIN s2 = TabFields
      /\ s2.draft = text /\ s2.version = s.version + 1 /\ s2.gen = s.gen
      /\ s2.persisted = s.persisted /\ s2.base = s.base /\ s2.save = "dirty"
      /\ DOMAIN s2.conflict = DOMAIN s.conflict
      /\ s2.conflict.server = s.conflict.server /\ s2.conflict.revision = s.conflict.revision
      /\ HasConflict(t) \/ s2.conflict = s.conflict
  BY <1>2 DEF TabSound, TabFields
<1>4. Becomes(t, s2) /\ UNCHANGED <<history, requests>>
  BY <1>1 DEF Type, serverVars
<1>5. Own(t, s.draft) \subseteq text
  BY MarksApart DEF Own, Target
<1> HIDE DEF s2, text
<1>6. TabSound(t, s2, history)
  BY <1>2, <1>3 DEF TabSound, HasConflict
<1>7. Follows(t, s, s2, history) /\ Keeps(t, s, s2, history)
  BY <1>2, <1>3, <1>5 DEF Follows, Keeps, TabSound
<1>8. Steps(t, s, s2, history)
  BY <1>6, <1>7 DEF Steps
<1> HIDE DEF s
<1> QED BY <1>4, <1>8, StepOfTab, OldRequests DEF s

\* The editor changes in fields that say nothing about its draft, and sends.
LEMMA QuietSend ==
    ASSUME IInv, NEW t \in Tabs, NEW s2, Becomes(t, s2), UNCHANGED history,
           DOMAIN s2 = TabFields,
           \A f \in TabFields \ {"clicks", "mutating", "workflow", "copy", "key", "keys", "left"} :
             s2[f] = tab[t][f],
           \A m \in requests' : m.tab \in Tabs /\
             (Sound(m, tab[m.tab], history) \/ (m.tab = t /\ Sound(m, s2, history)))
    PROVE  IInv' /\ NothingForgotten
<1>1. TabSound(t, tab[t], history)
  BY DEF IInv
<1>2. Steps(t, tab[t], s2, history)
  BY <1>1, QuietSteps
<1> QED BY <1>2, StepOfTab

LEMMA SaveStep ==
    ASSUME IInv, NEW t \in Tabs, NEW clicks, SaveDraft(t, clicks)
    PROVE  IInv' /\ NothingForgotten
<1> DEFINE s == tab[t]
           s2 == [s EXCEPT !.gen = @ + 1, !.save = "saving", !.clicks = @ + clicks]
           m == Request(t, s2, "save")
<1>1. TabSound(t, s, history)
  BY DEF IInv
<1>2. Becomes(t, s2) /\ requests' = requests \cup {m} /\ UNCHANGED history
  BY DEF SaveDraft, Send, serverVars
<1>3. /\ DOMAIN s2 = TabFields
      /\ s2.draft = s.draft /\ s2.version = s.version /\ s2.gen = s.gen + 1
      /\ s2.persisted = s.persisted /\ s2.base = s.base /\ s2.conflict = s.conflict
      /\ s2.save = "saving"
  BY <1>1 DEF TabSound, TabFields
<1> HIDE DEF s2
<1>4. TabSound(t, s2, history)
  BY <1>1, <1>3 DEF TabSound
<1>5. Steps(t, s, s2, history)
  BY <1>1, <1>3, <1>4 DEF Steps, Follows, Keeps, Own, TabSound
<1>6. Sound(m, s2, history) /\ m.tab = t
  <2>1. /\ DOMAIN m = RequestFields /\ m.tab = t /\ m.kind = "save" /\ m.sent = s2.draft
        /\ m.version = s2.version /\ m.gen = s2.gen /\ m.answer = NoAnswer
    BY DEF Request, RequestFields
  <2> HIDE DEF m
  <2>2. s2.version \in Nat /\ s2.gen \in Nat /\ m.kind \notin {"undo", "apply"}
    BY <1>4, <2>1 DEF TabSound
  <2> HIDE DEF s
  <2>3. m.version <= s2.version /\ m.gen <= s2.gen
    BY <2>1, <2>2
  <2> QED BY <1>4, <2>1, <2>2, <2>3, FreshRequest
<1> HIDE DEF s, m
<1>7. \A n \in requests' : n.tab \in Tabs /\
        (Sound(n, tab[n.tab], history) \/ (n.tab = t /\ Sound(n, s2, history)))
  BY <1>2, <1>6, OldRequests
<1> QED BY <1>2, <1>5, <1>7, StepOfTab DEF s

\* A click sends a request of some kind and counts.
LEMMA ClickStep ==
    ASSUME IInv, NEW t \in Tabs, NEW s2, NEW m, Becomes(t, s2), Send(m), UNCHANGED history,
           DOMAIN s2 = TabFields,
           \A f \in TabFields \ {"clicks", "mutating", "workflow", "copy", "key", "keys", "left"} :
             s2[f] = tab[t][f],
           DOMAIN m = RequestFields, m.tab = t, m.answer = NoAnswer,
           m.version \in {0, tab[t].version}, m.gen = 0,
           m.kind = "undo" => m.sent = {} /\ tab[t].save = "saved",
           m.kind = "apply" => m.sent = tab[t].draft,
           m.kind # "save"
    PROVE  IInv' /\ NothingForgotten
<1>1. TabSound(t, tab[t], history)
  BY DEF IInv
<1>2. Sound(m, tab[t], history)
  <2>1. m.version \in Nat /\ m.version <= tab[t].version /\ m.gen \in Nat /\ m.gen <= tab[t].gen
    BY <1>1 DEF TabSound
  <2>2. m.kind = "undo" => Own(t, tab[t].draft) \subseteq Held(history)
    BY <1>1 DEF TabSound
  <2> QED BY <1>1, <2>1, <2>2, FreshRequest
<1>3. \A n \in requests' : n.tab \in Tabs /\ Sound(n, tab[n.tab], history)
  BY <1>2, OldRequests DEF Send
<1> QED BY <1>3, QuietSend

LEMMA AcceptStep ==
    ASSUME IInv, NEW t \in Tabs, AcceptProposals(t)
    PROVE  IInv' /\ NothingForgotten
<1> DEFINE s2 == [tab[t] EXCEPT !.clicks = @ + 1]
<1>1. TabSound(t, tab[t], history)
  BY DEF IInv
<1>2. PICK ps \in SUBSET Proposals \ {{}} :
        Send([Request(t, tab[t], "apply") EXCEPT
                !.proposals = ps, !.gen = 0, !.key = tab[t].clicks])
  BY DEF AcceptProposals
<1> DEFINE m == [Request(t, tab[t], "apply") EXCEPT
                   !.proposals = ps, !.gen = 0, !.key = tab[t].clicks]
<1>3. /\ DOMAIN s2 = TabFields
      /\ \A f \in TabFields \ {"clicks", "mutating", "workflow", "copy", "key", "keys", "left"} :
           s2[f] = tab[t][f]
  BY <1>1 DEF TabSound, TabFields
<1>4. /\ DOMAIN m = RequestFields /\ m.tab = t /\ m.kind = "apply" /\ m.sent = tab[t].draft
      /\ m.version = tab[t].version /\ m.gen = 0 /\ m.answer = NoAnswer
  BY DEF Request, RequestFields
<1>5. Becomes(t, s2) /\ UNCHANGED history
  BY DEF AcceptProposals, serverVars
<1> HIDE DEF s2, m
<1>6. Send(m)
  BY <1>2 DEF m
<1> QED BY <1>3, <1>4, <1>5, <1>6, ClickStep

LEMMA UndoStep ==
    ASSUME IInv, NEW t \in Tabs, UndoChange(t)
    PROVE  IInv' /\ NothingForgotten
<1> DEFINE s2 == [tab[t] EXCEPT !.clicks = @ + 1]
           m == [Request(t, tab[t], "undo") EXCEPT !.sent = {}, !.gen = 0, !.key = tab[t].clicks]
<1>1. TabSound(t, tab[t], history)
  BY DEF IInv
<1>2. Becomes(t, s2) /\ Send(m) /\ UNCHANGED history /\ tab[t].save = "saved"
  BY DEF UndoChange, serverVars
<1>3. /\ DOMAIN s2 = TabFields
      /\ \A f \in TabFields \ {"clicks", "mutating", "workflow", "copy", "key", "keys", "left"} :
           s2[f] = tab[t][f]
  BY <1>1 DEF TabSound, TabFields
<1>4. /\ DOMAIN m = RequestFields /\ m.tab = t /\ m.kind = "undo" /\ m.sent = {}
      /\ m.version = tab[t].version /\ m.gen = 0 /\ m.answer = NoAnswer
  BY DEF Request, RequestFields
<1> HIDE DEF s2, m
<1> QED BY <1>2, <1>3, <1>4, ClickStep

\* A read is sound whatever the editor is.
LEMMA ReadSound ==
    ASSUME NEW t \in Tabs, NEW s, NEW s2, NEW h, TabSound(t, s2, h),
           NEW m, m = ReadRequest(t, s)
    PROVE  m.tab = t /\ Sound(m, s2, h)
<1>1. /\ DOMAIN m = RequestFields /\ m.tab = t /\ m.kind = "read"
      /\ m.version = 0 /\ m.gen = 0 /\ m.answer = NoAnswer
  BY DEF ReadRequest, Request, RequestFields
<1>2. m.version \in Nat /\ m.version <= s2.version /\ m.gen \in Nat /\ m.gen <= s2.gen
  BY <1>1 DEF TabSound
<1> QED BY <1>1, <1>2, FreshRequest

LEMMA ReadinessStep ==
    ASSUME IInv, NEW t \in Tabs, ChangeReadiness(t)
    PROVE  IInv' /\ NothingForgotten
<1> DEFINE s2 == [tab[t] EXCEPT !.mutating = TRUE, !.clicks = @ + 1]
           m == [ReadRequest(t, tab[t]) EXCEPT !.kind = "readiness",
                  !.readiness = tab[t].workflow.readiness, !.expected = tab[t].workflow.revision]
<1>1. TabSound(t, tab[t], history)
  BY DEF IInv
<1>2. Becomes(t, s2) /\ Send(m) /\ UNCHANGED history
  BY DEF ChangeReadiness, serverVars
<1>3. /\ DOMAIN s2 = TabFields
      /\ \A f \in TabFields \ {"clicks", "mutating", "workflow", "copy", "key", "keys", "left"} :
           s2[f] = tab[t][f]
  BY <1>1 DEF TabSound, TabFields
<1>4. /\ DOMAIN m = RequestFields /\ m.tab = t /\ m.kind = "readiness"
      /\ m.version = 0 /\ m.gen = 0 /\ m.answer = NoAnswer
  BY DEF ReadRequest, Request, RequestFields
<1> HIDE DEF s2, m
<1> QED BY <1>2, <1>3, <1>4, ClickStep

LEMMA RefreshStep ==
    ASSUME IInv, NEW t \in Tabs, RefreshWorkflow(t)
    PROVE  IInv' /\ NothingForgotten
<1>1. TabSound(t, tab[t], history) /\ HistorySound(history)
  BY DEF IInv
<1>2. PICK m : m = ReadRequest(t, tab[t]) /\ requests' = requests \cup {m}
  BY DEF RefreshWorkflow, Send
<1>3. UNCHANGED <<tab, history>>
  BY DEF RefreshWorkflow, serverVars
<1>4. m.tab = t /\ Sound(m, tab[t], history)
  BY <1>1, <1>2, ReadSound
<1> QED BY <1>1, <1>2, <1>3, <1>4, OldRequests, StepOfServer DEF HistorySound

LEMMA SnapshotStep ==
    ASSUME IInv, NEW t \in Tabs, SameDocumentSnapshot(t)
    PROVE  IInv' /\ NothingForgotten
<1> DEFINE s == tab[t]
<1>1. TabSound(t, s, history) /\ HistorySound(history)
  BY DEF IInv
<1>2. PICK r \in s.base .. Revision :
        Becomes(t, [s EXCEPT !.draft = history[r].content, !.base = r,
            !.persisted = s.version, !.conflict = NoConflict, !.copy = NoCopy, !.key = 0])
  BY DEF SameDocumentSnapshot
<1> DEFINE s2 == [s EXCEPT !.draft = history[r].content, !.base = r,
                    !.persisted = s.version, !.conflict = NoConflict, !.copy = NoCopy, !.key = 0]
<1>3. s.save = "saved" /\ UNCHANGED <<history, requests>>
  BY DEF SameDocumentSnapshot, serverVars
<1>4. /\ DOMAIN s2 = TabFields
      /\ s2.draft = history[r].content /\ s2.version = s.version /\ s2.gen = s.gen
      /\ s2.persisted = s.version /\ s2.base = r /\ s2.conflict = NoConflict
      /\ s2.save = s.save
  BY <1>1 DEF TabSound, TabFields
<1>5. Becomes(t, s2)
  BY <1>2
<1> HIDE DEF s2
<1>6. r \in 1 .. Revision /\ history[r].content \subseteq Held(history)
  <2>1. r \in 1 .. Revision
    BY <1>1 DEF TabSound, Revision, HistorySound
  <2> QED BY <1>1, <2>1, DocumentHeld
<1>7. TabSound(t, s2, history)
  BY <1>1, <1>3, <1>4, <1>6 DEF TabSound, Own, NoConflict, Revision
<1>8. Follows(t, s, s2, history) /\ Keeps(t, s, s2, history)
  BY <1>1, <1>3, <1>4, <1>6 DEF Follows, Keeps, Own, TabSound
<1>9. Steps(t, s, s2, history)
  BY <1>7, <1>8 DEF Steps
<1> HIDE DEF s
<1> QED BY <1>3, <1>5, <1>9, StepOfTab, OldRequests DEF s

\* The server's version replaces the draft: that is what the user asked for.
LEMMA LoadStep ==
    ASSUME IInv, NEW t \in Tabs, LoadServerVersion(t)
    PROVE  IInv'
<1> DEFINE s == tab[t]
           s2 == [s EXCEPT !.gen = @ + 1, !.version = @ + 1, !.persisted = s.version + 1,
                    !.draft = s.conflict.server, !.base = s.conflict.revision,
                    !.conflict = NoConflict, !.copy = NoCopy, !.key = 0, !.save = "saved"]
<1>1. TabSound(t, s, history)
  BY DEF IInv
<1>2. Becomes(t, s2) /\ HasConflict(t) /\ UNCHANGED <<history, requests>>
  BY DEF LoadServerVersion, serverVars
<1>3. /\ DOMAIN s2 = TabFields
      /\ s2.draft = s.conflict.server /\ s2.version = s.version + 1 /\ s2.gen = s.gen + 1
      /\ s2.persisted = s.version + 1 /\ s2.base = s.conflict.revision
      /\ s2.conflict = NoConflict /\ s2.save = "saved"
  BY <1>1 DEF TabSound, TabFields
<1> HIDE DEF s2
<1>4. TabSound(t, s2, history)
  BY <1>1, <1>2, <1>3 DEF TabSound, HasConflict, Own, NoConflict
<1>5. Follows(t, s, s2, history)
  BY <1>1, <1>3 DEF Follows, TabSound
<1> HIDE DEF s
<1> QED BY <1>2, <1>4, <1>5, TabStep, OldRequests DEF s

LEMMA SaveAsNewStep ==
    ASSUME IInv, NEW t \in Tabs, SaveAsNew(t)
    PROVE  IInv' /\ NothingForgotten
<1> DEFINE s == tab[t]
           key == IF s.key # 0 THEN s.key ELSE s.keys + 1
           m == [Request(t, s, "create") EXCEPT !.sent = s.conflict.local, !.gen = 0, !.expected = 0]
           made == [s EXCEPT !.key = key, !.keys = Max({@, key}), !.clicks = @ + 1]
           again == [s EXCEPT !.clicks = @ + 1]
           create == [m EXCEPT !.key = key]
           copy == [m EXCEPT !.kind = "copy", !.key = s.copy.key, !.expected = s.copy.revision]
<1>1. TabSound(t, s, history)
  BY DEF IInv
<1>2. /\ UNCHANGED history
      /\ (Becomes(t, made) /\ Send(create)) \/ (Becomes(t, again) /\ Send(copy))
  BY DEF SaveAsNew, serverVars
<1>3. /\ DOMAIN made = TabFields
      /\ \A f \in TabFields \ {"clicks", "mutating", "workflow", "copy", "key", "keys", "left"} :
           made[f] = tab[t][f]
  BY <1>1 DEF TabSound, TabFields
<1>4. /\ DOMAIN again = TabFields
      /\ \A f \in TabFields \ {"clicks", "mutating", "workflow", "copy", "key", "keys", "left"} :
           again[f] = tab[t][f]
  BY <1>1 DEF TabSound, TabFields
<1>5. /\ DOMAIN create = RequestFields /\ create.tab = t /\ create.kind = "create"
      /\ create.version = tab[t].version /\ create.gen = 0 /\ create.answer = NoAnswer
  BY DEF Request, RequestFields
<1>6. /\ DOMAIN copy = RequestFields /\ copy.tab = t /\ copy.kind = "copy"
      /\ copy.version = tab[t].version /\ copy.gen = 0 /\ copy.answer = NoAnswer
  BY DEF Request, RequestFields
<1> HIDE DEF made, again, create, copy
<1>7. CASE Becomes(t, made) /\ Send(create)
  BY <1>2, <1>3, <1>5, <1>7, ClickStep
<1>8. CASE Becomes(t, again) /\ Send(copy)
  BY <1>2, <1>4, <1>6, <1>8, ClickStep
<1> QED BY <1>2, <1>7, <1>8

-----------------------------------------------------------------------------
(* Answers and losses.                                                     *)

\* Nobody waits for a request any more, but the server may still serve it.
LEMMA OrphanSound ==
    ASSUME NEW m, NEW s, NEW h, Sound(m, s, h)
    PROVE  [m EXCEPT !.waiting = FALSE].tab = m.tab /\ Sound([m EXCEPT !.waiting = FALSE], s, h)
<1>1. /\ DOMAIN [m EXCEPT !.waiting = FALSE] = DOMAIN m
      /\ \A f \in RequestFields \ {"waiting"} : [m EXCEPT !.waiting = FALSE][f] = m[f]
  BY DEF Sound
<1> QED BY <1>1 DEF Sound, RequestFields

\* An answer is taken and the editor becomes s2.
LEMMA TakeStep ==
    ASSUME IInv, NEW m \in requests, NEW s2, Take(m, s2), UNCHANGED history,
           Steps(m.tab, tab[m.tab], s2, history)
    PROVE  IInv' /\ NothingForgotten
<1>1. m.tab \in Tabs /\ Becomes(m.tab, s2) /\ requests' \subseteq requests
  BY DEF Take, IInv
<1>2. \A n \in requests' : n.tab \in Tabs /\ Sound(n, tab[n.tab], history)
  BY <1>1, OldRequests
<1> QED BY <1>1, <1>2, StepOfTab

\* The same with a request of the same tab that follows.
LEMMA TakeAndSendStep ==
    ASSUME IInv, NEW m \in requests, NEW s2, NEW next, TakeAndSend(m, s2, next),
           UNCHANGED history, Steps(m.tab, tab[m.tab], s2, history),
           next.tab = m.tab, Sound(next, tab[m.tab], history)
    PROVE  IInv' /\ NothingForgotten
<1>1. m.tab \in Tabs /\ Becomes(m.tab, s2) /\ requests' \subseteq requests \cup {next}
  BY DEF TakeAndSend, IInv
<1>2. \A n \in requests' : n.tab \in Tabs /\ Sound(n, tab[n.tab], history)
  BY <1>1, OldRequests
<1> QED BY <1>1, <1>2, StepOfTab

LEMMA StaySteps ==
    ASSUME NEW t \in Tabs, NEW s, NEW h, TabSound(t, s, h)
    PROVE  Steps(t, s, s, h)
BY DEF Steps, Follows, Keeps, Own, TabSound

LEMMA TakeSaveStep ==
    ASSUME IInv, NEW m \in requests, TakeSave(m), UNCHANGED history
    PROVE  IInv' /\ NothingForgotten
<1> DEFINE s == tab[m.tab]
<1>1. m.tab \in Tabs /\ Sound(m, s, history) /\ TabSound(m.tab, s, history) /\ HistorySound(history)
  BY OldRequests DEF IInv
<1>2. m.kind = "save"
  BY DEF TakeSave
<1>3. CASE m.answer.kind = "ok" /\ Take(m, Saved(s, m))
  BY <1>1, <1>2, <1>3, SavedSteps, TakeStep
<1>4. CASE m.answer.kind = "conflict" /\ Take(m, SaveConflicts(s, m))
  BY <1>1, <1>2, <1>4, SaveConflictsSteps, TakeStep
<1>5. CASE m.answer.kind = "refused" /\ Take(m, NotSaved(s, m))
  BY <1>1, <1>5, NotSavedSteps, TakeStep
<1> QED BY <1>3, <1>4, <1>5 DEF TakeSave

LEMMA TakeApplyStep ==
    ASSUME IInv, NEW m \in requests, TakeApply(m), UNCHANGED history
    PROVE  IInv' /\ NothingForgotten
<1> DEFINE s == tab[m.tab]
<1>1. m.tab \in Tabs /\ Sound(m, s, history) /\ TabSound(m.tab, s, history) /\ HistorySound(history)
  BY OldRequests DEF IInv
<1>2. m.kind = "apply"
  BY DEF TakeApply
<1>3. CASE m.answer.kind = "ok" /\ Take(m, AppliedTo(s, m))
  BY <1>1, <1>2, <1>3, AppliedToSteps, TakeStep
<1>4. CASE m.answer.kind = "conflict" /\ Take(m, Recovered(s, m.answer))
  <2>1. m.answer.content \subseteq Held(history) /\ m.answer.revision \in 1 .. Len(history)
    BY <1>1, <1>2, <1>4 DEF Sound, Writes
  <2>2. Steps(m.tab, s, Recovered(s, m.answer), history)
    BY <1>1, <2>1, RecoveredSteps
  <2> QED BY <1>4, <2>2, TakeStep
<1>5. CASE m.answer.kind = "refused" /\ Take(m, s)
  BY <1>1, <1>5, StaySteps, TakeStep
<1> QED BY <1>3, <1>4, <1>5 DEF TakeApply

LEMMA TakeUndoStep ==
    ASSUME IInv, NEW m \in requests, TakeUndo(m), UNCHANGED history
    PROVE  IInv' /\ NothingForgotten
<1> DEFINE s == tab[m.tab]
<1>1. m.tab \in Tabs /\ Sound(m, s, history) /\ TabSound(m.tab, s, history) /\ HistorySound(history)
  BY OldRequests DEF IInv
<1>2. m.kind = "undo"
  BY DEF TakeUndo
<1>3. CASE m.answer.kind = "ok" /\ Take(m, Undone(s, m))
  BY <1>1, <1>2, <1>3, UndoneSteps, TakeStep
<1>4. CASE m.answer.kind = "conflict" /\ Take(m, Recovered(s, m.answer))
  <2>1. m.answer.content \subseteq Held(history) /\ m.answer.revision \in 1 .. Len(history)
    BY <1>1, <1>2, <1>4 DEF Sound, Writes
  <2>2. Steps(m.tab, s, Recovered(s, m.answer), history)
    BY <1>1, <2>1, RecoveredSteps
  <2> QED BY <1>4, <2>2, TakeStep
<1>5. CASE m.answer.kind = "refused" /\ Take(m, s)
  BY <1>1, <1>5, StaySteps, TakeStep
<1> QED BY <1>3, <1>4, <1>5 DEF TakeUndo

LEMMA TakeReadinessStep ==
    ASSUME IInv, NEW m \in requests, TakeReadiness(m), UNCHANGED history,
           m.answer # NoAnswer
    PROVE  IInv' /\ NothingForgotten
<1> DEFINE s == tab[m.tab]
           s2 == IF m.answer.kind = "refused" THEN s ELSE ReadinessTaken(s, m)
<1>1. m.tab \in Tabs /\ Sound(m, s, history) /\ TabSound(m.tab, s, history) /\ HistorySound(history)
  BY OldRequests DEF IInv
<1>2. m.kind = "readiness" /\ TakeAndSend(m, s2, ReadRequest(m.tab, s))
  BY DEF TakeReadiness
<1>a. m.answer.kind \in {"ok", "conflict", "refused"}
  BY <1>1, <1>2 DEF Sound
<1>3. Steps(m.tab, s, s2, history)
  <2>1. CASE m.answer.kind = "refused"
    BY <1>1, <2>1, StaySteps
  <2>2. CASE m.answer.kind # "refused"
    <3>1. Steps(m.tab, s, ReadinessTaken(s, m), history)
      BY <1>1, <1>2, <1>a, <2>2, ReadinessSteps
    <3> QED BY <2>2, <3>1
  <2> QED BY <2>1, <2>2
<1>4. ReadRequest(m.tab, s).tab = m.tab /\ Sound(ReadRequest(m.tab, s), s, history)
  BY <1>1, ReadSound
<1> HIDE DEF s2
<1> QED BY <1>2, <1>3, <1>4, TakeAndSendStep

LEMMA TakeReadStep ==
    ASSUME IInv, NEW m \in requests, TakeRead(m), UNCHANGED history
    PROVE  IInv' /\ NothingForgotten
<1> DEFINE s == tab[m.tab]
           w == [readiness |-> m.answer.readiness, revision |-> m.answer.revision]
           s2 == [s EXCEPT !.mutating = FALSE,
                    !.workflow = IF m.answer.kind = "ok" THEN w ELSE @]
<1>1. m.tab \in Tabs /\ TabSound(m.tab, s, history)
  BY OldRequests
<1>2. /\ DOMAIN s2 = TabFields
      /\ \A f \in TabFields \ {"clicks", "mutating", "workflow", "copy", "key", "keys", "left"} :
           s2[f] = s[f]
  BY <1>1 DEF TabSound, TabFields
<1>3. Take(m, s2)
  BY DEF TakeRead
<1> HIDE DEF s2
<1>4. Steps(m.tab, s, s2, history)
  BY <1>1, <1>2, QuietSteps
<1> QED BY <1>3, <1>4, TakeStep

LEMMA LeaveStep ==
    ASSUME IInv, NEW t \in Tabs, NEW s, Leave(t, s), UNCHANGED history,
           DOMAIN s = TabFields,
           \A f \in TabFields \ {"clicks", "mutating", "workflow", "copy", "key", "keys", "left"} :
             s[f] = tab[t][f]
    PROVE  IInv' /\ NothingForgotten
<1> DEFINE s2 == [s EXCEPT !.left = TRUE]
<1>1. /\ DOMAIN s2 = TabFields
      /\ \A f \in TabFields \ {"clicks", "mutating", "workflow", "copy", "key", "keys", "left"} :
           s2[f] = tab[t][f]
  BY DEF TabFields
<1>2. Becomes(t, s2)
  BY DEF Leave
<1>3. ASSUME NEW m \in requests' PROVE m.tab \in Tabs /\ Sound(m, tab[m.tab], history)
  <2>1. m \in requests \/ \E n \in requests : m = [n EXCEPT !.waiting = FALSE]
    BY DEF Leave
  <2>2. CASE m \in requests
    BY <2>2, OldRequests
  <2>3. CASE \E n \in requests : m = [n EXCEPT !.waiting = FALSE]
    <3>1. PICK n \in requests : m = [n EXCEPT !.waiting = FALSE]
      BY <2>3
    <3>2. n.tab \in Tabs /\ Sound(n, tab[n.tab], history)
      BY OldRequests
    <3> QED BY <3>1, <3>2, OrphanSound
  <2> QED BY <2>1, <2>2, <2>3
<1> HIDE DEF s2
<1> QED BY <1>1, <1>2, <1>3, QuietSend

\* What is kept of a copy says nothing about the draft.
LEMMA KeptFields ==
    ASSUME NEW s, NEW m, DOMAIN s = TabFields
    PROVE  /\ DOMAIN CopyKept(m, s) = TabFields
           /\ \A f \in TabFields \ {"clicks", "mutating", "workflow", "copy", "key", "keys", "left"} :
                CopyKept(m, s)[f] = s[f]
BY DEF CopyKept, TabFields

LEMMA CopyHoldsStep ==
    ASSUME IInv, NEW m \in requests, CopyHolds(m, tab[m.tab]), UNCHANGED history
    PROVE  IInv' /\ NothingForgotten
<1> DEFINE s == tab[m.tab]
           kept == CopyKept(m, s)
<1>1. m.tab \in Tabs /\ TabSound(m.tab, s, history)
  BY OldRequests
<1>2. /\ DOMAIN kept = TabFields
      /\ \A f \in TabFields \ {"clicks", "mutating", "workflow", "copy", "key", "keys", "left"} :
           kept[f] = s[f]
  BY <1>1, KeptFields DEF TabSound
<1>3. Take(m, kept) \/ Leave(m.tab, kept)
  BY DEF CopyHolds
<1> HIDE DEF kept
<1>4. CASE Take(m, kept)
  <2>1. Steps(m.tab, s, kept, history)
    BY <1>1, <1>2, QuietSteps
  <2> QED BY <1>4, <2>1, TakeStep
<1>5. CASE Leave(m.tab, kept)
  BY <1>1, <1>2, <1>5, LeaveStep
<1> QED BY <1>3, <1>4, <1>5

LEMMA TakeCreateStep ==
    ASSUME IInv, NEW m \in requests, TakeCreate(m), UNCHANGED history
    PROVE  IInv' /\ NothingForgotten
<1> DEFINE s == tab[m.tab]
           kept == CopyKept(m, s)
           next == [m EXCEPT !.kind = "copy", !.expected = m.answer.revision, !.answer = NoAnswer]
<1>1. m.tab \in Tabs /\ Sound(m, s, history) /\ TabSound(m.tab, s, history)
  BY OldRequests
<1>2. CopyHolds(m, s) \/ TakeAndSend(m, kept, next)
  BY DEF TakeCreate, CopyKept
<1>3. CASE CopyHolds(m, s)
  BY <1>3, CopyHoldsStep
<1>4. CASE TakeAndSend(m, kept, next)
  <2>1. /\ DOMAIN kept = TabFields
        /\ \A f \in TabFields \ {"clicks", "mutating", "workflow", "copy", "key", "keys", "left"} :
             kept[f] = s[f]
    BY <1>1, KeptFields DEF TabSound
  <2>2. /\ DOMAIN next = RequestFields /\ next.tab = m.tab /\ next.kind = "copy"
        /\ next.version = m.version /\ next.gen = m.gen
    BY <1>1 DEF Sound, RequestFields
  <2> HIDE DEF kept, next
  <2>3. Sound(next, s, history)
    BY <1>1, <2>2 DEF Sound, Writes
  <2>4. Steps(m.tab, s, kept, history)
    BY <1>1, <2>1, QuietSteps
  <2> QED BY <1>4, <2>2, <2>3, <2>4, TakeAndSendStep
<1> QED BY <1>2, <1>3, <1>4

LEMMA TakeCopyStep ==
    ASSUME IInv, NEW m \in requests, TakeCopy(m), UNCHANGED history
    PROVE  IInv' /\ NothingForgotten
<1> DEFINE s == tab[m.tab]
           s2 == [s EXCEPT !.copy = NoCopy, !.key = 0]
<1>1. m.tab \in Tabs /\ TabSound(m.tab, s, history)
  BY OldRequests
<1>2. CopyHolds(m, s) \/ Take(m, s2)
  BY DEF TakeCopy
<1>3. CASE CopyHolds(m, s)
  BY <1>3, CopyHoldsStep
<1>4. CASE Take(m, s2)
  <2>1. /\ DOMAIN s2 = TabFields
        /\ \A f \in TabFields \ {"clicks", "mutating", "workflow", "copy", "key", "keys", "left"} :
             s2[f] = s[f]
    BY <1>1 DEF TabSound, TabFields
  <2> HIDE DEF s2
  <2>2. Steps(m.tab, s, s2, history)
    BY <1>1, <2>1, QuietSteps
  <2> QED BY <1>4, <2>2, TakeStep
<1> QED BY <1>2, <1>3, <1>4

\* Something is lost on its way.
LEMMA LoseStep ==
    ASSUME IInv, Lose
    PROVE  IInv' /\ NothingForgotten
<1>1. PICK m \in requests :
        LET s == tab[m.tab]
            orphan == IF m.answer = NoAnswer THEN {[m EXCEPT !.waiting = FALSE]} ELSE {}
            read == IF m.kind = "readiness" THEN {ReadRequest(m.tab, s)} ELSE {} IN
        /\ Becomes(m.tab,
             CASE m.kind = "save" -> NotSaved(s, m)
               [] m.kind = "read" -> [s EXCEPT !.mutating = FALSE]
               [] OTHER -> s)
        /\ requests' = (requests \ {m}) \cup orphan \cup read
  BY DEF Lose
<1> DEFINE s == tab[m.tab]
           free == [s EXCEPT !.mutating = FALSE]
           s2 == CASE m.kind = "save" -> NotSaved(s, m)
                   [] m.kind = "read" -> free
                   [] OTHER -> s
<1>2. m.tab \in Tabs /\ Sound(m, s, history) /\ TabSound(m.tab, s, history)
  BY OldRequests
<1>3. Becomes(m.tab, s2) /\ UNCHANGED history
  BY <1>1 DEF Lose, serverVars
<1>4. Steps(m.tab, s, s2, history)
  <2>1. Steps(m.tab, s, NotSaved(s, m), history) /\ Steps(m.tab, s, s, history)
    BY <1>2, NotSavedSteps, StaySteps
  <2>2. Steps(m.tab, s, free, history)
    <3>1. /\ DOMAIN free = TabFields
          /\ \A f \in TabFields \ {"clicks", "mutating", "workflow", "copy", "key", "keys", "left"} :
               free[f] = s[f]
      BY <1>2 DEF TabSound, TabFields
    <3> HIDE DEF free
    <3> QED BY <1>2, <3>1, QuietSteps
  <2> HIDE DEF free
  <2> QED BY <2>1, <2>2
<1>5. ASSUME NEW n \in requests' PROVE n.tab \in Tabs /\ Sound(n, tab[n.tab], history)
  <2>1. n \in requests \/ n = [m EXCEPT !.waiting = FALSE] \/ n = ReadRequest(m.tab, s)
    BY <1>1
  <2>2. CASE n \in requests
    BY <2>2, OldRequests
  <2>3. CASE n = [m EXCEPT !.waiting = FALSE]
    BY <1>2, <2>3, OrphanSound
  <2>4. CASE n = ReadRequest(m.tab, s)
    BY <1>2, <2>4, ReadSound
  <2> QED BY <2>1, <2>2, <2>3, <2>4
<1> HIDE DEF s2
<1> QED BY <1>2, <1>3, <1>4, <1>5, StepOfTab

-----------------------------------------------------------------------------
(* Steps of the server.                                                    *)

\* A request is answered, truthfully.
LEMMA AnswerStep ==
    ASSUME IInv, NEW m \in requests, NEW answer, Answered(m, answer), UNCHANGED tab,
           HistorySound(history'),
           Len(history) <= Len(history'), Held(history) \subseteq Held(history'),
           answer = NoAnswer \/ answer.kind \in {"ok", "conflict", "refused"} \/ m.kind # "readiness",
           m.kind \in Writes /\ answer.kind = "ok" => Own(m.tab, m.sent) \subseteq Held(history'),
           m.kind \in Writes \cup {"readiness"} /\ answer.kind \in {"ok", "conflict"} =>
             answer.content \subseteq Held(history') /\ answer.revision \in 1 .. Len(history')
    PROVE  IInv' /\ NothingForgotten
<1> DEFINE a == [m EXCEPT !.answer = answer]
<1>1. requests' \subseteq (requests \ {m}) \cup {a}
  BY DEF Answered
<1>2. m.tab \in Tabs /\ Sound(m, tab[m.tab], history) /\ HistorySound(history)
  BY OldRequests DEF IInv
<1>3. Sound(m, tab[m.tab], history')
  BY <1>2, Growing
<1>4. /\ DOMAIN a = RequestFields /\ a.answer = answer
      /\ \A f \in RequestFields \ {"answer"} : a[f] = m[f]
  BY <1>2 DEF Sound, RequestFields
<1> HIDE DEF a
<1>5. /\ a.tab = m.tab /\ a.kind = m.kind /\ a.sent = m.sent
      /\ a.version = m.version /\ a.gen = m.gen
  BY <1>4 DEF RequestFields
<1>6. a.tab \in Tabs /\ Sound(a, tab[a.tab], history')
  BY <1>2, <1>3, <1>4, <1>5 DEF Sound
<1>7. \A n \in requests' : n.tab \in Tabs /\
        (Sound(n, tab[n.tab], history) \/ Sound(n, tab[n.tab], history'))
  BY <1>1, <1>6, OldRequests
<1> QED BY <1>7, StepOfServer

\* A request is refused, or answered with the document as it is.
LEMMA ReplyStep ==
    ASSUME IInv, NEW m \in requests, UNCHANGED <<tab, history>>,
           \/ Answered(m, Reply("conflict"))
           \/ Answered(m, Refusal)
    PROVE  IInv' /\ NothingForgotten
<1>1. HistorySound(history) /\ Revision \in 1 .. Len(history)
  BY DEF IInv, Revision, HistorySound
<1>2. Document \subseteq Held(history)
  BY <1>1, DocumentHeld DEF Document, Revision
<1>3. CASE Answered(m, Reply("conflict"))
  <2>1. PICK answer : answer = Reply("conflict")
    OBVIOUS
  <2>2. answer.kind = "conflict" /\ answer.content = Document /\ answer.revision = Revision
    BY <2>1 DEF Reply
  <2>3. Answered(m, answer) /\ UNCHANGED tab /\ UNCHANGED history
    BY <1>3, <2>1
  <2> QED BY <1>1, <1>2, <2>2, <2>3, AnswerStep DEF HistorySound
<1>4. CASE Answered(m, Refusal)
  <2>1. PICK answer : answer = Refusal
    OBVIOUS
  <2>2. answer.kind = "refused"
    BY <2>1 DEF Refusal, NoAnswer
  <2>3. Answered(m, answer) /\ UNCHANGED tab /\ UNCHANGED history
    BY <1>4, <2>1
  <2> QED BY <1>1, <2>2, <2>3, AnswerStep DEF HistorySound
<1> QED BY <1>3, <1>4

\* A write commits its content and is answered with it.
LEMMA CommitStep ==
    ASSUME IInv, NEW m \in requests, NEW content, UNCHANGED tab,
           Commit(content, m.tab), AnsweredNow(m),
           m.kind \in Writes => Own(m.tab, m.sent) \subseteq content
    PROVE  IInv' /\ NothingForgotten
<1>1. PICK e : e = [content |-> content, by |-> m.tab]
  OBVIOUS
<1>2. HistorySound(history) /\ history' = Append(history, e) /\ e.content = content
  BY <1>1 DEF IInv, Commit
<1>3. /\ HistorySound(history') /\ Len(history') = Len(history) + 1
      /\ Held(history) \subseteq Held(history')
      /\ content \subseteq Held(history')
      /\ history'[Len(history')] = e
  BY <1>2, CommitHolds
<1>4. PICK answer :
        answer = [kind |-> "ok", content |-> history'[Len(history')].content,
                  revision |-> Len(history'), readiness |-> readiness']
  OBVIOUS
<1>5. Answered(m, answer)
  BY <1>4 DEF AnsweredNow
<1>6. answer.kind = "ok" /\ answer.content = content /\ answer.revision = Len(history')
  BY <1>2, <1>3, <1>4
<1>7. Len(history) <= Len(history') /\ Len(history') \in 1 .. Len(history')
  BY <1>2, <1>3 DEF HistorySound
<1> QED BY <1>3, <1>5, <1>6, <1>7, AnswerStep

LEMMA ServeSaveStep ==
    ASSUME IInv, NEW m \in requests, ServeSave(m), UNCHANGED tab
    PROVE  IInv' /\ NothingForgotten
<1>1. CASE Commit(m.sent, m.tab) /\ AnsweredNow(m)
  BY <1>1, CommitStep DEF Own
<1>2. CASE (Answered(m, Reply("conflict")) \/ Answered(m, Refusal)) /\ UNCHANGED history
  BY <1>2, ReplyStep
<1> QED BY <1>1, <1>2 DEF ServeSave

LEMMA ServeApplyStep ==
    ASSUME IInv, NEW m \in requests, ServeApply(m), UNCHANGED tab
    PROVE  IInv' /\ NothingForgotten
<1>1. CASE Commit(Applied(m.proposals, m.sent), m.tab) /\ AnsweredNow(m)
  <2>1. m.tab \in Tabs
    BY OldRequests
  <2> QED BY <1>1, <2>1, CommitStep, ProposalsKeepOwn
<1>2. CASE (Answered(m, Reply("conflict")) \/ Answered(m, Refusal)) /\ UNCHANGED history
  BY <1>2, ReplyStep
<1> QED BY <1>1, <1>2 DEF ServeApply

LEMMA ServeUndoStep ==
    ASSUME IInv, NEW m \in requests, ServeUndo(m), UNCHANGED tab
    PROVE  IInv' /\ NothingForgotten
<1>1. CASE \E c \in changes : Commit(c.before, m.tab) /\ AnsweredNow(m)
  <2>1. m.kind = "undo" /\ Own(m.tab, m.sent) = {}
    BY OldRequests DEF ServeUndo, Sound, Own
  <2> QED BY <1>1, <2>1, CommitStep
<1>2. CASE (Answered(m, Reply("conflict")) \/ Answered(m, Refusal)) /\ UNCHANGED history
  BY <1>2, ReplyStep
<1> QED BY <1>1, <1>2 DEF ServeUndo

LEMMA ServeReadinessStep ==
    ASSUME IInv, NEW m \in requests, ServeReadiness(m), UNCHANGED tab
    PROVE  IInv' /\ NothingForgotten
<1>1. CASE Commit(Document, m.tab) /\ AnsweredNow(m)
  BY <1>1, CommitStep DEF ServeReadiness, Writes
<1>2. CASE (Answered(m, Reply("conflict")) \/ Answered(m, Refusal)) /\ UNCHANGED history
  BY <1>2, ReplyStep
<1> QED BY <1>1, <1>2 DEF ServeReadiness

\* Requests that do not write the document are answered.
LEMMA OtherAnswerStep ==
    ASSUME IInv, NEW m \in requests, NEW answer, Answered(m, answer),
           UNCHANGED tab, UNCHANGED history, m.kind \in {"read", "create", "copy"}
    PROVE  IInv' /\ NothingForgotten
<1>1. HistorySound(history)
  BY DEF IInv
<1>2. m.kind \notin Writes \cup {"readiness"}
  BY DEF Writes
<1> QED BY <1>1, <1>2, AnswerStep DEF HistorySound

LEMMA ServeStep ==
    ASSUME IInv, Serve(Tabs, Kinds)
    PROVE  IInv' /\ NothingForgotten
<1>1. PICK m \in requests :
        \/ ServeSave(m) \/ ServeApply(m) \/ ServeUndo(m) \/ ServeReadiness(m)
        \/ ServeRead(m) \/ ServeCreate(m) \/ ServeCopy(m)
  BY DEF Serve
<1>2. UNCHANGED tab
  BY DEF Serve
<1>3. CASE ServeRead(m)
  BY <1>2, <1>3, OtherAnswerStep DEF ServeRead, serverVars
<1>4. CASE ServeCreate(m)
  <2>1. \E answer : Answered(m, answer)
    BY <1>4 DEF ServeCreate
  <2> QED BY <1>2, <1>4, <2>1, OtherAnswerStep DEF ServeCreate
<1>5. CASE ServeCopy(m)
  <2>1. \E answer : Answered(m, answer)
    BY <1>5 DEF ServeCopy
  <2> QED BY <1>2, <1>5, <2>1, OtherAnswerStep DEF ServeCopy
<1> QED BY <1>1, <1>2, <1>3, <1>4, <1>5, ServeSaveStep, ServeApplyStep, ServeUndoStep,
           ServeReadinessStep

\* Archiving and other clients leave the tabs and their requests alone.
LEMMA ElsewhereStep ==
    ASSUME IInv, EndPlainWrites \/ OtherEditsCopy
    PROVE  IInv' /\ NothingForgotten
<1>1. UNCHANGED tab /\ UNCHANGED history /\ UNCHANGED requests
  BY DEF EndPlainWrites, OtherEditsCopy
<1>2. HistorySound(history)
  BY DEF IInv
<1> QED BY <1>1, <1>2, StepOfServer, OldRequests DEF HistorySound

LEMMA TakeAnswerStep ==
    ASSUME IInv, TakeAnswer(Tabs, Kinds)
    PROVE  IInv' /\ NothingForgotten
<1>1. PICK m \in requests :
        /\ m.answer # NoAnswer
        /\ \/ TakeSave(m) \/ TakeApply(m) \/ TakeUndo(m) \/ TakeReadiness(m)
           \/ TakeRead(m) \/ TakeCreate(m) \/ TakeCopy(m)
  BY DEF TakeAnswer
<1>2. UNCHANGED history
  BY DEF TakeAnswer, serverVars
<1> QED BY <1>1, <1>2, TakeSaveStep, TakeApplyStep, TakeUndoStep, TakeReadinessStep,
           TakeReadStep, TakeCreateStep, TakeCopyStep

-----------------------------------------------------------------------------
(* The theorems.                                                           *)

LEMMA InitialState == Init => IInv
<1> SUFFICES ASSUME Init PROVE IInv
  OBVIOUS
<1> DEFINE e == [content |-> Target(Proposals), by |-> "creation"]
<1>1. history = <<e>> /\ Len(history) = 1 /\ history[1] = e
  BY DEF Init
<1>2. HistorySound(history)
  <2>1. Entries(history) = {e}
    BY <1>1 DEF Entries
  <2>2. <<e>> \in Seq({e})
    OBVIOUS
  <2> QED BY <1>1, <2>1, <2>2 DEF HistorySound
<1>3. ASSUME NEW t \in Tabs PROVE TabSound(t, tab[t], history)
  <2>1. Own(t, Target(Proposals)) = {}
    BY MarksApart DEF Own, Target
  <2>2. tab[t] = [draft |-> Target(Proposals), version |-> 0, persisted |-> 0, base |-> 1,
          save |-> "saved", gen |-> 0, conflict |-> NoConflict,
          workflow |-> [readiness |-> "draft", revision |-> 1], mutating |-> FALSE,
          key |-> 0, keys |-> 0, copy |-> NoCopy, left |-> FALSE,
          edits |-> 0, clicks |-> 0]
    BY DEF Init
  <2>3. /\ DOMAIN tab[t] = TabFields
        /\ tab[t].draft = Target(Proposals) /\ tab[t].version = 0 /\ tab[t].persisted = 0
        /\ tab[t].base = 1 /\ tab[t].save = "saved" /\ tab[t].gen = 0
        /\ tab[t].conflict = NoConflict
    BY <2>2 DEF TabFields
  <2> QED BY <1>1, <2>1, <2>3 DEF TabSound, NoConflict
<1>4. requests = {} /\ DOMAIN tab = Tabs
  BY DEF Init
<1> QED BY <1>2, <1>3, <1>4 DEF IInv

LEMMA Step ==
    ASSUME IInv, Next
    PROVE  IInv' /\ \A t \in Tabs : Unsaved(t) \subseteq tab'[t].draft \/ LoadServerVersion(t)
<1>1. ASSUME NEW t \in Tabs, LoadServerVersion(t)
      PROVE  IInv' /\ \A u \in Tabs : Unsaved(u) \subseteq tab'[u].draft \/ LoadServerVersion(u)
  <2>1. IInv'
    BY <1>1, LoadStep
  <2>2. ASSUME NEW u \in Tabs, u # t PROVE Unsaved(u) \subseteq tab'[u].draft
    <3>1. tab'[u] = tab[u]
      BY <1>1, <2>2 DEF LoadServerVersion, Becomes, IInv
    <3> QED BY <3>1 DEF Unsaved, Own
  <2> QED BY <1>1, <2>1, <2>2
<1>2. ASSUME NEW t \in Tabs,
             \/ Type(t) \/ Autosave(t) \/ Retry(t) \/ AcceptProposals(t) \/ UndoChange(t)
             \/ ChangeReadiness(t) \/ RefreshWorkflow(t) \/ SameDocumentSnapshot(t) \/ SaveAsNew(t)
      PROVE  IInv' /\ NothingForgotten
  BY <1>2, TypeStep, SaveStep, AcceptStep, UndoStep, ReadinessStep, RefreshStep,
     SnapshotStep, SaveAsNewStep DEF Autosave, Retry
<1>3. CASE Serve(Tabs, Kinds) \/ TakeAnswer(Tabs, Kinds) \/ Lose \/ EndPlainWrites \/ OtherEditsCopy
  BY <1>3, ServeStep, TakeAnswerStep, LoseStep, ElsewhereStep DEF NothingForgotten
<1>4. ASSUME IInv' /\ NothingForgotten
      PROVE  IInv' /\ \A u \in Tabs : Unsaved(u) \subseteq tab'[u].draft \/ LoadServerVersion(u)
  BY <1>4 DEF NothingForgotten
<1>5. CASE \E t \in Tabs :
             \/ Type(t) \/ Autosave(t) \/ Retry(t) \/ AcceptProposals(t) \/ UndoChange(t)
             \/ ChangeReadiness(t) \/ RefreshWorkflow(t) \/ SameDocumentSnapshot(t) \/ SaveAsNew(t)
  BY <1>2, <1>4, <1>5
<1>6. CASE \E t \in Tabs : LoadServerVersion(t)
  BY <1>1, <1>6
<1> QED BY <1>3, <1>5, <1>6 DEF Next

LEMMA Stutter ==
    ASSUME IInv, UNCHANGED vars
    PROVE  IInv'
BY DEF vars, IInv

\* The inductive invariant holds of every behaviour.
LEMMA Inductive == Spec => []IInv
<1>1. Init => IInv
  BY InitialState
<1>2. IInv /\ [Next]_vars => IInv'
  BY Step, Stutter
<1> QED BY <1>1, <1>2, PTL DEF Spec

\* Revisions that editors write with exist, and no request is from the future.
THEOREM DraftsWellFormed == Spec => []DraftsTypeOK
<1>1. IInv => DraftsTypeOK
  BY DEF IInv, DraftsTypeOK, TabSound, Sound, Revision, HistorySound
<1> QED BY <1>1, Inductive, PTL

\* An editor that shows "saved" has nothing that no revision holds.
THEOREM SavedIsSaved == Spec => []UnsavedIsGuarded
<1>1. IInv => UnsavedIsGuarded
  BY DEF IInv, UnsavedIsGuarded, TabSound, Unsaved, Held, Revision
<1> QED BY <1>1, Inductive, PTL

\* Nothing that was typed and not saved leaves an editor by itself.
THEOREM TypingIsKept == Spec => EditsKept
<1>1. IInv /\ [Next]_vars =>
        [\A t \in Tabs : Unsaved(t) \subseteq tab'[t].draft \/ LoadServerVersion(t)]_vars
  BY Step
<1> QED BY <1>1, Inductive, PTL DEF Spec, EditsKept

-----------------------------------------------------------------------------
(* What another tab wrote: the bases of the tabs and of their requests.     *)
(* A revision is Level with another for tab t when what the other tabs wrote *)
(* is the same from one to the other; a tab only writes at a revision that   *)
(* is level with the one its draft was built on (Founded, RequestFounded).   *)
\* What other tabs than t wrote, and the revisions a .. b of h where it is the same.
Foreign(t, content) == {m \in content : m[1] \in Tabs \ {t}}
Level(t, h, a, b) ==
    \A k \in a .. b : Foreign(t, h[k].content) = Foreign(t, h[a].content)

\* The save that a tab with editor s is waiting for.
Current(m, s) == m.kind = "save" /\ m.waiting /\ m.gen = s.gen

\* The draft of t and its base, and the revision that its conflict shows, have the
\* same of what others wrote.
Founded(t, s, h) ==
    /\ Foreign(t, s.draft) = Foreign(t, h[s.base].content)
    /\ s.conflict # NoConflict =>
         /\ s.conflict.server = h[s.conflict.revision].content
         /\ Level(t, h, s.conflict.revision, s.base)

\* So have a write and the revision it expects, and an answer and its revision; the
\* revisions that an answer may take the tab to are level with its base.
RequestFounded(m, s, h) ==
    /\ m.answer # NoAnswer => m.waiting
    /\ Current(m, s) => s.save # "saved"
    /\ m.kind \in Writes =>
         /\ m.expected \in 1 .. Len(h)
         /\ m.kind # "undo" =>
              Foreign(m.tab, m.sent) = Foreign(m.tab, h[m.expected].content)
         /\ m.answer = NoAnswer => Level(m.tab, h, s.base, m.expected)
         /\ m.answer.kind = "ok" => Level(m.tab, h, s.base, m.answer.revision)
         /\ m.answer.kind \in {"ok", "conflict"} =>
              /\ m.answer.content = h[m.answer.revision].content
              /\ m.kind # "save" \/ (m.answer.kind = "conflict" /\ m.gen = s.gen) =>
                   Level(m.tab, h, m.answer.revision, s.base)
    /\ m.kind = "readiness" /\ m.answer.kind = "ok" =>
         /\ m.answer.revision \in 2 .. Len(h)
         /\ h[m.answer.revision].content = h[m.answer.revision - 1].content

\* No revision drops what another tab wrote.
Kept(h) ==
    \A r \in 2 .. Len(h) : \A t \in Tabs \ {h[r].by} :
        Own(t, h[r - 1].content) \subseteq h[r].content

\* Undoing a change restores what other tabs wrote before it.
ChangeFields == {"proposals", "before", "after", "undone"}
Reversible(cs, h) ==
    \A c \in cs :
        /\ DOMAIN c = ChangeFields
        /\ c.after \in 1 .. Len(h)
        /\ h[c.after].content = Applied(c.proposals, c.before)

\* A tab waits for one save at a time, the one it asked for last.
OneSave(rs, tabs) ==
    \A m, n \in rs :
        m.tab = n.tab /\ Current(m, tabs[m.tab]) /\ Current(n, tabs[n.tab]) => m = n

FInv ==
    /\ Kept(history)
    /\ Reversible(changes, history)
    /\ \A t \in Tabs : Founded(t, tab[t], history)
    /\ \A m \in requests : RequestFounded(m, tab[m.tab], history)
    /\ OneSave(requests, tab)

-----------------------------------------------------------------------------
\* Neither proposals nor typing change what other tabs wrote.
LEMMA ForeignKept ==
    ASSUME NEW t \in Tabs, NEW content, NEW ps, NEW n
    PROVE  /\ Foreign(t, Applied(ps, content)) = Foreign(t, content)
           /\ Foreign(t, (content \ Target(ps)) \cup {<<t, n>>}) = Foreign(t, content)
BY MarksApart DEF Foreign, Applied, Target

\* Two stretches without a foreign edit are one.
LEMMA LevelJoin ==
    ASSUME NEW t, NEW h, NEW a \in Nat, NEW b \in Nat, NEW c \in Nat,
           Level(t, h, a, b), Level(t, h, b, c)
    PROVE  Level(t, h, a, c)
<1> SUFFICES ASSUME NEW k \in a .. c
             PROVE  Foreign(t, h[k].content) = Foreign(t, h[a].content)
  BY DEF Level
<1>1. CASE k <= b
  <2>1. k \in a .. b
    BY <1>1
  <2> QED BY <2>1 DEF Level
<1>2. CASE k > b
  <2>1. k \in b .. c
    BY <1>2
  <2>2. Foreign(t, h[k].content) = Foreign(t, h[b].content)
    BY <2>1 DEF Level
  <2>3. a \in b .. c \/ b \in a .. b
    BY <2>1
  <2>4. Foreign(t, h[a].content) = Foreign(t, h[b].content)
    BY <2>3 DEF Level
  <2> QED BY <2>2, <2>4
<1> QED BY <1>1, <1>2

\* Backwards, a stretch has at most one revision.
LEMMA LevelBack ==
    ASSUME NEW t, NEW h, NEW a \in Nat, NEW b \in Nat, b <= a
    PROVE  Level(t, h, a, b)
<1>1. \A k \in a .. b : k = a
  OBVIOUS
<1> QED BY <1>1 DEF Level

\* The stretch from a base to another reaches the newer of the two.
LEMMA LevelAdvance ==
    ASSUME NEW t, NEW h, NEW a \in Nat, NEW b \in Nat, Level(t, h, a, b)
    PROVE  /\ Advance(a, b) \in {a, b} /\ Advance(a, b) >= a /\ Advance(a, b) >= b
           /\ Level(t, h, a, Advance(a, b)) /\ Level(t, h, Advance(a, b), a)
<1>1. Advance(a, b) \in {a, b} /\ Advance(a, b) >= a /\ Advance(a, b) >= b
  BY MaxOfTwo DEF Advance
<1>2. Level(t, h, a, a)
  BY LevelBack
<1>3. Level(t, h, Advance(a, b), a)
  BY <1>1, LevelBack
<1> QED BY <1>1, <1>2, <1>3

\* History grows and stays what it was.
Extends(h, h2) ==
    /\ Len(h) \in Nat \ {0} /\ Len(h2) \in Nat /\ Len(h) <= Len(h2)
    /\ \A k \in 1 .. Len(h) : h2[k] = h[k]

\* New revisions leave the old stretches as they were.
LEMMA LevelGrown ==
    ASSUME NEW t, NEW h, NEW h2, Extends(h, h2),
           NEW a \in 1 .. Len(h), NEW b \in 1 .. Len(h), Level(t, h, a, b)
    PROVE  Level(t, h2, a, b)
<1>1. \A k \in a .. b : k \in 1 .. Len(h)
  BY DEF Extends
<1> QED BY <1>1 DEF Level, Extends

\* New revisions leave a tab as founded as it was.
LEMMA FoundedGrown ==
    ASSUME NEW t, NEW s, NEW h, NEW h2, Extends(h, h2), TabSound(t, s, h), Founded(t, s, h)
    PROVE  Founded(t, s, h2)
<1>1. s.base \in 1 .. Len(h) /\ h2[s.base] = h[s.base]
  BY DEF TabSound, Extends
<1>2. ASSUME s.conflict # NoConflict
      PROVE  /\ s.conflict.server = h2[s.conflict.revision].content
             /\ Level(t, h2, s.conflict.revision, s.base)
  <2>1. s.conflict.revision \in 1 .. Len(h)
    BY <1>2 DEF TabSound
  <2> QED BY <1>1, <1>2, <2>1, LevelGrown DEF Founded, Extends
<1> QED BY <1>1, <1>2 DEF Founded

\* New revisions leave a request as founded as it was.
LEMMA RequestFoundedGrown ==
    ASSUME NEW m, NEW s, NEW h, NEW h2, Extends(h, h2),
           TabSound(m.tab, s, h), Sound(m, s, h), RequestFounded(m, s, h)
    PROVE  RequestFounded(m, s, h2)
<1>1. s.base \in 1 .. Len(h) /\ Len(h) \in Nat /\ Len(h2) \in Nat /\ Len(h) <= Len(h2)
  BY DEF TabSound, Extends
<1>2. ASSUME m.kind \in Writes
      PROVE  /\ m.expected \in 1 .. Len(h2)
             /\ m.kind # "undo" =>
                  Foreign(m.tab, m.sent) = Foreign(m.tab, h2[m.expected].content)
             /\ m.answer = NoAnswer => Level(m.tab, h2, s.base, m.expected)
  <2>1. m.expected \in 1 .. Len(h) /\ h2[m.expected] = h[m.expected]
    BY <1>2 DEF RequestFounded, Extends
  <2> QED BY <1>1, <1>2, <2>1, LevelGrown DEF RequestFounded
<1>3. ASSUME m.kind \in Writes, m.answer.kind \in {"ok", "conflict"}
      PROVE  /\ m.answer.kind = "ok" => Level(m.tab, h2, s.base, m.answer.revision)
             /\ m.answer.content = h2[m.answer.revision].content
             /\ m.kind # "save" \/ (m.answer.kind = "conflict" /\ m.gen = s.gen) =>
                  Level(m.tab, h2, m.answer.revision, s.base)
  <2>1. m.answer.revision \in 1 .. Len(h) /\ h2[m.answer.revision] = h[m.answer.revision]
    BY <1>3 DEF Sound, Extends
  <2> QED BY <1>1, <1>3, <2>1, LevelGrown DEF RequestFounded
<1>4. ASSUME m.kind = "readiness", m.answer.kind = "ok"
      PROVE  /\ m.answer.revision \in 2 .. Len(h2)
             /\ h2[m.answer.revision].content = h2[m.answer.revision - 1].content
  <2>1. /\ m.answer.revision \in 2 .. Len(h)
        /\ h[m.answer.revision].content = h[m.answer.revision - 1].content
    BY <1>4 DEF RequestFounded
  <2>2. m.answer.revision \in 1 .. Len(h) /\ m.answer.revision - 1 \in 1 .. Len(h)
    BY <1>1, <2>1
  <2> QED BY <1>1, <2>1, <2>2 DEF Extends
<1>5. (m.answer # NoAnswer => m.waiting) /\ (Current(m, s) => s.save # "saved")
  BY DEF RequestFounded
<1> QED BY <1>2, <1>3, <1>4, <1>5 DEF RequestFounded

\* A step of tab t: how its old requests stand to the editor s2.
LEMMA RequestFollows ==
    ASSUME NEW m, NEW s, NEW s2, NEW h, HistorySound(h),
           TabSound(m.tab, s, h), TabSound(m.tab, s2, h), Sound(m, s, h),
           RequestFounded(m, s, h),
           s.gen <= s2.gen, Level(m.tab, h, s2.base, s.base),
           Current(m, s2) => s2.save # "saved",
           Current(m, s2) \/ (m.waiting /\ m.kind \in {"apply", "undo"}) =>
             Level(m.tab, h, s.base, s2.base)
    PROVE  RequestFounded(m, s2, h)
<1>1. /\ s.base \in Nat /\ s2.base \in Nat /\ s.gen \in Nat /\ s2.gen \in Nat
      /\ m.gen \in Nat /\ m.gen <= s.gen /\ Len(h) \in Nat
  BY DEF TabSound, Sound, HistorySound
<1>2. ASSUME m.kind \in Writes, m.answer = NoAnswer
      PROVE  Level(m.tab, h, s2.base, m.expected)
  <2>1. m.expected \in Nat /\ Level(m.tab, h, s.base, m.expected)
    BY <1>1, <1>2 DEF RequestFounded
  <2> QED BY <1>1, <2>1, LevelJoin
<1>3. ASSUME m.kind \in Writes, m.answer.kind \in {"ok", "conflict"}
      PROVE  /\ m.answer.kind = "ok" => Level(m.tab, h, s2.base, m.answer.revision)
             /\ m.kind # "save" \/ (m.answer.kind = "conflict" /\ m.gen = s2.gen) =>
                  Level(m.tab, h, m.answer.revision, s2.base)
  <2>1. m.answer.revision \in Nat
    BY <1>1, <1>3 DEF Sound
  <2>2. m.waiting
    BY <1>3 DEF RequestFounded, NoAnswer
  <2>3. m.answer.kind = "ok" => Level(m.tab, h, s2.base, m.answer.revision)
    BY <1>1, <1>3, <2>1, LevelJoin DEF RequestFounded
  <2>4. ASSUME m.kind # "save" \/ (m.answer.kind = "conflict" /\ m.gen = s2.gen)
        PROVE  Level(m.tab, h, m.answer.revision, s2.base)
    <3>1. m.kind # "save" \/ (m.answer.kind = "conflict" /\ m.gen = s.gen)
      BY <1>1, <2>4
    <3>2. Level(m.tab, h, m.answer.revision, s.base)
      BY <1>3, <3>1 DEF RequestFounded
    <3>3. Level(m.tab, h, s.base, s2.base)
      <4>1. Current(m, s2) \/ (m.waiting /\ m.kind \in {"apply", "undo"})
        BY <1>3, <2>2, <2>4 DEF Current, Writes
      <4> QED BY <4>1
    <3> QED BY <1>1, <2>1, <3>2, <3>3, LevelJoin
  <2> QED BY <2>3, <2>4
<1>4. m.answer # NoAnswer => m.waiting
  BY DEF RequestFounded
<1> QED BY <1>2, <1>3, <1>4 DEF RequestFounded

\* At most one save of a tab stays current.
LEMMA OneSaveKept ==
    ASSUME IInv, FInv, NEW t \in Tabs, NEW s2, Becomes(t, s2), TabSound(t, s2, history),
           tab[t].gen <= s2.gen,
           \A m \in requests' : m \in requests \/ ~Current(m, tab'[m.tab])
    PROVE  OneSave(requests', tab')
<1>1. DOMAIN tab = Tabs /\ tab'[t] = s2 /\ \A u \in Tabs \ {t} : tab'[u] = tab[u]
  BY DEF IInv, Becomes
<1>2. ASSUME NEW m \in requests, Current(m, tab'[m.tab]) PROVE Current(m, tab[m.tab])
  <2>1. CASE m.tab = t
    <3>1. m.gen \in Nat /\ m.gen <= tab[t].gen /\ tab[t].gen \in Nat /\ s2.gen \in Nat
      BY <2>1, OldRequests DEF Sound, TabSound
    <3> QED BY <1>1, <1>2, <2>1, <3>1 DEF Current
  <2>2. CASE m.tab # t
    BY <1>1, <1>2, <2>2, OldRequests DEF Current
  <2> QED BY <2>1, <2>2
<1> QED BY <1>2 DEF OneSave, FInv

\* A step of tab t whose new requests are founded.
LEMMA FoundedTabStep ==
    ASSUME IInv, FInv, NEW t \in Tabs, NEW s2, Becomes(t, s2), UNCHANGED <<history, changes>>,
           TabSound(t, s2, history), Founded(t, s2, history),
           tab[t].gen <= s2.gen, Level(t, history, s2.base, tab[t].base),
           \A m \in requests' : m.tab \in Tabs,
           \A m \in requests' \cap requests : m.tab = t =>
             /\ Current(m, s2) => s2.save # "saved"
             /\ Current(m, s2) \/ (m.waiting /\ m.kind \in {"apply", "undo"}) =>
                  Level(t, history, tab[t].base, s2.base),
           \A m \in requests' \ requests : RequestFounded(m, tab'[m.tab], history),
           OneSave(requests', tab')
    PROVE  FInv'
<1>1. DOMAIN tab = Tabs /\ tab'[t] = s2 /\ \A u \in Tabs \ {t} : tab'[u] = tab[u]
  BY DEF IInv, Becomes
<1>2. \A u \in Tabs : Founded(u, tab'[u], history)
  BY <1>1 DEF FInv
<1>3. ASSUME NEW m \in requests' \cap requests PROVE RequestFounded(m, tab'[m.tab], history)
  <2>1. /\ m.tab \in Tabs /\ Sound(m, tab[m.tab], history)
        /\ TabSound(m.tab, tab[m.tab], history) /\ HistorySound(history)
        /\ RequestFounded(m, tab[m.tab], history)
    BY OldRequests DEF IInv, FInv
  <2>2. CASE m.tab = t
    <3>1. /\ Current(m, s2) => s2.save # "saved"
          /\ Current(m, s2) \/ (m.waiting /\ m.kind \in {"apply", "undo"}) =>
               Level(t, history, tab[t].base, s2.base)
      BY <2>2
    <3> QED BY <1>1, <2>1, <2>2, <3>1, RequestFollows
  <2>3. CASE m.tab # t
    BY <1>1, <2>1, <2>3
  <2> QED BY <2>2, <2>3
<1>4. \A m \in requests' : RequestFounded(m, tab'[m.tab], history)
  BY <1>3
<1> QED BY <1>2, <1>4 DEF FInv

-----------------------------------------------------------------------------
\* What answers do to the base of an editor: it moves among equals.
Moves(t, s, s2, h) ==
    /\ Founded(t, s2, h)
    /\ s.gen <= s2.gen
    /\ Level(t, h, s2.base, s.base) /\ Level(t, h, s.base, s2.base)

\* Only the answer to the current save, or a new generation, makes an editor saved.
Settles(m, s, s2) ==
    s2.save = "saved" => s.save = "saved" \/ s2.gen > s.gen \/ Current(m, s)

\* The conflict at hand outlives a change of the base among equals.
LEMMA MoveFounded ==
    ASSUME NEW t \in Tabs, NEW s, NEW s2, NEW h, TabSound(t, s, h), Founded(t, s, h),
           HistorySound(h), s2.base \in Nat, Level(t, h, s.base, s2.base),
           s2.conflict = s.conflict \/ s2.conflict = NoConflict,
           Foreign(t, s2.draft) = Foreign(t, h[s2.base].content)
    PROVE  Founded(t, s2, h)
<1>1. s.base \in Nat
  BY DEF TabSound
<1>2. ASSUME s2.conflict # NoConflict
      PROVE  /\ s2.conflict.server = h[s2.conflict.revision].content
             /\ Level(t, h, s2.conflict.revision, s2.base)
  <2>1. /\ s2.conflict = s.conflict /\ s.conflict.revision \in Nat
        /\ s.conflict.server = h[s.conflict.revision].content
        /\ Level(t, h, s.conflict.revision, s.base)
    BY <1>2 DEF Founded, TabSound
  <2> QED BY <1>1, <2>1, LevelJoin
<1> QED BY <1>2 DEF Founded

\* Nothing but fields that the base and the draft do not depend on.
LEMMA StayMoves ==
    ASSUME NEW t \in Tabs, NEW s, NEW s2, NEW h, TabSound(t, s, h), TabSound(t, s2, h),
           Founded(t, s, h), s2.base = s.base, s2.draft = s.draft, s2.conflict = s.conflict,
           s.gen <= s2.gen
    PROVE  Moves(t, s, s2, h)
<1>1. Level(t, h, s.base, s.base)
  BY LevelBack DEF TabSound
<1> QED BY <1>1 DEF Moves, Founded

\* Advancing to a revision that is level with the base leaves the draft founded.
LEMMA AdvanceDraft ==
    ASSUME NEW t \in Tabs, NEW s, NEW h, HistorySound(h), TabSound(t, s, h), Founded(t, s, h),
           NEW r \in 1 .. Len(h), Level(t, h, s.base, r)
    PROVE  /\ Advance(s.base, r) \in Nat
           /\ Level(t, h, s.base, Advance(s.base, r)) /\ Level(t, h, Advance(s.base, r), s.base)
           /\ Foreign(t, s.draft) = Foreign(t, h[Advance(s.base, r)].content)
<1>1. s.base \in Nat /\ r \in Nat
  BY DEF TabSound, HistorySound
<1>2. /\ Advance(s.base, r) \in {s.base, r} /\ Advance(s.base, r) >= s.base
      /\ Level(t, h, s.base, Advance(s.base, r)) /\ Level(t, h, Advance(s.base, r), s.base)
  BY <1>1, LevelAdvance
<1>3. Advance(s.base, r) \in s.base .. Advance(s.base, r)
  BY <1>1, <1>2
<1>4. Foreign(t, h[Advance(s.base, r)].content) = Foreign(t, h[s.base].content)
  BY <1>2, <1>3 DEF Level
<1> QED BY <1>1, <1>2, <1>4 DEF Founded

\* A save that succeeded.
LEMMA SavedMoves ==
    ASSUME NEW t \in Tabs, NEW s, NEW h, HistorySound(h), TabSound(t, s, h), Founded(t, s, h),
           NEW m, Sound(m, s, h), RequestFounded(m, s, h), m.tab = t, m.kind = "save",
           m.answer.kind = "ok"
    PROVE  Moves(t, s, Saved(s, m), h) /\ Settles(m, s, Saved(s, m))
<1> DEFINE s2 == Saved(s, m)
           r == m.answer.revision
<1>1. r \in 1 .. Len(h) /\ Level(t, h, s.base, r) /\ m.waiting
  BY DEF Sound, Writes, RequestFounded, NoAnswer
<1>2. /\ s2.draft = s.draft /\ s2.gen = s.gen /\ s2.conflict = s.conflict
      /\ s2.base = Advance(s.base, r)
      /\ s2.save = IF m.gen # s.gen THEN s.save
                   ELSE IF s.version = m.version THEN "saved" ELSE "dirty"
  BY DEF Saved, TabSound, TabFields
<1> HIDE DEF s2
<1>3. /\ s2.base \in Nat
      /\ Level(t, h, s.base, s2.base) /\ Level(t, h, s2.base, s.base)
      /\ Foreign(t, s2.draft) = Foreign(t, h[s2.base].content)
  BY <1>1, <1>2, AdvanceDraft
<1>4. Founded(t, s2, h)
  BY <1>2, <1>3, MoveFounded
<1>5. Settles(m, s, s2)
  BY <1>1, <1>2 DEF Settles, Current
<1>6. s.gen <= s2.gen
  BY <1>2 DEF TabSound
<1> QED BY <1>3, <1>4, <1>5, <1>6 DEF Moves, s2

\* The conflict that an answer brings.
LEMMA RecoveredMoves ==
    ASSUME NEW t \in Tabs, NEW s, NEW h, HistorySound(h), TabSound(t, s, h), Founded(t, s, h),
           NEW a, a.content = h[a.revision].content, Level(t, h, a.revision, s.base)
    PROVE  Moves(t, s, Recovered(s, a), h) /\ Recovered(s, a).save # "saved"
<1> DEFINE s2 == Recovered(s, a)
<1>1. /\ s2.draft = s.draft /\ s2.gen = s.gen + 1 /\ s2.base = s.base /\ s2.save = "failed"
      /\ s2.conflict = [local |-> s.draft, server |-> a.content, revision |-> a.revision]
  BY DEF Recovered, TabSound, TabFields
<1> HIDE DEF s2
<1>2. Level(t, h, s.base, s.base) /\ s.gen <= s2.gen
  BY <1>1, LevelBack DEF TabSound
<1>3. Founded(t, s2, h)
  BY <1>1 DEF Founded
<1> QED BY <1>1, <1>2, <1>3 DEF Moves, s2

\* A save that came too late.
LEMMA SaveConflictsMoves ==
    ASSUME NEW t \in Tabs, NEW s, NEW h, HistorySound(h), TabSound(t, s, h), Founded(t, s, h),
           NEW m, Sound(m, s, h), RequestFounded(m, s, h), m.tab = t, m.kind = "save",
           m.answer.kind = "conflict"
    PROVE  Moves(t, s, SaveConflicts(s, m), h) /\ Settles(m, s, SaveConflicts(s, m))
<1> DEFINE s2 == SaveConflicts(s, m)
<1>1. CASE m.gen # s.gen
  <2>1. s2 = s /\ s.gen <= s.gen
    BY <1>1 DEF SaveConflicts, TabSound
  <2> HIDE DEF s2
  <2> QED BY <2>1, StayMoves DEF Settles, s2
<1>2. CASE m.gen = s.gen /\ s.persisted >= m.version
  <2>1. TabSound(t, s2, h)
    BY SaveConflictsSteps DEF Steps
  <2>2. /\ s2.draft = s.draft /\ s2.gen = s.gen /\ s2.base = s.base /\ s2.conflict = s.conflict
    BY <1>2 DEF SaveConflicts, TabSound, TabFields
  <2>3. Current(m, s) /\ s.gen <= s.gen
    BY <1>2 DEF Current, RequestFounded, NoAnswer, TabSound
  <2> HIDE DEF s2
  <2> QED BY <2>1, <2>2, <2>3, StayMoves DEF Settles, s2
<1>3. CASE m.gen = s.gen /\ ~(s.persisted >= m.version)
  <2>1. s2 = Recovered(s, m.answer)
    BY <1>3 DEF SaveConflicts
  <2>2. m.answer.content = h[m.answer.revision].content /\ Level(t, h, m.answer.revision, s.base)
    BY <1>3 DEF RequestFounded, Writes
  <2> HIDE DEF s2
  <2> QED BY <2>1, <2>2, RecoveredMoves DEF Settles, s2
<1> QED BY <1>1, <1>2, <1>3

\* What an answer's own revision says, also when the base is beyond it.
LEMMA AnswerDraft ==
    ASSUME NEW t \in Tabs, NEW s, NEW h, HistorySound(h), TabSound(t, s, h),
           NEW r \in 1 .. Len(h), Level(t, h, r, s.base)
    PROVE  Foreign(t, h[r].content) = Foreign(t, h[Advance(s.base, r)].content)
<1>1. s.base \in Nat /\ r \in Nat
  BY DEF TabSound, HistorySound
<1>2. Advance(s.base, r) \in {s.base, r} /\ Advance(s.base, r) >= r
  BY <1>1, MaxOfTwo DEF Advance
<1>3. CASE Advance(s.base, r) = s.base
  <2>1. s.base \in r .. s.base
    BY <1>1, <1>2, <1>3
  <2> QED BY <1>3, <2>1 DEF Level
<1> QED BY <1>2, <1>3

\* Proposals that were applied, to what was sent or also to what was typed since.
LEMMA AppliedToMoves ==
    ASSUME NEW t \in Tabs, NEW s, NEW h, HistorySound(h), TabSound(t, s, h), Founded(t, s, h),
           NEW m, Sound(m, s, h), RequestFounded(m, s, h), m.tab = t, m.kind = "apply",
           m.answer.kind = "ok"
    PROVE  Moves(t, s, AppliedTo(s, m), h) /\ Settles(m, s, AppliedTo(s, m))
<1> DEFINE s2 == AppliedTo(s, m)
           newer == s.version # m.version
           r == m.answer.revision
<1>1. CASE newer /\ ~Applies(m.proposals, s.draft)
  <2>1. s2 = s /\ s.gen <= s.gen
    BY <1>1 DEF AppliedTo, TabSound
  <2> HIDE DEF s2
  <2> QED BY <2>1, StayMoves DEF Settles, s2
<1>2. CASE ~newer \/ Applies(m.proposals, s.draft)
  <2>1. /\ r \in 1 .. Len(h) /\ Level(t, h, s.base, r) /\ Level(t, h, r, s.base)
        /\ m.answer.content = h[r].content
    BY DEF Sound, Writes, RequestFounded
  <2>2. /\ s2.gen = s.gen + 1 /\ s2.conflict = s.conflict /\ s2.base = Advance(s.base, r)
        /\ s2.draft = IF newer THEN Applied(m.proposals, s.draft) ELSE m.answer.content
    BY <1>2 DEF AppliedTo, TabSound, TabFields
  <2> HIDE DEF s2
  <2>3. /\ s2.base \in Nat
        /\ Level(t, h, s.base, s2.base) /\ Level(t, h, s2.base, s.base)
        /\ Foreign(t, s.draft) = Foreign(t, h[s2.base].content)
    BY <2>1, <2>2, AdvanceDraft
  <2>4. Foreign(t, m.answer.content) = Foreign(t, h[s2.base].content)
    BY <2>1, <2>2, AnswerDraft
  <2>5. Foreign(t, Applied(m.proposals, s.draft)) = Foreign(t, s.draft)
    BY ForeignKept
  <2>6. Founded(t, s2, h)
    BY <2>2, <2>3, <2>4, <2>5, MoveFounded
  <2>7. s.gen <= s2.gen /\ s2.gen > s.gen
    BY <2>2 DEF TabSound
  <2> QED BY <2>3, <2>6, <2>7 DEF Moves, Settles, s2
<1> QED BY <1>1, <1>2

\* A change that was undone.
LEMMA UndoneMoves ==
    ASSUME NEW t \in Tabs, NEW s, NEW h, HistorySound(h), TabSound(t, s, h), Founded(t, s, h),
           NEW m, Sound(m, s, h), RequestFounded(m, s, h), m.tab = t, m.kind = "undo",
           m.answer.kind = "ok"
    PROVE  Moves(t, s, Undone(s, m), h) /\ Settles(m, s, Undone(s, m))
<1> DEFINE s2 == Undone(s, m)
           r == m.answer.revision
<1>1. /\ r \in 1 .. Len(h) /\ Level(t, h, s.base, r) /\ Level(t, h, r, s.base)
      /\ m.answer.content = h[r].content
  BY DEF Sound, Writes, RequestFounded
<1>2. CASE s.version # m.version
  <2>1. /\ s2.draft = s.draft /\ s2.gen = s.gen /\ s2.base = s.base /\ s2.save = "failed"
        /\ s2.conflict = [local |-> s.draft, server |-> m.answer.content, revision |-> r]
    BY <1>2 DEF Undone, TabSound, TabFields
  <2> HIDE DEF s2
  <2>2. Level(t, h, s.base, s.base) /\ s.gen <= s2.gen
    BY <2>1, LevelBack DEF TabSound
  <2>3. Founded(t, s2, h)
    BY <1>1, <2>1 DEF Founded
  <2> QED BY <2>1, <2>2, <2>3 DEF Moves, Settles, s2
<1>3. CASE s.version = m.version
  <2>1. /\ s2.draft = m.answer.content /\ s2.gen = s.gen + 1 /\ s2.base = Advance(s.base, r)
        /\ s2.conflict = NoConflict
    BY <1>3 DEF Undone, TabSound, TabFields
  <2> HIDE DEF s2
  <2>2. /\ s2.base \in Nat
        /\ Level(t, h, s.base, s2.base) /\ Level(t, h, s2.base, s.base)
    BY <1>1, <2>1, AdvanceDraft
  <2>3. Foreign(t, s2.draft) = Foreign(t, h[s2.base].content)
    BY <1>1, <2>1, AnswerDraft
  <2>4. Founded(t, s2, h)
    BY <2>1, <2>2, <2>3, MoveFounded
  <2>5. s.gen <= s2.gen /\ s2.gen > s.gen
    BY <2>1 DEF TabSound
  <2> QED BY <2>2, <2>4, <2>5 DEF Moves, Settles, s2
<1> QED BY <1>2, <1>3

\* A readiness change.
LEMMA ReadinessMoves ==
    ASSUME NEW t \in Tabs, NEW s, NEW h, HistorySound(h), TabSound(t, s, h), Founded(t, s, h),
           NEW m, Sound(m, s, h), RequestFounded(m, s, h), m.tab = t, m.kind = "readiness"
    PROVE  Moves(t, s, ReadinessTaken(s, m), h) /\ Settles(m, s, ReadinessTaken(s, m))
<1> DEFINE s2 == ReadinessTaken(s, m)
           r == m.answer.revision
           follows == m.answer.kind = "ok" /\ m.expected = s.base /\ r = m.expected + 1
<1>1. /\ s2.draft = s.draft /\ s2.gen = s.gen /\ s2.conflict = s.conflict /\ s2.save = s.save
      /\ s2.base = IF follows THEN Advance(s.base, r) ELSE s.base
  BY DEF ReadinessTaken, TabSound, TabFields
<1> HIDE DEF s2
<1>2. s.gen <= s2.gen /\ s.base \in Nat
  BY <1>1 DEF TabSound
<1>3. CASE follows
  <2>1. r \in 2 .. Len(h) /\ h[r].content = h[r - 1].content /\ r - 1 = s.base
    BY <1>3, <1>2 DEF RequestFounded
  <2>2. \A k \in s.base .. r : k = s.base \/ k = r
    BY <1>2, <2>1
  <2>3. Level(t, h, s.base, r)
    BY <2>1, <2>2 DEF Level
  <2>4. r \in 1 .. Len(h)
    BY <2>1 DEF HistorySound
  <2>5. /\ s2.base \in Nat
        /\ Level(t, h, s.base, s2.base) /\ Level(t, h, s2.base, s.base)
        /\ Foreign(t, s2.draft) = Foreign(t, h[s2.base].content)
    BY <1>1, <1>3, <2>3, <2>4, AdvanceDraft
  <2>6. Founded(t, s2, h)
    BY <1>1, <2>5, MoveFounded
  <2> QED BY <1>1, <1>2, <2>5, <2>6 DEF Moves, Settles, s2
<1>4. CASE ~follows
  <2>1. s2.base = s.base
    BY <1>1, <1>4
  <2>2. Level(t, h, s.base, s.base)
    BY <1>2, LevelBack
  <2>3. Founded(t, s2, h)
    BY <1>1, <2>1 DEF Founded
  <2> QED BY <1>1, <1>2, <2>1, <2>2, <2>3 DEF Moves, Settles, s2
<1> QED BY <1>3, <1>4

\* What the invariant says of one tab and of one of its requests.
LEMMA FInvUses ==
    ASSUME IInv, FInv, NEW m \in requests
    PROVE  /\ m.tab \in Tabs /\ HistorySound(history)
           /\ Sound(m, tab[m.tab], history) /\ TabSound(m.tab, tab[m.tab], history)
           /\ RequestFounded(m, tab[m.tab], history) /\ Founded(m.tab, tab[m.tab], history)
BY OldRequests DEF IInv, FInv

\* The base stays or moves among equals; new requests are no saves.
LEMMA MovesStep ==
    ASSUME IInv, FInv, NEW t \in Tabs, NEW s2, Becomes(t, s2), UNCHANGED <<history, changes>>,
           TabSound(t, s2, history), Moves(t, tab[t], s2, history),
           \A m \in requests' : m.tab \in Tabs,
           \A m \in requests' \cap requests : m.tab = t /\ Current(m, s2) => s2.save # "saved",
           \A m \in requests' \ requests :
             ~Current(m, tab'[m.tab]) /\ RequestFounded(m, tab'[m.tab], history)
    PROVE  FInv'
<1>1. OneSave(requests', tab')
  BY OneSaveKept DEF Moves
<1>2. /\ Founded(t, s2, history) /\ tab[t].gen <= s2.gen
      /\ Level(t, history, s2.base, tab[t].base) /\ Level(t, history, tab[t].base, s2.base)
  BY DEF Moves
<1> QED BY <1>1, <1>2, FoundedTabStep

\* The editor stays saved only if it was, so a current save is not under way.
LEMMA StillSettled ==
    ASSUME IInv, FInv, NEW t \in Tabs, NEW s2, TabSound(t, s2, history),
           s2.save = "saved" => tab[t].save = "saved" \/ s2.gen > tab[t].gen,
           tab[t].gen <= s2.gen,
           NEW m \in requests, m.tab = t, Current(m, s2)
    PROVE  s2.save # "saved"
<1>1. Sound(m, tab[t], history) /\ RequestFounded(m, tab[t], history) /\ TabSound(t, tab[t], history)
  BY FInvUses
<1>2. m.gen = s2.gen /\ m.gen <= tab[t].gen /\ m.gen \in Nat /\ tab[t].gen \in Nat
  BY <1>1 DEF Sound, Current, TabSound
<1>3. s2.gen = tab[t].gen /\ Current(m, tab[t])
  BY <1>2 DEF Current
<1> QED BY <1>1, <1>2, <1>3 DEF RequestFounded

\* Fields on which nothing depends here change, and requests are sent that are founded.
LEMMA QuietFounded ==
    ASSUME IInv, FInv, NEW t \in Tabs, NEW s2, Becomes(t, s2), UNCHANGED <<history, changes>>,
           DOMAIN s2 = TabFields,
           \A f \in TabFields \ {"clicks", "mutating", "workflow", "copy", "key", "keys", "left"} :
             s2[f] = tab[t][f],
           \A m \in requests' : m.tab \in Tabs,
           \A m \in requests' \ requests :
             ~Current(m, tab'[m.tab]) /\ RequestFounded(m, tab'[m.tab], history)
    PROVE  FInv'
<1>1. TabSound(t, tab[t], history) /\ Founded(t, tab[t], history)
  BY DEF IInv, FInv
<1>2. TabSound(t, s2, history)
  BY <1>1, QuietSteps DEF Steps
<1>3. /\ s2.base = tab[t].base /\ s2.draft = tab[t].draft /\ s2.conflict = tab[t].conflict
      /\ s2.gen = tab[t].gen /\ s2.save = tab[t].save
  BY DEF TabFields
<1>4. tab[t].gen <= s2.gen
  BY <1>1, <1>3 DEF TabSound
<1>5. Moves(t, tab[t], s2, history)
  BY <1>1, <1>2, <1>3, <1>4, StayMoves
<1>6. \A m \in requests' \cap requests : m.tab = t /\ Current(m, s2) => s2.save # "saved"
  BY <1>2, <1>3, <1>4, StillSettled
<1> QED BY <1>2, <1>5, <1>6, MovesStep

\* The steps of the user and of the timers, one by one.
LEMMA TypeFounded ==
    ASSUME IInv, FInv, NEW t \in Tabs, Type(t)
    PROVE  FInv'
<1> DEFINE s == tab[t]
<1>1. PICK over \in SUBSET Proposals :
        LET text == (s.draft \ Target(over)) \cup {<<t, s.edits + 1>>} IN
        Becomes(t, [s EXCEPT !.version = @ + 1, !.edits = @ + 1, !.draft = text, !.save = "dirty",
            !.conflict = IF HasConflict(t) THEN [@ EXCEPT !.local = text] ELSE @])
  BY DEF Type
<1> DEFINE text == (s.draft \ Target(over)) \cup {<<t, s.edits + 1>>}
           s2 == [s EXCEPT !.version = @ + 1, !.edits = @ + 1, !.draft = text, !.save = "dirty",
                    !.conflict = IF HasConflict(t) THEN [@ EXCEPT !.local = text] ELSE @]
<1>2. TabSound(t, s, history) /\ Founded(t, s, history)
  BY DEF IInv, FInv
<1>3. /\ DOMAIN s2 = TabFields
      /\ s2.draft = text /\ s2.version = s.version + 1 /\ s2.gen = s.gen
      /\ s2.persisted = s.persisted /\ s2.base = s.base /\ s2.save = "dirty"
      /\ DOMAIN s2.conflict = DOMAIN s.conflict
      /\ s2.conflict.server = s.conflict.server /\ s2.conflict.revision = s.conflict.revision
      /\ HasConflict(t) \/ s2.conflict = s.conflict
  BY <1>2 DEF TabSound, TabFields
<1>4. Becomes(t, s2) /\ UNCHANGED <<history, changes, requests>>
  BY <1>1 DEF Type, serverVars
<1>5. Foreign(t, text) = Foreign(t, s.draft)
  BY MarksApart DEF Foreign, Target
<1> HIDE DEF s2, text
<1>6. TabSound(t, s2, history)
  BY <1>2, <1>3 DEF TabSound, HasConflict
<1>7. Founded(t, s2, history)
  BY <1>2, <1>3, <1>5 DEF Founded, HasConflict
<1>8. Level(t, history, s2.base, s.base) /\ Level(t, history, s.base, s2.base) /\ s.gen <= s2.gen
  BY <1>2, <1>3, LevelBack DEF TabSound
<1>9. Moves(t, s, s2, history)
  BY <1>7, <1>8 DEF Moves
<1>10. \A m \in requests' : m.tab \in Tabs /\ m \in requests
  BY <1>4 DEF IInv
<1> HIDE DEF s
<1> QED BY <1>3, <1>4, <1>6, <1>9, <1>10, MovesStep DEF s

\* A save says what its base is.
LEMMA SaveFounded ==
    ASSUME IInv, FInv, NEW t \in Tabs, NEW clicks, SaveDraft(t, clicks)
    PROVE  FInv'
<1> DEFINE s == tab[t]
           s2 == [s EXCEPT !.gen = @ + 1, !.save = "saving", !.clicks = @ + clicks]
           m == Request(t, s2, "save")
<1>1. TabSound(t, s, history) /\ Founded(t, s, history)
  BY DEF IInv, FInv
<1>2. Becomes(t, s2) /\ requests' = requests \cup {m} /\ UNCHANGED <<history, changes>>
  BY DEF SaveDraft, Send, serverVars
<1>3. /\ DOMAIN s2 = TabFields
      /\ s2.draft = s.draft /\ s2.version = s.version /\ s2.gen = s.gen + 1
      /\ s2.persisted = s.persisted /\ s2.base = s.base /\ s2.conflict = s.conflict
      /\ s2.save = "saving"
  BY <1>1 DEF TabSound, TabFields
<1>4. /\ m.tab = t /\ m.kind = "save" /\ m.sent = s2.draft /\ m.expected = s2.base
      /\ m.gen = s2.gen /\ m.answer = NoAnswer
  BY DEF Request
<1> HIDE DEF s2, m
<1>5. TabSound(t, s2, history)
  BY <1>1, <1>3 DEF TabSound
<1>6. s.gen <= s2.gen /\ s.gen \in Nat
  BY <1>1, <1>3 DEF TabSound
<1>7. Moves(t, s, s2, history)
  BY <1>1, <1>3, <1>5, <1>6, StayMoves
<1>8. DOMAIN tab = Tabs /\ tab' = [tab EXCEPT ![t] = s2] /\ tab'[t] = s2
  BY <1>2 DEF IInv, Becomes
<1>9. RequestFounded(m, s2, history)
  <2>1. Level(t, history, s2.base, s2.base) /\ s2.base \in 1 .. Len(history)
    BY <1>5, LevelBack DEF TabSound
  <2> QED BY <1>1, <1>3, <1>4, <2>1 DEF RequestFounded, Founded, Writes, NoAnswer, Current
<1>10. ASSUME NEW n \in requests, n.tab = t PROVE ~Current(n, s2)
  <2>1. n.gen \in Nat /\ n.gen <= s.gen
    BY <1>10, FInvUses DEF Sound
  <2> QED BY <1>3, <1>6, <2>1 DEF Current
<1>11. OneSave(requests', tab')
  <2>1. ASSUME NEW a \in requests', NEW b \in requests', a.tab = b.tab,
               Current(a, tab'[a.tab]), Current(b, tab'[b.tab])
        PROVE  a = b
    <3>1. CASE a.tab = t
      BY <1>2, <1>8, <1>10, <2>1, <3>1
    <3>2. CASE a.tab # t
      <4>1. a \in requests /\ b \in requests /\ a.tab \in Tabs
        BY <1>2, <1>4, <2>1, <3>2 DEF IInv
      <4>2. tab'[a.tab] = tab[a.tab]
        BY <1>8, <3>2, <4>1
      <4> QED BY <2>1, <4>1, <4>2 DEF FInv, OneSave
    <3> QED BY <3>1, <3>2
  <2> QED BY <2>1 DEF OneSave
<1>12. \A n \in requests' : n.tab \in Tabs
  BY <1>2, <1>4 DEF IInv
<1>13. \A n \in requests' \ requests : RequestFounded(n, tab'[n.tab], history)
  BY <1>2, <1>4, <1>8, <1>9
<1> HIDE DEF s
<1> QED BY <1>2, <1>3, <1>5, <1>7, <1>11, <1>12, <1>13, FoundedTabStep DEF Moves, s

\* A click sends one request.
LEMMA ClickFounded ==
    ASSUME IInv, FInv, NEW t \in Tabs, NEW s2, NEW m, Becomes(t, s2), Send(m),
           UNCHANGED <<history, changes>>,
           DOMAIN s2 = TabFields,
           \A f \in TabFields \ {"clicks", "mutating", "workflow", "copy", "key", "keys", "left"} :
             s2[f] = tab[t][f],
           m.tab = t, m.answer = NoAnswer, m.kind # "save",
           m.kind \in Writes => m.expected = tab[t].base,
           m.kind = "apply" => m.sent = tab[t].draft
    PROVE  FInv'
<1>1. TabSound(t, tab[t], history) /\ Founded(t, tab[t], history) /\ DOMAIN tab = Tabs
  BY DEF IInv, FInv
<1>2. tab'[t] = s2 /\ s2.base = tab[t].base
  BY <1>1 DEF Becomes, TabFields
<1>3. Level(t, history, s2.base, s2.base) /\ s2.base \in 1 .. Len(history)
  BY <1>1, <1>2, LevelBack DEF TabSound
<1>4. RequestFounded(m, s2, history) /\ ~Current(m, s2)
  BY <1>1, <1>2, <1>3 DEF RequestFounded, Founded, Writes, NoAnswer, Current
<1>5. requests' = requests \cup {m}
  BY DEF Send
<1>6. \A n \in requests' : n.tab \in Tabs
  BY <1>5 DEF IInv
<1>7. \A n \in requests' \ requests :
        ~Current(n, tab'[n.tab]) /\ RequestFounded(n, tab'[n.tab], history)
  BY <1>2, <1>4, <1>5
<1> QED BY <1>6, <1>7, QuietFounded

\* So does an apply.
LEMMA AcceptFounded ==
    ASSUME IInv, FInv, NEW t \in Tabs, AcceptProposals(t)
    PROVE  FInv'
<1> DEFINE s2 == [tab[t] EXCEPT !.clicks = @ + 1]
<1>1. TabSound(t, tab[t], history)
  BY DEF IInv
<1>2. PICK ps \in SUBSET Proposals \ {{}} :
        Send([Request(t, tab[t], "apply") EXCEPT
                !.proposals = ps, !.gen = 0, !.key = tab[t].clicks])
  BY DEF AcceptProposals
<1> DEFINE m == [Request(t, tab[t], "apply") EXCEPT
                   !.proposals = ps, !.gen = 0, !.key = tab[t].clicks]
<1>3. /\ DOMAIN s2 = TabFields
      /\ \A f \in TabFields \ {"clicks", "mutating", "workflow", "copy", "key", "keys", "left"} :
           s2[f] = tab[t][f]
  BY <1>1 DEF TabSound, TabFields
<1>4. /\ m.tab = t /\ m.kind = "apply" /\ m.sent = tab[t].draft
      /\ m.expected = tab[t].base /\ m.answer = NoAnswer
  BY DEF Request
<1>5. Becomes(t, s2) /\ UNCHANGED <<history, changes>>
  BY DEF AcceptProposals, serverVars
<1> HIDE DEF s2, m
<1>6. Send(m)
  BY <1>2 DEF m
<1> QED BY <1>3, <1>4, <1>5, <1>6, ClickFounded

\* And an undo.
LEMMA UndoFounded ==
    ASSUME IInv, FInv, NEW t \in Tabs, UndoChange(t)
    PROVE  FInv'
<1> DEFINE s2 == [tab[t] EXCEPT !.clicks = @ + 1]
           m == [Request(t, tab[t], "undo") EXCEPT !.sent = {}, !.gen = 0, !.key = tab[t].clicks]
<1>1. TabSound(t, tab[t], history)
  BY DEF IInv
<1>2. Becomes(t, s2) /\ Send(m) /\ UNCHANGED <<history, changes>>
  BY DEF UndoChange, serverVars
<1>3. /\ DOMAIN s2 = TabFields
      /\ \A f \in TabFields \ {"clicks", "mutating", "workflow", "copy", "key", "keys", "left"} :
           s2[f] = tab[t][f]
  BY <1>1 DEF TabSound, TabFields
<1>4. m.tab = t /\ m.kind = "undo" /\ m.expected = tab[t].base /\ m.answer = NoAnswer
  BY DEF Request
<1> HIDE DEF s2, m
<1> QED BY <1>2, <1>3, <1>4, ClickFounded

\* A readiness change sends no content.
LEMMA ReadinessFounded ==
    ASSUME IInv, FInv, NEW t \in Tabs, ChangeReadiness(t)
    PROVE  FInv'
<1> DEFINE s2 == [tab[t] EXCEPT !.mutating = TRUE, !.clicks = @ + 1]
           m == [ReadRequest(t, tab[t]) EXCEPT !.kind = "readiness",
                  !.readiness = tab[t].workflow.readiness, !.expected = tab[t].workflow.revision]
<1>1. TabSound(t, tab[t], history)
  BY DEF IInv
<1>2. Becomes(t, s2) /\ Send(m) /\ UNCHANGED <<history, changes>>
  BY DEF ChangeReadiness, serverVars
<1>3. /\ DOMAIN s2 = TabFields
      /\ \A f \in TabFields \ {"clicks", "mutating", "workflow", "copy", "key", "keys", "left"} :
           s2[f] = tab[t][f]
  BY <1>1 DEF TabSound, TabFields
<1>4. m.tab = t /\ m.kind = "readiness" /\ m.answer = NoAnswer
  BY DEF ReadRequest, Request
<1>5. m.kind \notin Writes
  BY <1>4 DEF Writes
<1> HIDE DEF s2, m
<1> QED BY <1>2, <1>3, <1>4, <1>5, ClickFounded

\* A read is founded whatever the editor is.
LEMMA ReadFounded ==
    ASSUME NEW t, NEW s, NEW s2, NEW h, NEW m, m = ReadRequest(t, s)
    PROVE  m.tab = t /\ ~Current(m, s2) /\ RequestFounded(m, s2, h)
<1>1. m.tab = t /\ m.kind = "read" /\ m.answer = NoAnswer
  BY DEF ReadRequest, Request
<1> QED BY <1>1 DEF RequestFounded, Current, Writes, NoAnswer

\* Nor does a read.
LEMMA RefreshFounded ==
    ASSUME IInv, FInv, NEW t \in Tabs, RefreshWorkflow(t)
    PROVE  FInv'
<1>1. PICK m : m = ReadRequest(t, tab[t]) /\ requests' = requests \cup {m}
  BY DEF RefreshWorkflow, Send
<1>2. UNCHANGED <<tab, history, changes>>
  BY DEF RefreshWorkflow, serverVars
<1>3. m.tab = t /\ ~Current(m, tab[t]) /\ RequestFounded(m, tab[t], history)
  BY <1>1, ReadFounded
<1>4. OneSave(requests', tab')
  BY <1>1, <1>2, <1>3 DEF OneSave, FInv
<1> QED BY <1>1, <1>2, <1>3, <1>4 DEF FInv

\* A newer page replaces draft and base together, while no command is on its way.
LEMMA SnapshotFounded ==
    ASSUME IInv, FInv, NEW t \in Tabs, SameDocumentSnapshot(t), ~DraftReplacedDuringCommands
    PROVE  FInv'
<1> DEFINE s == tab[t]
<1>1. TabSound(t, s, history) /\ HistorySound(history)
  BY DEF IInv
<1>2. PICK r \in s.base .. Revision :
        Becomes(t, [s EXCEPT !.draft = history[r].content, !.base = r,
            !.persisted = s.version, !.conflict = NoConflict, !.copy = NoCopy, !.key = 0])
  BY DEF SameDocumentSnapshot
<1> DEFINE s2 == [s EXCEPT !.draft = history[r].content, !.base = r,
                    !.persisted = s.version, !.conflict = NoConflict, !.copy = NoCopy, !.key = 0]
<1>3. s.save = "saved" /\ ~Commanding(t) /\ UNCHANGED <<history, changes, requests>>
  BY DEF SameDocumentSnapshot, serverVars, Replaceable
<1>4. /\ DOMAIN s2 = TabFields
      /\ s2.draft = history[r].content /\ s2.version = s.version /\ s2.gen = s.gen
      /\ s2.persisted = s.version /\ s2.base = r /\ s2.conflict = NoConflict
      /\ s2.save = s.save
  BY <1>1 DEF TabSound, TabFields
<1>5. Becomes(t, s2)
  BY <1>2
<1> HIDE DEF s2
<1>6. r \in 1 .. Revision /\ history[r].content \subseteq Held(history)
  <2>1. r \in 1 .. Revision
    BY <1>1 DEF TabSound, Revision, HistorySound
  <2> QED BY <1>1, <2>1, DocumentHeld
<1>7. TabSound(t, s2, history)
  BY <1>1, <1>3, <1>4, <1>6 DEF TabSound, Own, NoConflict, Revision
<1>8. Founded(t, s2, history)
  BY <1>4 DEF Founded
<1>9. Level(t, history, s2.base, s.base) /\ s.gen <= s2.gen
  <2>1. s.base \in Nat /\ r \in Nat /\ s.base <= r
    BY <1>1, <1>6 DEF TabSound, Revision
  <2> QED BY <1>1, <1>4, <2>1, LevelBack DEF TabSound
<1>10. ASSUME NEW m \in requests, m.tab = t
       PROVE  ~Current(m, s2) /\ ~(m.waiting /\ m.kind \in {"apply", "undo"})
  <2>1. ~Current(m, s)
    BY <1>3, <1>10, FInvUses DEF RequestFounded
  <2>2. ~Current(m, s2)
    BY <1>4, <2>1 DEF Current
  <2> QED BY <1>3, <1>10, <2>2 DEF Commanding, Waiting
<1>11. \A m \in requests' : m.tab \in Tabs /\ m \in requests
  BY <1>3 DEF IInv
<1> HIDE DEF s
<1>12. OneSave(requests', tab')
  BY <1>5, <1>7, <1>9, <1>11, OneSaveKept DEF s
<1> QED BY <1>3, <1>5, <1>7, <1>8, <1>9, <1>10, <1>11, <1>12, FoundedTabStep DEF s

\* So does the server's version, which the conflict names.
LEMMA LoadFounded ==
    ASSUME IInv, FInv, NEW t \in Tabs, LoadServerVersion(t), ~DraftReplacedDuringCommands
    PROVE  FInv'
<1> DEFINE s == tab[t]
           s2 == [s EXCEPT !.gen = @ + 1, !.version = @ + 1, !.persisted = s.version + 1,
                    !.draft = s.conflict.server, !.base = s.conflict.revision,
                    !.conflict = NoConflict, !.copy = NoCopy, !.key = 0, !.save = "saved"]
<1>1. TabSound(t, s, history) /\ Founded(t, s, history)
  BY DEF IInv, FInv
<1>2. /\ Becomes(t, s2) /\ HasConflict(t) /\ ~Commanding(t)
      /\ UNCHANGED <<history, changes, requests>>
  BY DEF LoadServerVersion, serverVars, Replaceable
<1>3. /\ DOMAIN s2 = TabFields
      /\ s2.draft = s.conflict.server /\ s2.version = s.version + 1 /\ s2.gen = s.gen + 1
      /\ s2.persisted = s.version + 1 /\ s2.base = s.conflict.revision
      /\ s2.conflict = NoConflict /\ s2.save = "saved"
  BY <1>1 DEF TabSound, TabFields
<1> HIDE DEF s2
<1>4. TabSound(t, s2, history)
  BY <1>1, <1>2, <1>3 DEF TabSound, HasConflict, Own, NoConflict
<1>5. Founded(t, s2, history) /\ Level(t, history, s2.base, s.base)
  BY <1>1, <1>2, <1>3 DEF Founded, HasConflict
<1>6. s.gen <= s2.gen /\ s.gen \in Nat
  BY <1>1, <1>3 DEF TabSound
<1>7. ASSUME NEW m \in requests, m.tab = t
      PROVE  ~Current(m, s2) /\ ~(m.waiting /\ m.kind \in {"apply", "undo"})
  <2>1. m.gen \in Nat /\ m.gen <= s.gen
    BY <1>7, FInvUses DEF Sound
  <2>2. ~Current(m, s2)
    BY <1>3, <1>6, <2>1 DEF Current
  <2> QED BY <1>2, <1>7, <2>2 DEF Commanding, Waiting
<1>8. \A m \in requests' : m.tab \in Tabs /\ m \in requests
  BY <1>2 DEF IInv
<1> HIDE DEF s
<1>9. OneSave(requests', tab')
  BY <1>2, <1>4, <1>6, <1>8, OneSaveKept DEF s
<1> QED BY <1>2, <1>4, <1>5, <1>6, <1>7, <1>8, <1>9, FoundedTabStep DEF s

\* A recovery copy is no revision of the document.
LEMMA SaveAsNewFounded ==
    ASSUME IInv, FInv, NEW t \in Tabs, SaveAsNew(t)
    PROVE  FInv'
<1> DEFINE s == tab[t]
           key == IF s.key # 0 THEN s.key ELSE s.keys + 1
           m == [Request(t, s, "create") EXCEPT !.sent = s.conflict.local, !.gen = 0, !.expected = 0]
           made == [s EXCEPT !.key = key, !.keys = Max({@, key}), !.clicks = @ + 1]
           again == [s EXCEPT !.clicks = @ + 1]
           create == [m EXCEPT !.key = key]
           copy == [m EXCEPT !.kind = "copy", !.key = s.copy.key, !.expected = s.copy.revision]
<1>1. TabSound(t, s, history)
  BY DEF IInv
<1>2. /\ UNCHANGED <<history, changes>>
      /\ (Becomes(t, made) /\ Send(create)) \/ (Becomes(t, again) /\ Send(copy))
  BY DEF SaveAsNew, serverVars
<1>3. /\ DOMAIN made = TabFields
      /\ \A f \in TabFields \ {"clicks", "mutating", "workflow", "copy", "key", "keys", "left"} :
           made[f] = tab[t][f]
  BY <1>1 DEF TabSound, TabFields
<1>4. /\ DOMAIN again = TabFields
      /\ \A f \in TabFields \ {"clicks", "mutating", "workflow", "copy", "key", "keys", "left"} :
           again[f] = tab[t][f]
  BY <1>1 DEF TabSound, TabFields
<1>5. create.tab = t /\ create.kind = "create" /\ create.answer = NoAnswer
  BY DEF Request
<1>6. copy.tab = t /\ copy.kind = "copy" /\ copy.answer = NoAnswer
  BY DEF Request
<1>7. create.kind \notin Writes /\ copy.kind \notin Writes
  BY <1>5, <1>6 DEF Writes
<1> HIDE DEF made, again, create, copy
<1>8. CASE Becomes(t, made) /\ Send(create)
  BY <1>2, <1>3, <1>5, <1>7, <1>8, ClickFounded
<1>9. CASE Becomes(t, again) /\ Send(copy)
  BY <1>2, <1>4, <1>6, <1>7, <1>9, ClickFounded
<1> QED BY <1>2, <1>8, <1>9

\* An answer is taken; the tab may ask something that is no save.
LEMMA TakeFounded ==
    ASSUME IInv, FInv, NEW m \in requests, NEW s2, Becomes(m.tab, s2),
           m \notin requests', UNCHANGED <<history, changes>>,
           TabSound(m.tab, s2, history), Moves(m.tab, tab[m.tab], s2, history),
           Settles(m, tab[m.tab], s2),
           \A n \in requests' \ requests :
             n.tab = m.tab /\ ~Current(n, s2) /\ RequestFounded(n, s2, history)
    PROVE  FInv'
<1> DEFINE t == m.tab
           s == tab[m.tab]
<1>1. t \in Tabs /\ TabSound(t, s, history) /\ DOMAIN tab = Tabs
  BY FInvUses DEF IInv
<1>2. tab'[t] = s2 /\ s.gen <= s2.gen /\ s.gen \in Nat /\ s2.gen \in Nat
  BY <1>1 DEF Becomes, Moves, TabSound
<1>3. ASSUME NEW n \in requests' \cap requests, n.tab = t, Current(n, s2)
      PROVE  s2.save # "saved"
  <2>1. n.gen \in Nat /\ n.gen <= s.gen /\ RequestFounded(n, s, history)
    BY <1>3, FInvUses DEF Sound
  <2>2. Current(n, s) /\ s2.gen = s.gen
    BY <1>2, <1>3, <2>1 DEF Current
  <2>3. ~Current(m, s)
    BY <1>3, <2>2 DEF FInv, OneSave
  <2> QED BY <1>2, <2>1, <2>2, <2>3 DEF Settles, RequestFounded
<1>4. \A n \in requests' : n.tab \in Tabs
  BY <1>1 DEF IInv
<1>5. \A n \in requests' \ requests :
        ~Current(n, tab'[n.tab]) /\ RequestFounded(n, tab'[n.tab], history)
  BY <1>2
<1> HIDE DEF t, s
<1> QED BY <1>1, <1>3, <1>4, <1>5, MovesStep DEF t, s

\* An answer is taken and nothing else is asked.
LEMMA TakeOnlyFounded ==
    ASSUME IInv, FInv, NEW m \in requests, NEW s2, Take(m, s2), UNCHANGED <<history, changes>>,
           TabSound(m.tab, s2, history), Moves(m.tab, tab[m.tab], s2, history),
           Settles(m, tab[m.tab], s2)
    PROVE  FInv'
<1>1. Becomes(m.tab, s2) /\ requests' = requests \ {m}
  BY DEF Take
<1> QED BY <1>1, TakeFounded

\* The answers, kind by kind.
LEMMA TakeSaveFounded ==
    ASSUME IInv, FInv, NEW m \in requests, TakeSave(m), UNCHANGED <<history, changes>>
    PROVE  FInv'
<1> DEFINE s == tab[m.tab]
<1>1. /\ m.tab \in Tabs /\ Sound(m, s, history) /\ TabSound(m.tab, s, history)
      /\ HistorySound(history) /\ RequestFounded(m, s, history) /\ Founded(m.tab, s, history)
  BY FInvUses
<1>2. m.kind = "save"
  BY DEF TakeSave
<1>3. CASE m.answer.kind = "ok" /\ Take(m, Saved(s, m))
  <2>1. TabSound(m.tab, Saved(s, m), history)
    BY <1>1, <1>2, <1>3, SavedSteps DEF Steps
  <2> QED BY <1>1, <1>2, <1>3, <2>1, SavedMoves, TakeOnlyFounded
<1>4. CASE m.answer.kind = "conflict" /\ Take(m, SaveConflicts(s, m))
  <2>1. TabSound(m.tab, SaveConflicts(s, m), history)
    BY <1>1, <1>2, <1>4, SaveConflictsSteps DEF Steps
  <2> QED BY <1>1, <1>2, <1>4, <2>1, SaveConflictsMoves, TakeOnlyFounded
<1>5. CASE m.answer.kind = "refused" /\ Take(m, NotSaved(s, m))
  <2>1. TabSound(m.tab, NotSaved(s, m), history)
    BY <1>1, NotSavedSteps DEF Steps
  <2>2. /\ \A f \in TabFields \ {"save"} : NotSaved(s, m)[f] = s[f]
        /\ NotSaved(s, m).save \in {s.save, "failed", "dirty"}
    BY <1>1 DEF NotSaved, TabSound, TabFields
  <2>3. /\ NotSaved(s, m).base = s.base /\ NotSaved(s, m).draft = s.draft
        /\ NotSaved(s, m).conflict = s.conflict /\ NotSaved(s, m).gen = s.gen
    BY <2>2 DEF TabFields
  <2>4. s.gen <= NotSaved(s, m).gen
    BY <1>1, <2>3 DEF TabSound
  <2>5. Moves(m.tab, s, NotSaved(s, m), history)
    BY <1>1, <2>1, <2>3, <2>4, StayMoves
  <2>6. Settles(m, s, NotSaved(s, m))
    BY <2>2 DEF Settles
  <2> QED BY <1>5, <2>1, <2>5, <2>6, TakeOnlyFounded
<1> QED BY <1>3, <1>4, <1>5 DEF TakeSave

\* An apply or an undo that is refused, or in conflict.
LEMMA CommandNotDoneFounded ==
    ASSUME IInv, FInv, NEW m \in requests, UNCHANGED <<history, changes>>,
           m.kind \in {"apply", "undo"},
           \/ m.answer.kind = "conflict" /\ Take(m, Recovered(tab[m.tab], m.answer))
           \/ Take(m, tab[m.tab])
    PROVE  FInv'
<1> DEFINE s == tab[m.tab]
<1>1. /\ m.tab \in Tabs /\ Sound(m, s, history) /\ TabSound(m.tab, s, history)
      /\ HistorySound(history) /\ RequestFounded(m, s, history) /\ Founded(m.tab, s, history)
  BY FInvUses
<1>2. CASE m.answer.kind = "conflict" /\ Take(m, Recovered(s, m.answer))
  <2>1. m.answer.content \subseteq Held(history) /\ m.answer.revision \in 1 .. Len(history)
    BY <1>1, <1>2 DEF Sound, Writes
  <2>2. TabSound(m.tab, Recovered(s, m.answer), history)
    BY <1>1, <2>1, RecoveredSteps DEF Steps
  <2>3. /\ m.answer.content = history[m.answer.revision].content
        /\ Level(m.tab, history, m.answer.revision, s.base)
    BY <1>1, <1>2 DEF RequestFounded, Writes
  <2>4. /\ Moves(m.tab, s, Recovered(s, m.answer), history)
        /\ Recovered(s, m.answer).save # "saved"
    BY <1>1, <2>3, RecoveredMoves
  <2>5. Settles(m, s, Recovered(s, m.answer))
    BY <2>4 DEF Settles
  <2> QED BY <1>2, <2>2, <2>4, <2>5, TakeOnlyFounded
<1>3. CASE Take(m, s)
  <2>1. s.gen <= s.gen
    BY <1>1 DEF TabSound
  <2>2. Moves(m.tab, s, s, history) /\ Settles(m, s, s)
    BY <1>1, <2>1, StayMoves DEF Settles
  <2> QED BY <1>1, <1>3, <2>2, TakeOnlyFounded
<1> QED BY <1>2, <1>3

\* An apply's answer.
LEMMA TakeApplyFounded ==
    ASSUME IInv, FInv, NEW m \in requests, TakeApply(m), UNCHANGED <<history, changes>>
    PROVE  FInv'
<1> DEFINE s == tab[m.tab]
<1>1. /\ m.tab \in Tabs /\ Sound(m, s, history) /\ TabSound(m.tab, s, history)
      /\ HistorySound(history) /\ RequestFounded(m, s, history) /\ Founded(m.tab, s, history)
  BY FInvUses
<1>2. m.kind = "apply"
  BY DEF TakeApply
<1>3. CASE m.answer.kind = "ok" /\ Take(m, AppliedTo(s, m))
  <2>1. TabSound(m.tab, AppliedTo(s, m), history)
    BY <1>1, <1>2, <1>3, AppliedToSteps DEF Steps
  <2> QED BY <1>1, <1>2, <1>3, <2>1, AppliedToMoves, TakeOnlyFounded
<1>4. CASE \/ m.answer.kind = "conflict" /\ Take(m, Recovered(s, m.answer))
           \/ Take(m, s)
  BY <1>2, <1>4, CommandNotDoneFounded
<1> QED BY <1>3, <1>4 DEF TakeApply

\* An undo's answer.
LEMMA TakeUndoFounded ==
    ASSUME IInv, FInv, NEW m \in requests, TakeUndo(m), UNCHANGED <<history, changes>>
    PROVE  FInv'
<1> DEFINE s == tab[m.tab]
<1>1. /\ m.tab \in Tabs /\ Sound(m, s, history) /\ TabSound(m.tab, s, history)
      /\ HistorySound(history) /\ RequestFounded(m, s, history) /\ Founded(m.tab, s, history)
  BY FInvUses
<1>2. m.kind = "undo"
  BY DEF TakeUndo
<1>3. CASE m.answer.kind = "ok" /\ Take(m, Undone(s, m))
  <2>1. TabSound(m.tab, Undone(s, m), history)
    BY <1>1, <1>2, <1>3, UndoneSteps DEF Steps
  <2> QED BY <1>1, <1>2, <1>3, <2>1, UndoneMoves, TakeOnlyFounded
<1>4. CASE \/ m.answer.kind = "conflict" /\ Take(m, Recovered(s, m.answer))
           \/ Take(m, s)
  BY <1>2, <1>4, CommandNotDoneFounded
<1> QED BY <1>3, <1>4 DEF TakeUndo

\* A readiness change's answer, after which the workflow is read.
LEMMA TakeReadinessFounded ==
    ASSUME IInv, FInv, NEW m \in requests, TakeReadiness(m), UNCHANGED <<history, changes>>,
           m.answer # NoAnswer
    PROVE  FInv'
<1> DEFINE s == tab[m.tab]
           s2 == IF m.answer.kind = "refused" THEN s ELSE ReadinessTaken(s, m)
           read == ReadRequest(m.tab, s)
<1>1. /\ m.tab \in Tabs /\ Sound(m, s, history) /\ TabSound(m.tab, s, history)
      /\ HistorySound(history) /\ RequestFounded(m, s, history) /\ Founded(m.tab, s, history)
  BY FInvUses
<1>2. /\ m.kind = "readiness" /\ Becomes(m.tab, s2)
      /\ requests' = (requests \ {m}) \cup {read}
  BY DEF TakeReadiness, TakeAndSend
<1>3. m.answer.kind \in {"ok", "conflict", "refused"}
  BY <1>1, <1>2 DEF Sound
<1>4. TabSound(m.tab, s2, history)
  BY <1>1, <1>2, <1>3, ReadinessSteps DEF Steps
<1>5. Moves(m.tab, s, s2, history) /\ Settles(m, s, s2)
  <2>1. s.gen <= s.gen
    BY <1>1 DEF TabSound
  <2>2. Moves(m.tab, s, s, history) /\ Settles(m, s, s)
    BY <1>1, <2>1, StayMoves DEF Settles
  <2>3. Moves(m.tab, s, ReadinessTaken(s, m), history) /\ Settles(m, s, ReadinessTaken(s, m))
    BY <1>1, <1>2, ReadinessMoves
  <2> QED BY <2>2, <2>3
<1>6. /\ read.tab = m.tab /\ read.kind = "read"
      /\ ~Current(read, s2) /\ RequestFounded(read, s2, history)
  <2>1. read.tab = m.tab /\ read.kind = "read"
    BY DEF ReadRequest, Request
  <2>2. read = ReadRequest(m.tab, s)
    OBVIOUS
  <2> HIDE DEF s2, read
  <2> QED BY <2>1, <2>2, ReadFounded
<1> HIDE DEF s2, read, s
<1>7. m \notin requests'
  BY <1>2, <1>6
<1> QED BY <1>2, <1>4, <1>5, <1>6, <1>7, TakeFounded DEF s

\* A read's answer.
LEMMA TakeReadFounded ==
    ASSUME IInv, FInv, NEW m \in requests, TakeRead(m), UNCHANGED <<history, changes>>
    PROVE  FInv'
<1> DEFINE s == tab[m.tab]
           w == [readiness |-> m.answer.readiness, revision |-> m.answer.revision]
           s2 == [s EXCEPT !.mutating = FALSE,
                    !.workflow = IF m.answer.kind = "ok" THEN w ELSE @]
<1>1. m.tab \in Tabs /\ TabSound(m.tab, s, history)
  BY OldRequests
<1>2. /\ DOMAIN s2 = TabFields
      /\ \A f \in TabFields \ {"clicks", "mutating", "workflow", "copy", "key", "keys", "left"} :
           s2[f] = s[f]
  BY <1>1 DEF TabSound, TabFields
<1>3. Becomes(m.tab, s2) /\ requests' \subseteq requests
  BY DEF TakeRead, Take
<1>4. \A n \in requests' : n.tab \in Tabs
  BY <1>3 DEF IInv
<1> HIDE DEF s2
<1> QED BY <1>1, <1>2, <1>3, <1>4, QuietFounded

\* A request that is not answered yet may lose its tab.
LEMMA OrphanFounded ==
    ASSUME NEW m, NEW s, NEW s2, NEW h, Sound(m, s, h), RequestFounded(m, s2, h),
           m.answer = NoAnswer, NEW n, n = [m EXCEPT !.waiting = FALSE]
    PROVE  n.tab = m.tab /\ ~Current(n, s2) /\ RequestFounded(n, s2, h)
<1>1. /\ \A f \in RequestFields \ {"waiting"} : n[f] = m[f]
      /\ n.waiting = FALSE
  BY DEF Sound, RequestFields
<1>2. /\ n.tab = m.tab /\ n.kind = m.kind /\ n.sent = m.sent /\ n.expected = m.expected
      /\ n.gen = m.gen /\ n.answer = m.answer
  BY <1>1 DEF RequestFields
<1> QED BY <1>1, <1>2 DEF RequestFounded, Current

\* A tab that leaves asks for nothing any more.
LEMMA LeaveFounded ==
    ASSUME IInv, FInv, NEW t \in Tabs, NEW s, Leave(t, s), UNCHANGED <<history, changes>>,
           DOMAIN s = TabFields,
           \A f \in TabFields \ {"clicks", "mutating", "workflow", "copy", "key", "keys", "left"} :
             s[f] = tab[t][f]
    PROVE  FInv'
<1> DEFINE s2 == [s EXCEPT !.left = TRUE]
<1>1. /\ DOMAIN s2 = TabFields
      /\ \A f \in TabFields \ {"clicks", "mutating", "workflow", "copy", "key", "keys", "left"} :
           s2[f] = tab[t][f]
  BY DEF TabFields
<1>2. Becomes(t, s2) /\ DOMAIN tab = Tabs
  BY DEF Leave, IInv
<1>3. tab'[t] = s2 /\ s2.base = tab[t].base /\ s2.gen = tab[t].gen /\ s2.save = tab[t].save
  BY <1>1, <1>2 DEF Becomes, TabFields
<1>4. ASSUME NEW n \in requests, n.tab = t, RequestFounded(n, tab[t], history)
      PROVE  RequestFounded(n, s2, history)
  BY <1>3, <1>4 DEF RequestFounded, Current
<1>5. ASSUME NEW m \in requests' \ requests
      PROVE  m.tab = t /\ ~Current(m, s2) /\ RequestFounded(m, s2, history)
  <2>1. PICK n \in requests : n.tab = t /\ n.answer = NoAnswer /\ m = [n EXCEPT !.waiting = FALSE]
    BY DEF Leave
  <2>2. Sound(n, tab[t], history) /\ RequestFounded(n, s2, history)
    BY <1>4, <2>1, FInvUses
  <2> QED BY <2>1, <2>2, OrphanFounded
<1>6. \A m \in requests' : m.tab \in Tabs
  BY <1>5 DEF IInv
<1> HIDE DEF s2
<1> QED BY <1>1, <1>2, <1>3, <1>5, <1>6, QuietFounded

\* The copy holds what was sent.
LEMMA CopyHoldsFounded ==
    ASSUME IInv, FInv, NEW m \in requests, CopyHolds(m, tab[m.tab]), UNCHANGED <<history, changes>>
    PROVE  FInv'
<1> DEFINE s == tab[m.tab]
           kept == CopyKept(m, s)
<1>1. m.tab \in Tabs /\ TabSound(m.tab, s, history)
  BY OldRequests
<1>2. /\ DOMAIN kept = TabFields
      /\ \A f \in TabFields \ {"clicks", "mutating", "workflow", "copy", "key", "keys", "left"} :
           kept[f] = s[f]
  BY <1>1, KeptFields DEF TabSound
<1>3. Take(m, kept) \/ Leave(m.tab, kept)
  BY DEF CopyHolds
<1> HIDE DEF kept
<1>4. CASE Take(m, kept)
  <2>1. Becomes(m.tab, kept) /\ requests' \subseteq requests
    BY <1>4 DEF Take
  <2>2. \A n \in requests' : n.tab \in Tabs
    BY <2>1 DEF IInv
  <2> QED BY <1>1, <1>2, <2>1, <2>2, QuietFounded
<1>5. CASE Leave(m.tab, kept)
  BY <1>1, <1>2, <1>5, LeaveFounded
<1> QED BY <1>3, <1>4, <1>5

\* The answer about a new copy.
LEMMA TakeCreateFounded ==
    ASSUME IInv, FInv, NEW m \in requests, TakeCreate(m), UNCHANGED <<history, changes>>
    PROVE  FInv'
<1> DEFINE s == tab[m.tab]
           kept == CopyKept(m, s)
           next == [m EXCEPT !.kind = "copy", !.expected = m.answer.revision, !.answer = NoAnswer]
<1>1. m.tab \in Tabs /\ Sound(m, s, history) /\ TabSound(m.tab, s, history) /\ DOMAIN tab = Tabs
  BY OldRequests DEF IInv
<1>2. CopyHolds(m, s) \/ TakeAndSend(m, kept, next)
  BY DEF TakeCreate, CopyKept
<1>3. CASE CopyHolds(m, s)
  BY <1>3, CopyHoldsFounded
<1>4. CASE TakeAndSend(m, kept, next)
  <2>1. /\ DOMAIN kept = TabFields
        /\ \A f \in TabFields \ {"clicks", "mutating", "workflow", "copy", "key", "keys", "left"} :
             kept[f] = s[f]
    BY <1>1, KeptFields DEF TabSound
  <2>2. next.tab = m.tab /\ next.kind = "copy" /\ next.answer = NoAnswer
    BY <1>1 DEF Sound, RequestFields
  <2> HIDE DEF kept, next
  <2>3. Becomes(m.tab, kept) /\ requests' = (requests \ {m}) \cup {next}
    BY <1>4 DEF TakeAndSend
  <2>4. ~Current(next, kept) /\ RequestFounded(next, kept, history) /\ tab'[m.tab] = kept
    BY <1>1, <2>2, <2>3 DEF Current, RequestFounded, Writes, NoAnswer, Becomes
  <2>5. \A n \in requests' : n.tab \in Tabs
    BY <1>1, <2>2, <2>3 DEF IInv
  <2>6. \A n \in requests' \ requests :
          ~Current(n, tab'[n.tab]) /\ RequestFounded(n, tab'[n.tab], history)
    BY <2>2, <2>3, <2>4
  <2> HIDE DEF s
  <2> QED BY <1>1, <2>1, <2>3, <2>5, <2>6, QuietFounded DEF s
<1> QED BY <1>2, <1>3, <1>4

\* The answer about a known copy.
LEMMA TakeCopyFounded ==
    ASSUME IInv, FInv, NEW m \in requests, TakeCopy(m), UNCHANGED <<history, changes>>
    PROVE  FInv'
<1> DEFINE s == tab[m.tab]
           s2 == [s EXCEPT !.copy = NoCopy, !.key = 0]
<1>1. m.tab \in Tabs /\ TabSound(m.tab, s, history)
  BY OldRequests
<1>2. CopyHolds(m, s) \/ Take(m, s2)
  BY DEF TakeCopy
<1>3. CASE CopyHolds(m, s)
  BY <1>3, CopyHoldsFounded
<1>4. CASE Take(m, s2)
  <2>1. /\ DOMAIN s2 = TabFields
        /\ \A f \in TabFields \ {"clicks", "mutating", "workflow", "copy", "key", "keys", "left"} :
             s2[f] = s[f]
    BY <1>1 DEF TabSound, TabFields
  <2> HIDE DEF s2
  <2>2. Becomes(m.tab, s2) /\ requests' \subseteq requests
    BY <1>4 DEF Take
  <2>3. \A n \in requests' : n.tab \in Tabs
    BY <2>2 DEF IInv
  <2> QED BY <1>1, <2>1, <2>2, <2>3, QuietFounded
<1> QED BY <1>2, <1>3, <1>4

\* Every answer.
LEMMA TakeAnswerFounded ==
    ASSUME IInv, FInv, TakeAnswer(Tabs, Kinds)
    PROVE  FInv'
<1>1. PICK m \in requests :
        /\ m.answer # NoAnswer
        /\ \/ TakeSave(m) \/ TakeApply(m) \/ TakeUndo(m) \/ TakeReadiness(m)
           \/ TakeRead(m) \/ TakeCreate(m) \/ TakeCopy(m)
  BY DEF TakeAnswer
<1>2. UNCHANGED <<history, changes>>
  BY DEF TakeAnswer, serverVars
<1> QED BY <1>1, <1>2, TakeSaveFounded, TakeApplyFounded, TakeUndoFounded, TakeReadinessFounded,
           TakeReadFounded, TakeCreateFounded, TakeCopyFounded

\* Requests and answers that are lost.
LEMMA LoseFounded ==
    ASSUME IInv, FInv, Lose
    PROVE  FInv'
<1>1. PICK m \in requests :
        LET s == tab[m.tab]
            orphan == IF m.answer = NoAnswer THEN {[m EXCEPT !.waiting = FALSE]} ELSE {}
            read == IF m.kind = "readiness" THEN {ReadRequest(m.tab, s)} ELSE {} IN
        /\ Becomes(m.tab,
             CASE m.kind = "save" -> NotSaved(s, m)
               [] m.kind = "read" -> [s EXCEPT !.mutating = FALSE]
               [] OTHER -> s)
        /\ requests' = (requests \ {m}) \cup orphan \cup read
  BY DEF Lose
<1> DEFINE s == tab[m.tab]
           free == [s EXCEPT !.mutating = FALSE]
           s2 == CASE m.kind = "save" -> NotSaved(s, m)
                   [] m.kind = "read" -> free
                   [] OTHER -> s
<1>2. /\ m.tab \in Tabs /\ Sound(m, s, history) /\ TabSound(m.tab, s, history)
      /\ Founded(m.tab, s, history) /\ RequestFounded(m, s, history) /\ DOMAIN tab = Tabs
  BY FInvUses DEF IInv
<1>3. Becomes(m.tab, s2) /\ UNCHANGED <<history, changes>>
  BY <1>1 DEF Lose, serverVars
<1>4. /\ DOMAIN s2 = TabFields
      /\ \A f \in TabFields \ {"save", "mutating"} : s2[f] = s[f]
      /\ s2.save \in {s.save, "failed", "dirty"}
  <2>1. /\ DOMAIN NotSaved(s, m) = TabFields
        /\ \A f \in TabFields \ {"save"} : NotSaved(s, m)[f] = s[f]
        /\ NotSaved(s, m).save \in {s.save, "failed", "dirty"}
    BY <1>2 DEF NotSaved, TabSound, TabFields
  <2>2. /\ DOMAIN free = TabFields
        /\ \A f \in TabFields \ {"mutating"} : free[f] = s[f]
    BY <1>2 DEF TabSound, TabFields
  <2>3. DOMAIN s = TabFields /\ "save" \in TabFields
    BY <1>2 DEF TabSound, TabFields
  <2> HIDE DEF free
  <2>4. s2 \in {NotSaved(s, m), free, s}
    OBVIOUS
  <2>5. "save" \in TabFields \ {"mutating"}
    BY DEF TabFields
  <2> HIDE DEF s2, s
  <2> QED BY <2>1, <2>2, <2>3, <2>4, <2>5
<1> HIDE DEF s2
<1>5. /\ s2.base = s.base /\ s2.draft = s.draft /\ s2.conflict = s.conflict
      /\ s2.gen = s.gen /\ s2.version = s.version /\ s2.persisted = s.persisted
  BY <1>4 DEF TabFields
<1>6. TabSound(m.tab, s2, history) /\ s.gen <= s2.gen
  BY <1>2, <1>4, <1>5 DEF TabSound
<1>7. Moves(m.tab, s, s2, history)
  BY <1>2, <1>5, <1>6, StayMoves
<1>8. tab'[m.tab] = s2
  BY <1>2, <1>3 DEF Becomes
<1>9. \A n \in requests' : n \in requests \/ n = ReadRequest(m.tab, s) \/
        (n = [m EXCEPT !.waiting = FALSE] /\ m.answer = NoAnswer)
  BY <1>1
<1>10. ASSUME NEW n \in requests, n.tab = m.tab, Current(n, s2) PROVE s2.save # "saved"
  BY <1>2, <1>4, <1>5, <1>6, <1>10, StillSettled
<1>11. RequestFounded(m, s2, history)
  BY <1>2, <1>5, <1>10 DEF RequestFounded
<1>12. ASSUME NEW n \in requests' \ requests
       PROVE  n.tab = m.tab /\ ~Current(n, s2) /\ RequestFounded(n, s2, history)
  BY <1>2, <1>9, <1>11, <1>12, ReadFounded, OrphanFounded
<1>13. \A n \in requests' : n.tab \in Tabs
  BY <1>2, <1>12 DEF IInv
<1>14. \A n \in requests' \ requests :
         ~Current(n, tab'[n.tab]) /\ RequestFounded(n, tab'[n.tab], history)
  BY <1>8, <1>12
<1>15. \A n \in requests' \cap requests : n.tab = m.tab /\ Current(n, s2) => s2.save # "saved"
  BY <1>10
<1> HIDE DEF s
<1> QED BY <1>2, <1>3, <1>6, <1>7, <1>13, <1>14, <1>15, MovesStep DEF s

\* An editor that stays: requests and history may grow.
LEMMA FoundedServerStep ==
    ASSUME IInv, FInv, UNCHANGED tab, Extends(history, history'),
           Kept(history'), Reversible(changes', history'),
           NEW m \in requests, NEW a, requests' \subseteq (requests \ {m}) \cup {a},
           a.tab = m.tab, a.kind = m.kind, a.gen = m.gen, a.waiting = m.waiting,
           RequestFounded(a, tab[m.tab], history')
    PROVE  FInv'
<1>1. \A t \in Tabs : Founded(t, tab'[t], history')
  BY FoundedGrown DEF IInv, FInv
<1>2. ASSUME NEW n \in requests PROVE RequestFounded(n, tab[n.tab], history')
  BY FInvUses, RequestFoundedGrown
<1>3. \A n \in requests' : RequestFounded(n, tab'[n.tab], history')
  BY <1>2
<1>4. \A n \in requests' : (n \in requests /\ n # m) \/ n = a
  OBVIOUS
<1>5. \A s : Current(a, s) <=> Current(m, s)
  BY DEF Current
<1>6. OneSave(requests', tab')
  BY <1>4, <1>5 DEF OneSave, FInv
<1> QED BY <1>1, <1>3, <1>6 DEF FInv

\* A history extends itself.
LEMMA SameExtends ==
    ASSUME IInv
    PROVE  Extends(history, history) /\ Revision \in 1 .. Len(history) /\ Len(history) \in Nat \ {0}
BY DEF IInv, HistorySound, Extends, Revision

\* A request is answered and nothing is written.
LEMMA AnswerFounded ==
    ASSUME IInv, FInv, NEW m \in requests, m.answer = NoAnswer, NEW answer, Answered(m, answer),
           UNCHANGED <<tab, history, changes>>,
           \/ answer.kind = "refused" \/ m.kind \notin Writes \cup {"readiness"}
           \/ /\ answer.kind = "conflict" /\ answer.content = Document
              /\ answer.revision = Revision
    PROVE  FInv'
<1> DEFINE a == [m EXCEPT !.answer = answer]
           s == tab[m.tab]
<1>1. /\ m.tab \in Tabs /\ Sound(m, s, history) /\ TabSound(m.tab, s, history)
      /\ RequestFounded(m, s, history)
  BY FInvUses
<1>2. CASE m.waiting
  <2>1. requests' \subseteq (requests \ {m}) \cup {a}
    BY DEF Answered
  <2>2. /\ a.answer = answer
        /\ \A f \in RequestFields \ {"answer"} : a[f] = m[f]
    BY <1>1 DEF Sound, RequestFields
  <2>3. /\ a.tab = m.tab /\ a.kind = m.kind /\ a.sent = m.sent /\ a.expected = m.expected
        /\ a.gen = m.gen /\ a.waiting = m.waiting
    BY <2>2 DEF RequestFields
  <2>4. ASSUME a.answer.kind = "conflict", a.answer.content = Document, a.answer.revision = Revision
        PROVE  /\ a.answer.content = history[a.answer.revision].content
               /\ Level(m.tab, history, a.answer.revision, s.base)
    <3>1. Revision \in Nat /\ s.base \in Nat /\ s.base <= Revision
      BY <1>1, SameExtends DEF TabSound, Revision
    <3> QED BY <2>4, <3>1, LevelBack DEF Document
  <2> HIDE DEF a, s
  <2>5. a.answer # NoAnswer => a.waiting
    BY <1>2, <2>3
  <2>6. a.kind \notin Writes \cup {"readiness"} \/ a.answer.kind = "refused" \/
          (a.answer.kind = "conflict" /\ a.answer.content = Document /\ a.answer.revision = Revision)
    BY <2>2, <2>3
  <2>7. RequestFounded(a, s, history)
    <3>1. CASE a.kind \notin Writes \cup {"readiness"}
      BY <1>1, <2>3, <2>5, <3>1 DEF RequestFounded, Current
    <3>2. CASE a.answer.kind = "refused"
      BY <1>1, <2>3, <2>5, <3>2 DEF RequestFounded, Current, NoAnswer
    <3>3. CASE a.answer.kind = "conflict" /\ a.answer.content = Document
               /\ a.answer.revision = Revision
      BY <1>1, <2>3, <2>4, <2>5, <3>3 DEF RequestFounded, Current, NoAnswer
    <3> QED BY <2>6, <3>1, <3>2, <3>3
  <2>8. Kept(history') /\ Reversible(changes', history') /\ Extends(history, history')
    BY SameExtends DEF FInv
  <2> QED BY <2>1, <2>3, <2>7, <2>8, FoundedServerStep DEF s
<1>3. CASE ~m.waiting
  <2>1. requests' = requests \ {m}
    BY <1>3 DEF Answered
  <2>2. OneSave(requests', tab')
    BY <2>1 DEF OneSave, FInv
  <2> QED BY <2>1, <2>2 DEF FInv
<1> QED BY <1>2, <1>3

\* An answer that tells the document as it stands is founded.
LEMMA ReplyFounded ==
    ASSUME IInv, FInv, NEW m \in requests, m.answer = NoAnswer,
           UNCHANGED <<tab, history, changes>>,
           Answered(m, Reply("conflict")) \/ Answered(m, Refusal)
    PROVE  FInv'
<1>1. CASE Answered(m, Reply("conflict"))
  <2>1. PICK answer : answer = Reply("conflict")
    OBVIOUS
  <2>2. answer.kind = "conflict" /\ answer.content = Document /\ answer.revision = Revision
    BY <2>1 DEF Reply
  <2>3. Answered(m, answer)
    BY <1>1, <2>1
  <2> QED BY <2>2, <2>3, AnswerFounded
<1>2. CASE Answered(m, Refusal)
  <2>1. PICK answer : answer = Refusal
    OBVIOUS
  <2>2. answer.kind = "refused"
    BY <2>1 DEF Refusal, NoAnswer
  <2>3. Answered(m, answer)
    BY <1>2, <2>1
  <2> QED BY <2>2, <2>3, AnswerFounded
<1> QED BY <1>1, <1>2

\* A write that has of every other tab what the last revision has of it.
LEMMA CommitFounded ==
    ASSUME IInv, FInv, NEW m \in requests, m.answer = NoAnswer, NEW content, UNCHANGED tab,
           Commit(content, m.tab), AnsweredNow(m),
           m.kind \in Writes => m.expected = Revision,
           m.kind \in Writes \cup {"readiness"},
           Foreign(m.tab, content) = Foreign(m.tab, Document),
           m.kind = "readiness" => content = Document,
           Reversible(changes', history')
    PROVE  FInv'
<1> DEFINE s == tab[m.tab]
           t == m.tab
<1>1. /\ t \in Tabs /\ Sound(m, s, history) /\ TabSound(t, s, history)
      /\ RequestFounded(m, s, history) /\ HistorySound(history)
      /\ Revision = Len(history) /\ Len(history) \in Nat \ {0}
  BY FInvUses, SameExtends DEF Revision
<1>2. PICK e : e = [content |-> content, by |-> t]
  OBVIOUS
<1>3. history' = Append(history, e) /\ e.content = content /\ e.by = t
  BY <1>2 DEF Commit
<1>4. /\ HistorySound(history') /\ Len(history') = Len(history) + 1
      /\ history'[Len(history) + 1] = e
      /\ \A k \in 1 .. Len(history) : history'[k] = history[k]
  <2>1. PICK S : history \in Seq(S) /\ e \in S
    <3>1. history \in Seq(Entries(history) \cup {e})
      <4>1. \A r \in 1 .. Len(history) : history[r] \in Entries(history) \cup {e}
        BY DEF Entries
      <4> QED BY <1>1, <4>1 DEF HistorySound
    <3> QED BY <3>1
  <2> QED BY <1>1, <1>3, <2>1, CommitHolds
<1>5. Extends(history, history')
  BY <1>1, <1>4 DEF Extends
<1>6. Kept(history')
  <2> SUFFICES ASSUME NEW r \in 2 .. Len(history'), NEW u \in Tabs \ {history'[r].by}
               PROVE  Own(u, history'[r - 1].content) \subseteq history'[r].content
    BY DEF Kept
  <2>1. CASE r <= Len(history)
    <3>1. r \in 2 .. Len(history) /\ r - 1 \in 1 .. Len(history) /\ r \in 1 .. Len(history)
      BY <1>1, <1>4, <2>1
    <3> QED BY <1>4, <3>1 DEF Kept, FInv
  <2>2. CASE r = Len(history) + 1
    <3>1. r - 1 = Revision /\ r - 1 \in 1 .. Len(history)
      BY <1>1, <2>2
    <3>2. history'[r - 1].content = Document /\ history'[r].content = content /\ u # t
      BY <1>3, <1>4, <2>2, <3>1 DEF Document
    <3>3. Own(u, Document) \subseteq Foreign(t, Document)
      BY <1>1, <3>2 DEF Own, Foreign
    <3>4. Foreign(t, content) \subseteq content
      BY DEF Foreign
    <3> QED BY <3>2, <3>3, <3>4
  <2> QED BY <1>1, <1>4, <2>1, <2>2
<1>7. PICK answer :
        answer = [kind |-> "ok", content |-> history'[Len(history')].content,
                  revision |-> Len(history'), readiness |-> readiness']
  OBVIOUS
<1>8. /\ answer.kind = "ok" /\ answer.revision = Len(history) + 1
      /\ answer.content = content /\ history'[answer.revision].content = content
  BY <1>3, <1>4, <1>7
<1>9. Answered(m, answer)
  BY <1>7 DEF AnsweredNow
<1> DEFINE a == [m EXCEPT !.answer = answer]
<1>10. /\ a.answer = answer
       /\ \A f \in RequestFields \ {"answer"} : a[f] = m[f]
  BY <1>1 DEF Sound, RequestFields
<1>11. /\ a.tab = t /\ a.kind = m.kind /\ a.sent = m.sent /\ a.expected = m.expected
       /\ a.gen = m.gen /\ a.waiting = m.waiting
  BY <1>10 DEF RequestFields
<1> HIDE DEF a, s, t
<1>12. /\ s.base \in 1 .. Len(history)
       /\ RequestFounded(m, s, history')
  BY <1>1, <1>5, RequestFoundedGrown DEF t, TabSound
<1>13. Level(t, history', answer.revision, s.base)
  <2>1. answer.revision \in Nat /\ s.base \in Nat /\ s.base <= answer.revision
    BY <1>1, <1>8, <1>12
  <2> QED BY <2>1, LevelBack
<1>14. ASSUME m.kind \in Writes PROVE Level(t, history', s.base, answer.revision)
  <2>1. Level(t, history, s.base, Revision)
    BY <1>1, <1>14 DEF RequestFounded, t
  <2> SUFFICES ASSUME NEW k \in s.base .. answer.revision
               PROVE  Foreign(t, history'[k].content) = Foreign(t, history'[s.base].content)
    BY DEF Level
  <2>2. s.base \in s.base .. Revision /\ Revision \in s.base .. Revision
    BY <1>1, <1>12
  <2>3. Foreign(t, Document) = Foreign(t, history[s.base].content)
    BY <2>1, <2>2 DEF Level, Document
  <2>4. CASE k = Len(history) + 1
    BY <1>3, <1>4, <1>12, <2>3, <2>4 DEF t
  <2>5. CASE k <= Len(history)
    <3>1. k \in s.base .. Revision /\ k \in 1 .. Len(history)
      BY <1>1, <1>12, <2>5
    <3> QED BY <1>4, <1>12, <2>1, <3>1 DEF Level
  <2> QED BY <1>1, <1>8, <1>12, <2>4, <2>5
<1>15. ASSUME m.kind = "readiness"
       PROVE  /\ answer.revision \in 2 .. Len(history')
              /\ history'[answer.revision].content = history'[answer.revision - 1].content
  <2>1. answer.revision - 1 = Revision /\ Revision \in 1 .. Len(history)
    BY <1>1, <1>8
  <2>2. history'[Revision].content = Document
    BY <1>4, <2>1 DEF Document
  <2> QED BY <1>1, <1>4, <1>8, <1>15, <2>1, <2>2
<1>16. CASE m.waiting
  <2>1. requests' \subseteq (requests \ {m}) \cup {a}
    BY <1>9 DEF Answered, a
  <2>2. a.answer.kind = "ok" /\ a.answer # NoAnswer
    BY <1>8, <1>10 DEF NoAnswer
  <2>3. Current(a, s) <=> Current(m, s)
    BY <1>11 DEF Current
  <2>4. RequestFounded(a, s, history')
    <3>1. /\ a.answer # NoAnswer => a.waiting
          /\ Current(a, s) => s.save # "saved"
      BY <1>11, <1>12, <1>16, <2>3 DEF RequestFounded
    <3>2. ASSUME a.kind \in Writes
          PROVE  /\ a.expected \in 1 .. Len(history')
                 /\ a.kind # "undo" =>
                      Foreign(a.tab, a.sent) = Foreign(a.tab, history'[a.expected].content)
      BY <1>11, <1>12, <3>2 DEF RequestFounded, t
    <3>3. ASSUME a.kind \in Writes
          PROVE  /\ Level(a.tab, history', s.base, a.answer.revision)
                 /\ Level(a.tab, history', a.answer.revision, s.base)
                 /\ a.answer.content = history'[a.answer.revision].content
      BY <1>8, <1>10, <1>11, <1>13, <1>14, <3>3
    <3>4. a.kind = "readiness" =>
            /\ a.answer.revision \in 2 .. Len(history')
            /\ history'[a.answer.revision].content = history'[a.answer.revision - 1].content
      BY <1>10, <1>11, <1>15
    <3> QED BY <2>2, <3>1, <3>2, <3>3, <3>4 DEF RequestFounded
  <2> QED BY <1>5, <1>6, <1>11, <2>1, <2>4, FoundedServerStep DEF s, t
<1>17. CASE ~m.waiting
  <2>1. requests' \subseteq (requests \ {m}) \cup {m}
    BY <1>9, <1>17 DEF Answered
  <2> QED BY <1>5, <1>6, <1>12, <2>1, FoundedServerStep DEF s, t
<1> QED BY <1>16, <1>17

\* The changes made so far stay reversible, and a new one is.
LEMMA ChangesKept ==
    ASSUME IInv, FInv, NEW content, NEW by, Commit(content, by)
    PROVE  /\ Reversible(changes, history')
           /\ Len(history') = Revision + 1 /\ history'[Revision + 1].content = content
<1>1. PICK e : e = [content |-> content, by |-> by]
  OBVIOUS
<1>2. history' = Append(history, e) /\ e.content = content /\ HistorySound(history)
  BY <1>1 DEF Commit, IInv
<1>3. history \in Seq(Entries(history) \cup {e}) /\ Len(history) \in Nat
  <2>1. \A r \in 1 .. Len(history) : history[r] \in Entries(history) \cup {e}
    BY DEF Entries
  <2> QED BY <1>2, <2>1 DEF HistorySound
<1>4. /\ Len(history') = Len(history) + 1 /\ history'[Len(history) + 1] = e
      /\ \A k \in 1 .. Len(history) : history'[k] = history[k]
  BY <1>2, <1>3
<1>5. ASSUME NEW c \in changes
      PROVE  /\ DOMAIN c = ChangeFields /\ c.after \in 1 .. Len(history')
             /\ history'[c.after].content = Applied(c.proposals, c.before)
  <2>1. /\ DOMAIN c = ChangeFields /\ c.after \in 1 .. Len(history)
        /\ history[c.after].content = Applied(c.proposals, c.before)
    BY DEF FInv, Reversible
  <2> QED BY <1>3, <1>4, <2>1
<1> QED BY <1>2, <1>4, <1>5 DEF Reversible, Revision

\* The server's writes: each is checked against the revision it was made for.
LEMMA ServeSaveFounded ==
    ASSUME IInv, FInv, NEW m \in requests, m.answer = NoAnswer, ServeSave(m), UNCHANGED tab
    PROVE  FInv'
<1>1. /\ m.tab \in Tabs /\ RequestFounded(m, tab[m.tab], history) /\ m.kind = "save"
  BY FInvUses DEF ServeSave
<1>2. CASE plain /\ m.expected = Revision /\ Commit(m.sent, m.tab) /\ AnsweredNow(m)
  <2>1. Foreign(m.tab, m.sent) = Foreign(m.tab, Document)
    BY <1>1, <1>2 DEF RequestFounded, Writes, Document
  <2>2. Reversible(changes', history')
    BY <1>2, ChangesKept DEF ServeSave
  <2> QED BY <1>1, <1>2, <2>1, <2>2, CommitFounded DEF Writes
<1>3. CASE (Answered(m, Reply("conflict")) \/ Answered(m, Refusal)) /\ UNCHANGED history
  BY <1>3, ReplyFounded DEF ServeSave
<1> QED BY <1>2, <1>3 DEF ServeSave

\* An apply.
LEMMA ServeApplyFounded ==
    ASSUME IInv, FInv, NEW m \in requests, m.answer = NoAnswer, ServeApply(m), UNCHANGED tab
    PROVE  FInv'
<1>1. /\ m.tab \in Tabs /\ RequestFounded(m, tab[m.tab], history) /\ m.kind = "apply"
  BY FInvUses DEF ServeApply
<1> DEFINE content == Applied(m.proposals, m.sent)
           c == [proposals |-> m.proposals, before |-> m.sent,
                 after |-> Revision + 1, undone |-> FALSE]
<1>2. CASE /\ m.expected = Revision /\ Commit(content, m.tab) /\ AnsweredNow(m)
           /\ changes' = changes \cup {c}
  <2>1. Foreign(m.tab, content) = Foreign(m.tab, Document)
    <3>1. Foreign(m.tab, m.sent) = Foreign(m.tab, Document)
      BY <1>1, <1>2 DEF RequestFounded, Writes, Document
    <3>2. Foreign(m.tab, content) = Foreign(m.tab, m.sent)
      BY <1>1, ForeignKept
    <3> QED BY <3>1, <3>2
  <2>2. /\ DOMAIN c = ChangeFields /\ c.after = Revision + 1
        /\ Applied(c.proposals, c.before) = content
    BY DEF ChangeFields
  <2> HIDE DEF c, content
  <2>3. /\ Reversible(changes, history') /\ Len(history') = Revision + 1
        /\ history'[Revision + 1].content = content
    BY <1>2, ChangesKept
  <2>4. Revision + 1 \in 1 .. Len(history')
    BY <2>3, SameExtends DEF Revision
  <2>5. Reversible(changes', history')
    BY <1>2, <2>2, <2>3, <2>4 DEF Reversible
  <2> QED BY <1>1, <1>2, <2>1, <2>5, CommitFounded DEF Writes
<1>3. CASE (Answered(m, Reply("conflict")) \/ Answered(m, Refusal)) /\ UNCHANGED <<history, changes>>
  BY <1>3, ReplyFounded
<1> QED BY <1>2, <1>3 DEF ServeApply

\* An undo restores what was before, with the other tabs' edits.
LEMMA ServeUndoFounded ==
    ASSUME IInv, FInv, NEW m \in requests, m.answer = NoAnswer, ServeUndo(m), UNCHANGED tab
    PROVE  FInv'
<1>1. m.tab \in Tabs /\ RequestFounded(m, tab[m.tab], history) /\ m.kind = "undo"
  BY FInvUses DEF ServeUndo
<1>2. PICK c \in changes :
        /\ c.after = m.expected
        /\ \/ /\ plain /\ ~c.undone /\ Revision = c.after
              /\ Commit(c.before, m.tab)
              /\ changes' = (changes \ {c}) \cup {[c EXCEPT !.undone = TRUE]}
              /\ AnsweredNow(m)
           \/ /\ Answered(m, Reply("conflict")) \/ Answered(m, Refusal)
              /\ UNCHANGED <<history, changes>>
  BY DEF ServeUndo
<1>3. CASE /\ Revision = c.after /\ Commit(c.before, m.tab) /\ AnsweredNow(m)
           /\ changes' = (changes \ {c}) \cup {[c EXCEPT !.undone = TRUE]}
  <2>1. /\ DOMAIN c = ChangeFields
        /\ history[c.after].content = Applied(c.proposals, c.before)
    BY DEF FInv, Reversible
  <2>2. Foreign(m.tab, c.before) = Foreign(m.tab, Document)
    <3>1. Foreign(m.tab, Applied(c.proposals, c.before)) = Foreign(m.tab, c.before)
      BY <1>1, ForeignKept
    <3> QED BY <1>3, <2>1, <3>1 DEF Document
  <2>3. PICK d : d = [c EXCEPT !.undone = TRUE]
    OBVIOUS
  <2>4. /\ DOMAIN d = ChangeFields /\ d.after = c.after /\ d.proposals = c.proposals
        /\ d.before = c.before
    BY <2>1, <2>3 DEF ChangeFields
  <2>5. Reversible(changes, history')
    BY <1>3, ChangesKept
  <2>6. Reversible(changes', history')
    BY <1>3, <2>3, <2>4, <2>5 DEF Reversible
  <2> QED BY <1>1, <1>2, <1>3, <2>2, <2>6, CommitFounded DEF Writes
<1>4. CASE /\ Answered(m, Reply("conflict")) \/ Answered(m, Refusal)
           /\ UNCHANGED <<history, changes>>
  BY <1>4, ReplyFounded
<1> QED BY <1>2, <1>3, <1>4

\* A readiness change repeats the content.
LEMMA ServeReadinessFounded ==
    ASSUME IInv, FInv, NEW m \in requests, m.answer = NoAnswer, ServeReadiness(m), UNCHANGED tab
    PROVE  FInv'
<1>1. m.kind = "readiness" /\ UNCHANGED changes
  BY DEF ServeReadiness
<1>2. CASE Commit(Document, m.tab) /\ AnsweredNow(m)
  <2>1. Reversible(changes', history')
    BY <1>1, <1>2, ChangesKept
  <2> QED BY <1>1, <1>2, <2>1, CommitFounded DEF Writes
<1>3. CASE (Answered(m, Reply("conflict")) \/ Answered(m, Refusal)) /\ UNCHANGED history
  BY <1>1, <1>3, ReplyFounded
<1> QED BY <1>2, <1>3 DEF ServeReadiness

\* Every step of the server.
LEMMA ServeFounded ==
    ASSUME IInv, FInv, Serve(Tabs, Kinds)
    PROVE  FInv'
<1>1. PICK m \in requests :
        /\ m.answer = NoAnswer
        /\ \/ ServeSave(m) \/ ServeApply(m) \/ ServeUndo(m) \/ ServeReadiness(m)
           \/ ServeRead(m) \/ ServeCreate(m) \/ ServeCopy(m)
  BY DEF Serve
<1>2. UNCHANGED tab
  BY DEF Serve
<1>3. ASSUME NEW answer, Answered(m, answer), UNCHANGED <<history, changes>>,
             m.kind \in {"read", "create", "copy"}
      PROVE  FInv'
  <2>1. m.kind \notin Writes \cup {"readiness"}
    BY <1>3 DEF Writes
  <2> QED BY <1>1, <1>2, <1>3, <2>1, AnswerFounded
<1>4. CASE ServeRead(m)
  <2>1. \E answer : Answered(m, answer)
    BY <1>4 DEF ServeRead
  <2> QED BY <1>3, <1>4, <2>1 DEF ServeRead, serverVars
<1>5. CASE ServeCreate(m)
  <2>1. \E answer : Answered(m, answer)
    BY <1>5 DEF ServeCreate
  <2> QED BY <1>3, <1>5, <2>1 DEF ServeCreate
<1>6. CASE ServeCopy(m)
  <2>1. \E answer : Answered(m, answer)
    BY <1>6 DEF ServeCopy
  <2> QED BY <1>3, <1>6, <2>1 DEF ServeCopy
<1> QED BY <1>1, <1>2, <1>4, <1>5, <1>6, ServeSaveFounded, ServeApplyFounded,
           ServeUndoFounded, ServeReadinessFounded

\* At first every tab has the document as it was created.
LEMMA InitFounded == Init => FInv
<1> SUFFICES ASSUME Init PROVE FInv
  OBVIOUS
<1>1. /\ Len(history) = 1 /\ history[1].content = Target(Proposals)
      /\ requests = {} /\ changes = {}
  BY DEF Init
<1>2. ASSUME NEW t \in Tabs PROVE Founded(t, tab[t], history)
  <2>1. /\ tab[t].draft = Target(Proposals) /\ tab[t].base = 1
        /\ tab[t].conflict = NoConflict
    BY DEF Init
  <2> QED BY <1>1, <2>1 DEF Founded
<1>3. Kept(history)
  BY <1>1 DEF Kept
<1> QED BY <1>1, <1>2, <1>3 DEF FInv, Reversible, OneSave

\* Every step, while commands keep their draft.
LEMMA StepFounded ==
    ASSUME IInv, FInv, [Next]_vars, ~DraftReplacedDuringCommands
    PROVE  FInv'
<1>1. CASE UNCHANGED vars
  BY <1>1 DEF vars, FInv
<1>2. CASE EndPlainWrites \/ OtherEditsCopy
  <2>1. UNCHANGED <<history, changes, tab, requests>>
    BY <1>2 DEF EndPlainWrites, OtherEditsCopy
  <2> QED BY <2>1 DEF FInv
<1>3. CASE Serve(Tabs, Kinds) \/ TakeAnswer(Tabs, Kinds) \/ Lose
  BY <1>3, ServeFounded, TakeAnswerFounded, LoseFounded
<1>4. CASE \E t \in Tabs :
             \/ Type(t) \/ Autosave(t) \/ Retry(t) \/ AcceptProposals(t) \/ UndoChange(t)
             \/ ChangeReadiness(t) \/ RefreshWorkflow(t) \/ SameDocumentSnapshot(t)
             \/ LoadServerVersion(t) \/ SaveAsNew(t)
  BY <1>4, TypeFounded, SaveFounded, AcceptFounded, UndoFounded, ReadinessFounded,
     RefreshFounded, SnapshotFounded, LoadFounded, SaveAsNewFounded DEF Autosave, Retry
<1> QED BY <1>1, <1>2, <1>3, <1>4 DEF Next

\* What tabs write is founded on the revision they name.
LEMMA FoundedAlways ==
    ASSUME ~DraftReplacedDuringCommands
    PROVE  Spec => []FInv
<1>1. Init => FInv
  BY InitFounded
<1>2. IInv /\ FInv /\ [Next]_vars => FInv'
  BY StepFounded
<1> QED BY <1>1, <1>2, Inductive, PTL DEF Spec

-----------------------------------------------------------------------------
\* No write drops what another tab wrote and saved, as long as a tab that waits for
\* an apply or an undo takes no other draft meanwhile.
THEOREM NothingIsOverwritten ==
    ASSUME ~DraftReplacedDuringCommands
    PROVE  Spec => []NothingOverwritten
<1>1. FInv => NothingOverwritten
  BY DEF FInv, Kept, NothingOverwritten, Revision
<1> QED BY <1>1, FoundedAlways, PTL

-----------------------------------------------------------------------------
(* Recovery copies: what a step leaves alone.                               *)
CopyKinds == {"create", "copy"}
CopyFields == {"key", "content", "revision", "shared"}
CInv == \A c \in copies : DOMAIN c = CopyFields

\* What a tab keeps of its copies: nothing new, or nothing at all.
CopyKeeps(s, s2) ==
    /\ s2.keys = s.keys /\ s2.left = s.left
    /\ \/ s2.key = s.key /\ s2.copy = s.copy
       \/ s2.key = 0 /\ s2.copy = NoCopy

\* A step of tab t that asks for no copy.
AsideOf(t, s2) ==
    /\ Becomes(t, s2) \/ (UNCHANGED tab /\ s2 = tab[t])
    /\ UNCHANGED copies
    /\ CopyKeeps(tab[t], s2)
    /\ \A n \in requests' \ requests : n.tab = t /\ n.kind \notin CopyKinds

\* The steps of the user, but for the one that asks for a copy.
LEMMA UserAside ==
    ASSUME IInv, NEW t \in Tabs,
           \/ Type(t) \/ Autosave(t) \/ Retry(t) \/ AcceptProposals(t) \/ UndoChange(t)
           \/ ChangeReadiness(t) \/ RefreshWorkflow(t) \/ SameDocumentSnapshot(t)
           \/ LoadServerVersion(t)
    PROVE  (\E s2 : AsideOf(t, s2)) /\ requests \subseteq requests' /\ Here(t)
<1> DEFINE s == tab[t]
<1>1. DOMAIN s = TabFields
  BY DEF IInv, TabSound
<1>2. ASSUME NEW s2, Becomes(t, s2) \/ (UNCHANGED tab /\ s2 = s), UNCHANGED copies,
             CopyKeeps(s, s2), Here(t),
             UNCHANGED requests \/ \E m : requests' = requests \cup {m} /\ m.tab = t /\ m.kind \notin CopyKinds
      PROVE  (\E x : AsideOf(t, x)) /\ requests \subseteq requests' /\ Here(t)
  <2>1. \A n \in requests' \ requests : n.tab = t /\ n.kind \notin CopyKinds
    BY <1>2
  <2>2. requests \subseteq requests'
    BY <1>2
  <2> QED BY <1>2, <2>1, <2>2 DEF AsideOf
<1>3. CASE Type(t)
  <2>1. PICK over \in SUBSET Proposals :
          LET text == (s.draft \ Target(over)) \cup {<<t, s.edits + 1>>} IN
          Becomes(t, [s EXCEPT !.version = @ + 1, !.edits = @ + 1, !.draft = text, !.save = "dirty",
              !.conflict = IF HasConflict(t) THEN [@ EXCEPT !.local = text] ELSE @])
    BY <1>3 DEF Type
  <2> DEFINE text == (s.draft \ Target(over)) \cup {<<t, s.edits + 1>>}
             s2 == [s EXCEPT !.version = @ + 1, !.edits = @ + 1, !.draft = text, !.save = "dirty",
                      !.conflict = IF HasConflict(t) THEN [@ EXCEPT !.local = text] ELSE @]
  <2>2. CopyKeeps(s, s2)
    BY <1>1 DEF TabFields, CopyKeeps
  <2>3. Becomes(t, s2) /\ UNCHANGED <<copies, requests>> /\ Here(t)
    BY <1>3, <2>1 DEF Type, serverVars
  <2> HIDE DEF s2
  <2> QED BY <1>2, <2>2, <2>3
<1>4. ASSUME NEW clicks, SaveDraft(t, clicks)
      PROVE  (\E x : AsideOf(t, x)) /\ requests \subseteq requests' /\ Here(t)
  <2> DEFINE s2 == [s EXCEPT !.gen = @ + 1, !.save = "saving", !.clicks = @ + clicks]
             m == Request(t, s2, "save")
  <2>1. CopyKeeps(s, s2) /\ m.tab = t /\ m.kind \notin CopyKinds
    BY <1>1 DEF TabFields, Request, CopyKinds, CopyKeeps
  <2>2. Becomes(t, s2) /\ requests' = requests \cup {m} /\ UNCHANGED copies /\ Here(t)
    BY <1>4 DEF SaveDraft, Send, serverVars
  <2> HIDE DEF s2, m
  <2> QED BY <1>2, <2>1, <2>2
<1>5. CASE AcceptProposals(t)
  <2>1. PICK s2 : s2 = [s EXCEPT !.clicks = @ + 1]
    OBVIOUS
  <2>2. PICK ps \in SUBSET Proposals \ {{}} :
          Send([Request(t, s, "apply") EXCEPT !.proposals = ps, !.gen = 0, !.key = s.clicks])
    BY <1>5 DEF AcceptProposals
  <2>3. PICK m : m = [Request(t, s, "apply") EXCEPT !.proposals = ps, !.gen = 0, !.key = s.clicks]
    OBVIOUS
  <2>4. CopyKeeps(s, s2) /\ m.tab = t /\ m.kind \notin CopyKinds
    BY <1>1, <2>1, <2>3 DEF TabFields, Request, CopyKinds, CopyKeeps
  <2>5. Becomes(t, s2) /\ requests' = requests \cup {m} /\ UNCHANGED copies /\ Here(t)
    BY <1>5, <2>1, <2>2, <2>3 DEF AcceptProposals, Send, serverVars, Click
  <2> QED BY <1>2, <2>4, <2>5
<1>6. CASE UndoChange(t)
  <2>1. PICK s2 : s2 = [s EXCEPT !.clicks = @ + 1]
    OBVIOUS
  <2>2. PICK m : m = [Request(t, s, "undo") EXCEPT !.sent = {}, !.gen = 0, !.key = s.clicks]
    OBVIOUS
  <2>3. CopyKeeps(s, s2) /\ m.tab = t /\ m.kind \notin CopyKinds
    BY <1>1, <2>1, <2>2 DEF TabFields, Request, CopyKinds, CopyKeeps
  <2>4. Becomes(t, s2) /\ requests' = requests \cup {m} /\ UNCHANGED copies /\ Here(t)
    BY <1>6, <2>1, <2>2 DEF UndoChange, Send, serverVars, Click
  <2> QED BY <1>2, <2>3, <2>4
<1>7. CASE ChangeReadiness(t)
  <2>1. PICK s2 : s2 = [s EXCEPT !.mutating = TRUE, !.clicks = @ + 1]
    OBVIOUS
  <2>2. PICK m : m = [ReadRequest(t, s) EXCEPT !.kind = "readiness",
                        !.readiness = s.workflow.readiness, !.expected = s.workflow.revision]
    OBVIOUS
  <2>3. CopyKeeps(s, s2) /\ m.tab = t /\ m.kind \notin CopyKinds
    BY <1>1, <2>1, <2>2 DEF TabFields, ReadRequest, Request, CopyKinds, CopyKeeps
  <2>4. Becomes(t, s2) /\ requests' = requests \cup {m} /\ UNCHANGED copies /\ Here(t)
    BY <1>7, <2>1, <2>2 DEF ChangeReadiness, Send, serverVars, Click
  <2> QED BY <1>2, <2>3, <2>4
<1>8. CASE RefreshWorkflow(t)
  <2>1. PICK m : m = ReadRequest(t, s)
    OBVIOUS
  <2>2. m.tab = t /\ m.kind \notin CopyKinds /\ CopyKeeps(s, s)
    BY <2>1 DEF ReadRequest, Request, CopyKinds, CopyKeeps
  <2>3. requests' = requests \cup {m} /\ UNCHANGED <<tab, copies>> /\ Here(t)
    BY <1>8, <2>1 DEF RefreshWorkflow, Send, serverVars
  <2> QED BY <1>2, <2>2, <2>3
<1>9. CASE SameDocumentSnapshot(t)
  <2>1. PICK r \in s.base .. Revision :
          Becomes(t, [s EXCEPT !.draft = history[r].content, !.base = r,
              !.persisted = s.version, !.conflict = NoConflict, !.copy = NoCopy, !.key = 0])
    BY <1>9 DEF SameDocumentSnapshot
  <2>2. PICK s2 :
          s2 = [s EXCEPT !.draft = history[r].content, !.base = r,
                 !.persisted = s.version, !.conflict = NoConflict, !.copy = NoCopy, !.key = 0]
    OBVIOUS
  <2>3. CopyKeeps(s, s2)
    BY <1>1, <2>2 DEF TabFields, CopyKeeps
  <2>4. Becomes(t, s2) /\ UNCHANGED <<copies, requests>> /\ Here(t)
    BY <1>9, <2>1, <2>2 DEF SameDocumentSnapshot, serverVars
  <2> QED BY <1>2, <2>3, <2>4
<1>10. CASE LoadServerVersion(t)
  <2>1. PICK s2 :
          s2 = [s EXCEPT !.gen = @ + 1, !.version = @ + 1, !.persisted = s.version + 1,
                 !.draft = s.conflict.server, !.base = s.conflict.revision,
                 !.conflict = NoConflict, !.copy = NoCopy, !.key = 0, !.save = "saved"]
    OBVIOUS
  <2>2. CopyKeeps(s, s2)
    BY <1>1, <2>1 DEF TabFields, CopyKeeps
  <2>3. Becomes(t, s2) /\ UNCHANGED <<copies, requests>> /\ Here(t)
    BY <1>10, <2>1 DEF LoadServerVersion, serverVars
  <2> QED BY <1>2, <2>2, <2>3
<1> QED BY <1>3, <1>4, <1>5, <1>6, <1>7, <1>8, <1>9, <1>10 DEF Autosave, Retry

\* So are the answers that are not about a copy, or say that the copy is another's by now.
LEMMA AnswerAside ==
    ASSUME IInv, NEW m \in requests, UNCHANGED copies,
           \/ TakeSave(m) \/ TakeApply(m) \/ TakeUndo(m) \/ TakeReadiness(m) \/ TakeRead(m)
           \/ TakeCopy(m) /\ m.answer.kind = "conflict" /\ m.answer.content # m.sent
    PROVE  /\ \E s2 : AsideOf(m.tab, s2)
           /\ requests \ {m} \subseteq requests' /\ m.kind # "create"
<1> DEFINE s == tab[m.tab]
<1>1. m.tab \in Tabs /\ DOMAIN s = TabFields
  BY OldRequests DEF TabSound
<1>2. ASSUME NEW s2, Take(m, s2), m.kind # "create", CopyKeeps(s, s2)
      PROVE  /\ \E x : AsideOf(m.tab, x)
             /\ requests \ {m} \subseteq requests' /\ m.kind # "create"
  BY <1>2 DEF Take, AsideOf
<1>3. CASE TakeSave(m)
  <2>1. PICK s2 : Take(m, s2) /\ s2 \in {Saved(s, m), SaveConflicts(s, m), NotSaved(s, m)}
    BY <1>3 DEF TakeSave
  <2>2. CopyKeeps(s, s2)
    <3>1. CASE s2 = Saved(s, m)
      BY <1>1, <3>1 DEF Saved, TabFields, CopyKeeps
    <3>2. CASE s2 = SaveConflicts(s, m)
      BY <1>1, <3>2 DEF SaveConflicts, Recovered, TabFields, CopyKeeps
    <3>3. CASE s2 = NotSaved(s, m)
      BY <1>1, <3>3 DEF NotSaved, TabFields, CopyKeeps
    <3> QED BY <2>1, <3>1, <3>2, <3>3
  <2> QED BY <1>2, <1>3, <2>1, <2>2 DEF TakeSave
<1>4. CASE TakeApply(m)
  <2>1. PICK s2 : Take(m, s2) /\ s2 \in {AppliedTo(s, m), Recovered(s, m.answer), s}
    BY <1>4 DEF TakeApply
  <2>2. CopyKeeps(s, s2)
    <3>1. CASE s2 = AppliedTo(s, m)
      BY <1>1, <3>1 DEF AppliedTo, TabFields, CopyKeeps
    <3>2. CASE s2 = Recovered(s, m.answer)
      BY <1>1, <3>2 DEF Recovered, TabFields, CopyKeeps
    <3> QED BY <2>1, <3>1, <3>2 DEF CopyKeeps
  <2> QED BY <1>2, <1>4, <2>1, <2>2 DEF TakeApply
<1>5. CASE TakeUndo(m)
  <2>1. PICK s2 : Take(m, s2) /\ s2 \in {Undone(s, m), Recovered(s, m.answer), s}
    BY <1>5 DEF TakeUndo
  <2>2. CopyKeeps(s, s2)
    <3>1. CASE s2 = Undone(s, m)
      BY <1>1, <3>1 DEF Undone, TabFields, CopyKeeps
    <3>2. CASE s2 = Recovered(s, m.answer)
      BY <1>1, <3>2 DEF Recovered, TabFields, CopyKeeps
    <3> QED BY <2>1, <3>1, <3>2 DEF CopyKeeps
  <2> QED BY <1>2, <1>5, <2>1, <2>2 DEF TakeUndo
<1>6. CASE TakeReadiness(m)
  <2>1. PICK s2 : s2 = IF m.answer.kind = "refused" THEN s ELSE ReadinessTaken(s, m)
    OBVIOUS
  <2>2. PICK read : read = ReadRequest(m.tab, s)
    OBVIOUS
  <2>3. /\ Becomes(m.tab, s2) /\ requests' = (requests \ {m}) \cup {read}
        /\ m.kind = "readiness"
    BY <1>6, <2>1, <2>2 DEF TakeReadiness, TakeAndSend
  <2>4. CopyKeeps(s, s2)
    BY <1>1, <2>1 DEF ReadinessTaken, TabFields, CopyKeeps
  <2>5. read.tab = m.tab /\ read.kind \notin CopyKinds
    BY <2>2 DEF ReadRequest, Request, CopyKinds
  <2>6. AsideOf(m.tab, s2)
    BY <2>3, <2>4, <2>5 DEF AsideOf
  <2> QED BY <2>3, <2>6
<1>7. CASE TakeRead(m)
  <2> DEFINE w == [readiness |-> m.answer.readiness, revision |-> m.answer.revision]
             s2 == [s EXCEPT !.mutating = FALSE,
                      !.workflow = IF m.answer.kind = "ok" THEN w ELSE @]
  <2>1. Take(m, s2) /\ m.kind = "read"
    BY <1>7 DEF TakeRead
  <2>2. CopyKeeps(s, s2)
    BY <1>1 DEF TabFields, CopyKeeps
  <2> HIDE DEF s2
  <2> QED BY <1>2, <2>1, <2>2
<1>8. CASE TakeCopy(m) /\ m.answer.kind = "conflict" /\ m.answer.content # m.sent
  <2>1. PICK s2 : s2 = [s EXCEPT !.copy = NoCopy, !.key = 0]
    OBVIOUS
  <2>2. Take(m, s2) /\ m.kind = "copy"
    BY <1>8, <2>1 DEF TakeCopy
  <2>3. CopyKeeps(s, s2)
    BY <1>1, <2>1 DEF TabFields, CopyKeeps
  <2> QED BY <1>2, <2>2, <2>3
<1> QED BY <1>3, <1>4, <1>5, <1>6, <1>7, <1>8

\* The answered request m, of the same kind, tab and key.
LEMMA AnsweredRequest ==
    ASSUME IInv, NEW m \in requests, NEW answer, Answered(m, answer), NEW m2,
           m2 = [m EXCEPT !.answer = answer]
    PROVE  /\ requests' = (requests \ {m}) \cup (IF m.waiting THEN {m2} ELSE {})
           /\ m2.kind = m.kind /\ m2.tab = m.tab /\ m2.key = m.key /\ m2.waiting = m.waiting
           /\ m2.expected = m.expected /\ m2.sent = m.sent /\ m2.answer = answer
<1>1. DOMAIN m = RequestFields
  BY OldRequests DEF Sound
<1> QED BY <1>1 DEF Answered, RequestFields

\* Of every copy, a record with the same fields.
LEMMA CopiesMade ==
    ASSUME CInv, [Next]_vars
    PROVE  CInv'
<1> USE DEF CInv
<1>3. ASSUME UNCHANGED copies PROVE CInv'
  BY <1>3
<1>4. CASE Serve(Tabs, Kinds)
  <2>1. PICK m \in requests :
          \/ ServeSave(m) \/ ServeApply(m) \/ ServeUndo(m) \/ ServeReadiness(m)
          \/ ServeRead(m) \/ ServeCreate(m) \/ ServeCopy(m)
    BY <1>4 DEF Serve
  <2>2. CASE ServeSave(m) \/ ServeApply(m) \/ ServeUndo(m) \/ ServeReadiness(m) \/ ServeRead(m)
    BY <1>3, <2>2 DEF ServeSave, ServeApply, ServeUndo, ServeReadiness, ServeRead, serverVars
  <2>3. CASE ServeCreate(m)
    <3> DEFINE k == <<m.tab, m.key>>
               there == {c \in copies : c.key = k}
               made == [key |-> k, content |-> m.sent, revision |-> 1, shared |-> FALSE]
               chosen == CHOOSE c \in there : TRUE
    <3>1. PICK c : copies' = copies \cup {c} /\ c = IF there = {} THEN made ELSE chosen
      BY <2>3 DEF ServeCreate
    <3>2. there # {} => chosen \in copies
      OBVIOUS
    <3>3. DOMAIN made = CopyFields
      BY DEF CopyFields
    <3> HIDE DEF made, there, chosen
    <3> QED BY <3>1, <3>2, <3>3
  <2>4. CASE ServeCopy(m)
    <3>1. PICK c \in copies : \E d : /\ copies' = (copies \ {c}) \cup {d}
            /\ d \in {[c EXCEPT !.content = m.sent, !.revision = @ + 1], c}
      BY <2>4 DEF ServeCopy
    <3>2. PICK d : /\ copies' = (copies \ {c}) \cup {d}
                   /\ d \in {[c EXCEPT !.content = m.sent, !.revision = @ + 1], c}
      BY <3>1
    <3>3. DOMAIN d = CopyFields
      BY <3>2 DEF CopyFields
    <3> QED BY <3>2, <3>3
  <2> QED BY <2>1, <2>2, <2>3, <2>4
<1>5. CASE OtherEditsCopy
  <2>1. PICK c \in copies : copies' = (copies \ {c}) \cup
             {[c EXCEPT !.content = @ \cup {Other}, !.revision = @ + 1, !.shared = TRUE]}
    BY <1>5 DEF OtherEditsCopy
  <2>2. PICK d : d = [c EXCEPT !.content = @ \cup {Other}, !.revision = @ + 1, !.shared = TRUE]
    OBVIOUS
  <2>3. DOMAIN d = CopyFields
    BY <2>2 DEF CopyFields
  <2> QED BY <2>1, <2>2, <2>3
<1>6. CASE TakeAnswer(Tabs, Kinds) \/ Lose \/ EndPlainWrites \/ UNCHANGED vars
  BY <1>3, <1>6 DEF TakeAnswer, Lose, EndPlainWrites, serverVars, vars
<1>7. CASE \E t \in Tabs :
             \/ Type(t) \/ Autosave(t) \/ Retry(t) \/ AcceptProposals(t) \/ UndoChange(t)
             \/ ChangeReadiness(t) \/ RefreshWorkflow(t) \/ SameDocumentSnapshot(t)
             \/ LoadServerVersion(t) \/ SaveAsNew(t)
  BY <1>3, <1>7 DEF Type, Autosave, Retry, SaveDraft, AcceptProposals, UndoChange, ChangeReadiness,
         RefreshWorkflow, SameDocumentSnapshot, LoadServerVersion, SaveAsNew, serverVars
<1> QED BY <1>4, <1>5, <1>6, <1>7 DEF Next

\* At first there are no copies.
LEMMA InitCopies == Init => CInv
BY DEF Init, CInv

-----------------------------------------------------------------------------
(* Recovery copies: what the text that is sent to one has of its tab.       *)
\* A write that succeeded, and one that is not served yet.
Done(m) == m.kind \in Writes /\ m.answer.kind = "ok"
Asked(m) == m.kind \in Writes /\ m.answer = NoAnswer

\* A request whose answer replaces the draft or its base: the save that counts, or a command.
Awaited(m, s) == Current(m, s) \/ (m.kind \in {"apply", "undo"} /\ m.waiting)

\* The text has all of t's that revisions from b on have, or may get from what t asked.
Within(t, b, text, h, rs) ==
    /\ \A r \in b .. Len(h) : Own(t, h[r].content) \subseteq text
    /\ \A n \in rs : n.tab = t /\ Asked(n) /\ n.expected >= b => Own(t, n.sent) \subseteq text

\* It has all of t's that the draft has, or that a newer page may bring.
Holds(t, s, text, h, rs) ==
    /\ Own(t, s.draft) \subseteq text
    /\ s.save = "saved" => Within(t, s.base, text, h, rs)

\* The write of t that is awaited and done is the last one that t did.
Latest(m, s, h, rs) ==
    /\ s.base < m.answer.revision
    /\ Within(m.tab, m.answer.revision, h[m.answer.revision].content, h, rs)
    /\ \A n \in rs \ {m} : n.tab = m.tab =>
         /\ Asked(n) => n.expected < m.answer.revision
         /\ Done(n) => n.answer.revision < m.answer.revision
         /\ n.kind = "readiness" /\ n.answer.kind = "ok" => n.answer.revision # m.answer.revision

\* The save that counts has a later draft than what is persisted or still on its way.
Unsettled(s) == s.save = "dirty" \/ (s.save = "failed" /\ s.conflict = NoConflict)
SavesOrdered(t, s, rs) ==
    /\ Unsettled(s) =>
         /\ s.persisted < s.version
         /\ \A n \in rs : n.tab = t /\ n.kind = "save" /\ n.waiting => n.version < s.version
    /\ \A m \in rs : m.tab = t /\ Current(m, s) =>
         /\ s.persisted < m.version
         /\ \A n \in rs \ {m} : n.tab = t /\ n.kind = "save" /\ n.waiting => n.version < m.version

\* What the editor s of tab t, and a request m of a tab with editor s, have to do with them.
TabOwn(t, s, h, rs) ==
    /\ SavesOrdered(t, s, rs)
    /\ s.conflict # NoConflict => Holds(t, s, s.conflict.local, h, rs)

RequestOwn(m, s, h, rs) ==
    /\ m.kind \in {"save", "apply"} /\ m.answer.kind = "ok" =>
         Own(m.tab, m.answer.content) \subseteq m.sent
    /\ m.kind # "undo" /\ Awaited(m, s) /\ m.version = s.version => m.sent = s.draft
    /\ m.kind \in CopyKinds /\ m.waiting /\ m.version = s.version =>
         Holds(m.tab, s, m.sent, h, rs)
    /\ Awaited(m, s) /\ Done(m) => Latest(m, s, h, rs)

OInv ==
    /\ \A t \in Tabs : TabOwn(t, tab[t], history, requests)
    /\ \A m \in requests : RequestOwn(m, tab[m.tab], history, requests)

-----------------------------------------------------------------------------
\* A request that its tab no longer waits for; and what tab t sends with its editor as it is.
Faded(n, o) ==
    /\ o.answer = NoAnswer /\ n.answer = NoAnswer /\ n.waiting = FALSE
    /\ n.tab = o.tab /\ n.kind = o.kind /\ n.sent = o.sent
    /\ n.expected = o.expected /\ n.key = o.key
Fresh(n, t, s) ==
    /\ n.tab = t /\ n.answer = NoAnswer
    /\ n.kind \in Writes => n.expected = s.base /\ Own(t, n.sent) \subseteq s.draft
Sends(t) ==
    \A n \in requests' :
        n \in requests \/ (\E o \in requests : Faded(n, o)) \/ Fresh(n, t, tab[t])

\* A request that fails on the way fades.
LEMMA FadedRequest ==
    ASSUME IInv, NEW o \in requests, o.answer = NoAnswer, NEW n, n = [o EXCEPT !.waiting = FALSE]
    PROVE  Faded(n, o)
<1>1. DOMAIN o = RequestFields
  BY OldRequests DEF Sound
<1> QED BY <1>1 DEF Faded, RequestFields

\* From a later revision on there is no more.
LEMMA WithinLater ==
    ASSUME FInv, NEW t \in Tabs, NEW text, NEW a \in Nat, NEW b \in Nat, a <= b,
           Within(t, a, text, history, requests)
    PROVE  Within(t, b, text, history, requests)
<1>1. \A r \in b .. Len(history) : r \in a .. Len(history)
  OBVIOUS
<1>2. \A n \in requests : Asked(n) /\ n.expected >= b => n.expected >= a
  BY DEF FInv, RequestFounded, Asked
<1> QED BY <1>1, <1>2 DEF Within

\* What t sends is what the text has.
LEMMA WithinSent ==
    ASSUME NEW t, Sends(t), UNCHANGED history, NEW u, NEW b, NEW text,
           Within(u, b, text, history, requests),
           u = t => Own(t, tab[t].draft) \subseteq text \/ ~(tab[t].base >= b)
    PROVE  Within(u, b, text, history', requests')
<1> SUFFICES ASSUME NEW n \in requests', n.tab = u, Asked(n), n.expected >= b
             PROVE  Own(u, n.sent) \subseteq text
  BY DEF Within
<1>1. CASE n \in requests
  BY <1>1 DEF Within
<1>2. CASE \E o \in requests : Faded(n, o)
  BY <1>2 DEF Within, Faded, Asked
<1>3. CASE Fresh(n, t, tab[t])
  <2>1. u = t /\ n.expected = tab[t].base /\ Own(t, n.sent) \subseteq tab[t].draft
    BY <1>3 DEF Fresh, Asked
  <2>2. Own(t, n.sent) \subseteq Own(t, tab[t].draft)
    BY <2>1 DEF Own
  <2> QED BY <2>1, <2>2
<1> QED BY <1>1, <1>2, <1>3 DEF Sends

\* A step of tab t that keeps what a text has of its draft, unless its version advances.
LEMMA OwnTabStep ==
    ASSUME IInv, FInv, OInv, IInv', NEW t \in Tabs, NEW s2, UNCHANGED history,
           Becomes(t, s2) \/ (UNCHANGED tab /\ s2 = tab[t]),
           tab[t].gen <= s2.gen, tab[t].version <= s2.version,
           Sends(t),
           SavesOrdered(t, s2, requests'),
           s2.conflict # NoConflict => Holds(t, s2, s2.conflict.local, history, requests'),
           s2.version = tab[t].version =>
             \A text : Holds(t, tab[t], text, history, requests) =>
                         Holds(t, s2, text, history, requests'),
           \A m \in requests' \cap requests : m.tab = t /\ Awaited(m, s2) =>
             /\ s2.version = tab[t].version => s2.draft = tab[t].draft
             /\ Done(m) => s2.base < m.answer.revision,
           \A m \in requests' \ requests : m.waiting =>
             /\ m.kind \in {"save", "apply"} => m.sent = s2.draft
             /\ m.kind \in CopyKinds /\ m.version = s2.version =>
                  Holds(t, s2, m.sent, history, requests')
    PROVE  OInv'
<1>1. DOMAIN tab = Tabs /\ tab'[t] = s2 /\ \A u \in Tabs \ {t} : tab'[u] = tab[u]
  BY DEF IInv, Becomes
<1>2. TabSound(t, s2, history) /\ TabSound(t, tab[t], history) /\ HistorySound(history)
  BY <1>1 DEF IInv
<1>3. ASSUME NEW u \in Tabs \ {t}, NEW b, NEW text, Within(u, b, text, history, requests)
      PROVE  Within(u, b, text, history, requests')
  BY <1>3, WithinSent
<1>4. ASSUME NEW n \in requests', n \notin requests, n.tab # t
      PROVE  /\ n.answer = NoAnswer /\ n.waiting = FALSE /\ n.tab \in Tabs
             /\ \E o \in requests : Faded(n, o)
  BY <1>4 DEF Sends, Fresh, Faded, IInv
<1>5. ASSUME NEW u \in Tabs PROVE TabOwn(u, tab'[u], history, requests')
  <2>1. CASE u = t
    BY <1>1, <2>1 DEF TabOwn
  <2>2. CASE u # t
    <3>1. tab'[u] = tab[u] /\ TabOwn(u, tab[u], history, requests)
      BY <1>1, <2>2 DEF OInv
    <3>2. \A n \in requests' : n.tab = u /\ n.waiting => n \in requests
      BY <1>4, <2>2
    <3>3. SavesOrdered(u, tab[u], requests')
      BY <3>1, <3>2 DEF TabOwn, SavesOrdered, Current
    <3>4. tab[u].conflict # NoConflict => Holds(u, tab[u], tab[u].conflict.local, history, requests')
      BY <1>3, <2>2, <3>1 DEF TabOwn, Holds
    <3> QED BY <3>1, <3>3, <3>4 DEF TabOwn
  <2> QED BY <2>1, <2>2
<1>6. ASSUME NEW m \in requests' \cap requests, m.tab = t PROVE RequestOwn(m, s2, history, requests')
  <2>1. /\ RequestOwn(m, tab[t], history, requests) /\ Sound(m, tab[t], history)
        /\ RequestFounded(m, tab[t], history)
    BY <1>6, OldRequests DEF OInv, FInv
  <2>2. /\ m.version \in Nat /\ m.version <= tab[t].version /\ tab[t].version \in Nat
        /\ s2.version \in Nat
        /\ m.gen \in Nat /\ m.gen <= tab[t].gen /\ tab[t].gen \in Nat /\ s2.gen \in Nat
    BY <1>2, <2>1 DEF Sound, TabSound
  <2>3. ASSUME m.version = s2.version
        PROVE  m.version = tab[t].version /\ s2.version = tab[t].version
    BY <2>2, <2>3
  <2>4. ASSUME Awaited(m, s2) PROVE Awaited(m, tab[t])
    BY <2>2, <2>4 DEF Awaited, Current
  <2>5. m.kind # "undo" /\ Awaited(m, s2) /\ m.version = s2.version => m.sent = s2.draft
    BY <1>6, <2>1, <2>3, <2>4 DEF RequestOwn
  <2>6. m.kind \in CopyKinds /\ m.waiting /\ m.version = s2.version =>
          Holds(t, s2, m.sent, history, requests')
    BY <1>6, <2>1, <2>3 DEF RequestOwn
  <2>7. ASSUME Awaited(m, s2), Done(m) PROVE Latest(m, s2, history, requests')
    <3> DEFINE r == m.answer.revision
    <3>1. s2.base < r /\ Latest(m, tab[t], history, requests)
      BY <1>6, <2>1, <2>4, <2>7 DEF RequestOwn
    <3>2. r \in Nat /\ tab[t].base \in Nat
      BY <1>2, <2>1, <2>7 DEF Sound, Done, TabSound
    <3>3. tab[t].base < r
      BY <3>1 DEF Latest
    <3>4. ~(tab[t].base >= r)
      BY <3>2, <3>3
    <3>5. Within(t, r, history[r].content, history, requests')
      <4>1. Within(t, r, history[r].content, history, requests)
        BY <1>6, <3>1 DEF Latest
      <4> HIDE DEF r
      <4> QED BY <3>4, <4>1, WithinSent
    <3>6. ASSUME NEW n \in requests' \ {m}, n.tab = t
          PROVE  /\ Asked(n) => n.expected < r
                 /\ Done(n) => n.answer.revision < r
                 /\ n.kind = "readiness" /\ n.answer.kind = "ok" => n.answer.revision # r
      <4>1. CASE n \in requests
        BY <1>6, <3>1, <3>6, <4>1 DEF Latest
      <4>2. CASE \E o \in requests : Faded(n, o)
        <5>1. PICK o \in requests : Faded(n, o)
          BY <4>2
        <5>2. o # m /\ o.tab = t /\ n.expected = o.expected /\ n.kind = o.kind /\ n.answer = NoAnswer
              /\ o.answer = NoAnswer
          BY <2>7, <3>6, <5>1 DEF Faded, Done, NoAnswer
        <5>3. Asked(o) => o.expected < r
          BY <1>6, <3>1, <5>2 DEF Latest
        <5> QED BY <5>2, <5>3 DEF Asked, Done, NoAnswer
      <4>3. CASE Fresh(n, t, tab[t])
        BY <3>3, <4>3 DEF Fresh, Asked, Done, NoAnswer
      <4> QED BY <4>1, <4>2, <4>3 DEF Sends
    <3> QED BY <1>6, <3>1, <3>5, <3>6 DEF Latest
  <2> QED BY <1>6, <2>1, <2>5, <2>6, <2>7 DEF RequestOwn
<1>7. ASSUME NEW m \in requests' \cap requests, m.tab # t
      PROVE  RequestOwn(m, tab[m.tab], history, requests')
  <2> DEFINE s == tab[m.tab]
  <2>1. RequestOwn(m, s, history, requests) /\ m.tab \in Tabs \ {t}
    BY <1>7, OldRequests DEF OInv
  <2>2. \A text : Holds(m.tab, s, text, history, requests) => Holds(m.tab, s, text, history, requests')
    BY <1>3, <2>1 DEF Holds
  <2>3. ASSUME Latest(m, s, history, requests), Done(m) PROVE Latest(m, s, history, requests')
    <3>1. Within(m.tab, m.answer.revision, history[m.answer.revision].content, history, requests')
      BY <1>3, <2>1, <2>3 DEF Latest
    <3>2. ASSUME NEW n \in requests' \ {m}, n.tab = m.tab
          PROVE  /\ Asked(n) => n.expected < m.answer.revision
                 /\ Done(n) => n.answer.revision < m.answer.revision
                 /\ n.kind = "readiness" /\ n.answer.kind = "ok" =>
                      n.answer.revision # m.answer.revision
      <4>1. CASE n \in requests
        BY <2>3, <3>2, <4>1 DEF Latest
      <4>2. CASE n \notin requests
        <5>1. PICK o \in requests : Faded(n, o)
          BY <1>4, <1>7, <3>2, <4>2
        <5>2. o # m /\ o.tab = m.tab /\ n.expected = o.expected /\ n.kind = o.kind
              /\ n.answer = NoAnswer /\ o.answer = NoAnswer
          BY <2>3, <3>2, <5>1 DEF Faded, Done, NoAnswer
        <5>3. Asked(o) => o.expected < m.answer.revision
          BY <2>3, <5>2 DEF Latest
        <5> QED BY <5>2, <5>3 DEF Asked, Done, NoAnswer
      <4> QED BY <4>1, <4>2
    <3> QED BY <2>3, <3>1, <3>2 DEF Latest
  <2> HIDE DEF s
  <2>4. m.kind \in CopyKinds /\ m.waiting /\ m.version = s.version =>
          Holds(m.tab, s, m.sent, history, requests')
    BY <2>1, <2>2 DEF RequestOwn
  <2>5. Awaited(m, s) /\ Done(m) => Latest(m, s, history, requests')
    BY <2>1, <2>3 DEF RequestOwn
  <2>6. RequestOwn(m, s, history, requests')
    BY <2>1, <2>4, <2>5 DEF RequestOwn
  <2> QED BY <2>6 DEF s
<1>8. ASSUME NEW m \in requests', m \notin requests
      PROVE  RequestOwn(m, tab'[m.tab], history, requests')
  <2>1. CASE \E o \in requests : Faded(m, o)
    <3>1. m.answer = NoAnswer /\ m.waiting = FALSE
      BY <2>1 DEF Faded
    <3> QED BY <3>1 DEF RequestOwn, Awaited, Current, NoAnswer
  <2>2. CASE Fresh(m, t, tab[t])
    <3>1. m.answer = NoAnswer /\ m.tab = t
      BY <2>2 DEF Fresh
    <3>2. Awaited(m, s2) /\ m.kind # "undo" => m.sent = s2.draft
      BY <1>8 DEF Awaited, Current
    <3>3. m.kind \in CopyKinds /\ m.waiting /\ m.version = s2.version =>
            Holds(t, s2, m.sent, history, requests')
      BY <1>8
    <3> QED BY <1>1, <3>1, <3>2, <3>3 DEF RequestOwn, Done, NoAnswer
  <2> QED BY <1>8, <2>1, <2>2 DEF Sends
<1>9. \A m \in requests' : RequestOwn(m, tab'[m.tab], history, requests')
  <2> SUFFICES ASSUME NEW m \in requests', m \in requests
               PROVE  RequestOwn(m, tab'[m.tab], history, requests')
    BY <1>8
  <2>1. m.tab \in Tabs
    BY OldRequests
  <2> QED BY <1>1, <1>6, <1>7, <2>1
<1> QED BY <1>5, <1>9 DEF OInv

\* What a text has of the draft stays, when nothing but a later base comes.
LEMMA HoldsQuiet ==
    ASSUME IInv, FInv, NEW t \in Tabs, NEW s2, Sends(t), UNCHANGED history,
           TabSound(t, s2, history),
           s2.draft = tab[t].draft, tab[t].base <= s2.base,
           s2.save = "saved" => tab[t].save = "saved",
           NEW text, Holds(t, tab[t], text, history, requests)
    PROVE  Holds(t, s2, text, history, requests')
<1>1. tab[t].base \in Nat /\ s2.base \in Nat
  BY DEF IInv, TabSound
<1>2. ASSUME s2.save = "saved" PROVE Within(t, s2.base, text, history, requests')
  <2>1. Within(t, tab[t].base, text, history, requests) /\ Own(t, tab[t].draft) \subseteq text
    BY <1>2 DEF Holds
  <2>2. Within(t, tab[t].base, text, history, requests')
    BY <2>1, WithinSent
  <2>3. \A r \in s2.base .. Len(history) : r \in tab[t].base .. Len(history)
    BY <1>1
  <2>4. \A n \in requests' : Asked(n) => n.expected \in Nat
    <3> SUFFICES ASSUME NEW n \in requests', Asked(n) PROVE n.expected \in Nat
      OBVIOUS
    <3>1. \A o \in requests : Asked(o) => o.expected \in Nat
      BY DEF FInv, RequestFounded, Asked
    <3> QED BY <1>1, <3>1 DEF Sends, Faded, Fresh, Asked
  <2>5. \A n \in requests' : Asked(n) /\ n.expected >= s2.base => n.expected >= tab[t].base
    BY <1>1, <2>4
  <2> QED BY <2>2, <2>3, <2>5 DEF Within
<1> QED BY <1>2 DEF Holds

\* The saves that are awaited stay what they are, or one of them was answered.
LEMMA SavesQuiet ==
    ASSUME NEW t, NEW s, NEW s2, NEW rs, NEW rs2, SavesOrdered(t, s, rs),
           s2.version = s.version, s2.persisted = s.persisted, s2.gen = s.gen,
           Unsettled(s2) => Unsettled(s),
           \A n \in rs2 : n.tab = t /\ n.kind = "save" /\ n.waiting => n \in rs
    PROVE  SavesOrdered(t, s2, rs2)
BY DEF SavesOrdered, Current

\* Steps that leave the draft, its version and its conflict alone; the base may advance.
LEMMA OwnQuiet ==
    ASSUME IInv, FInv, OInv, IInv', NEW t \in Tabs, NEW s2, UNCHANGED history,
           Becomes(t, s2) \/ (UNCHANGED tab /\ s2 = tab[t]),
           s2.draft = tab[t].draft, s2.version = tab[t].version, s2.gen = tab[t].gen,
           s2.persisted = tab[t].persisted, s2.conflict = tab[t].conflict,
           tab[t].base <= s2.base, s2.save = tab[t].save,
           Sends(t),
           \A m \in requests' \cap requests : m.tab = t /\ Awaited(m, s2) /\ Done(m) =>
             s2.base < m.answer.revision,
           \A m \in requests' \ requests : m.waiting =>
             /\ m.kind # "save"
             /\ m.kind = "apply" => m.sent = tab[t].draft
             /\ m.kind \in CopyKinds /\ m.version = tab[t].version =>
                  Holds(t, tab[t], m.sent, history, requests)
    PROVE  OInv'
<1>1. TabSound(t, s2, history) /\ TabSound(t, tab[t], history)
  BY DEF IInv, Becomes
<1>2. TabOwn(t, tab[t], history, requests)
  BY DEF OInv
<1>3. SavesOrdered(t, s2, requests')
  <2>1. \A n \in requests' : n.tab = t /\ n.kind = "save" /\ n.waiting => n \in requests
    OBVIOUS
  <2>2. Unsettled(s2) => Unsettled(tab[t])
    BY DEF Unsettled
  <2> QED BY <1>2, <2>1, <2>2, SavesQuiet DEF TabOwn
<1>4. \A text : Holds(t, tab[t], text, history, requests) => Holds(t, s2, text, history, requests')
  BY <1>1, HoldsQuiet
<1>5. s2.conflict # NoConflict => Holds(t, s2, s2.conflict.local, history, requests')
  BY <1>2, <1>4 DEF TabOwn
<1>6. tab[t].gen <= s2.gen /\ tab[t].version <= s2.version
  BY <1>1 DEF TabSound
<1>7. \A m \in requests' \ requests : m.waiting =>
        /\ m.kind \in {"save", "apply"} => m.sent = s2.draft
        /\ m.kind \in CopyKinds /\ m.version = s2.version =>
             Holds(t, s2, m.sent, history, requests')
  BY <1>4
<1> QED BY <1>3, <1>4, <1>5, <1>6, <1>7, OwnTabStep

\* One that only advances the base when nothing says otherwise.
LEMMA OwnStill ==
    ASSUME IInv, FInv, OInv, IInv', NEW t \in Tabs, NEW s2, UNCHANGED history,
           Becomes(t, s2) \/ (UNCHANGED tab /\ s2 = tab[t]),
           DOMAIN s2 = TabFields,
           \A f \in TabFields \ {"clicks", "mutating", "workflow", "copy", "key", "keys", "left"} :
             s2[f] = tab[t][f],
           Sends(t),
           \A m \in requests' \ requests : m.waiting =>
             /\ m.kind # "save"
             /\ m.kind = "apply" => m.sent = tab[t].draft
             /\ m.kind \in CopyKinds /\ m.version = tab[t].version =>
                  Holds(t, tab[t], m.sent, history, requests)
    PROVE  OInv'
<1>1. /\ s2.draft = tab[t].draft /\ s2.version = tab[t].version /\ s2.gen = tab[t].gen
      /\ s2.persisted = tab[t].persisted /\ s2.conflict = tab[t].conflict
      /\ s2.base = tab[t].base /\ s2.save = tab[t].save
  BY DEF TabFields
<1>2. tab[t].base <= s2.base
  BY <1>1 DEF IInv, TabSound
<1>3. ASSUME NEW m \in requests' \cap requests, m.tab = t, Awaited(m, s2), Done(m)
      PROVE  s2.base < m.answer.revision
  <2>1. Awaited(m, tab[t]) /\ RequestOwn(m, tab[t], history, requests)
    BY <1>1, <1>3 DEF Awaited, Current, OInv
  <2> QED BY <1>1, <1>3, <2>1 DEF RequestOwn, Latest
<1> QED BY <1>1, <1>2, <1>3, OwnQuiet

-----------------------------------------------------------------------------
(* The steps of the user and of the timers.                                *)

\* Typing makes a new version of the draft, and the conflict dialog has it too.
LEMMA TypeOwn ==
    ASSUME IInv, FInv, OInv, IInv', NEW t \in Tabs, Type(t)
    PROVE  OInv'
<1> DEFINE s == tab[t]
<1>1. PICK over \in SUBSET Proposals :
        LET text == (s.draft \ Target(over)) \cup {<<t, s.edits + 1>>} IN
        Becomes(t, [s EXCEPT !.version = @ + 1, !.edits = @ + 1, !.draft = text, !.save = "dirty",
            !.conflict = IF HasConflict(t) THEN [@ EXCEPT !.local = text] ELSE @])
  BY DEF Type
<1> DEFINE text == (s.draft \ Target(over)) \cup {<<t, s.edits + 1>>}
           s2 == [s EXCEPT !.version = @ + 1, !.edits = @ + 1, !.draft = text, !.save = "dirty",
                    !.conflict = IF HasConflict(t) THEN [@ EXCEPT !.local = text] ELSE @]
<1>2. TabSound(t, s, history) /\ TabOwn(t, s, history, requests)
  BY DEF IInv, OInv
<1>3. /\ s2.draft = text /\ s2.version = s.version + 1 /\ s2.gen = s.gen
      /\ s2.persisted = s.persisted /\ s2.base = s.base /\ s2.save = "dirty"
      /\ HasConflict(t) => s2.conflict.local = text
      /\ HasConflict(t) \/ s2.conflict = s.conflict
  BY <1>2 DEF TabSound, TabFields
<1>4. Becomes(t, s2) /\ UNCHANGED <<history, requests>>
  BY <1>1 DEF Type, serverVars
<1> HIDE DEF s2, text
<1>5. s.version \in Nat /\ s.persisted \in Nat /\ s.persisted <= s.version /\ s.gen \in Nat
      /\ s.base \in Nat
  BY <1>2 DEF TabSound
<1>6. SavesOrdered(t, s2, requests)
  <2>1. \A n \in requests : n.tab = t => n.version \in Nat /\ n.version <= s.version
    BY OldRequests DEF Sound
  <2>2. \A n \in requests : n.tab = t => n.version < s2.version
    BY <1>3, <1>5, <2>1
  <2>3. s2.persisted < s2.version
    BY <1>3, <1>5
  <2>4. \A m \in requests : Current(m, s2) => Current(m, s)
    BY <1>3 DEF Current
  <2> QED BY <1>2, <1>3, <2>2, <2>3, <2>4 DEF SavesOrdered, TabOwn
<1>7. Own(t, s2.draft) \subseteq text
  BY <1>3 DEF Own
<1>8. s2.conflict # NoConflict => Holds(t, s2, s2.conflict.local, history, requests)
  BY <1>3, <1>7 DEF Holds, HasConflict
<1>9. Sends(t)
  BY <1>4 DEF Sends
<1>10. ASSUME NEW m \in requests, m.tab = t, Awaited(m, s2), Done(m)
       PROVE  s2.base < m.answer.revision
  <2>1. Awaited(m, s) /\ RequestOwn(m, s, history, requests)
    BY <1>3, <1>10 DEF Awaited, Current, OInv
  <2> QED BY <1>3, <1>10, <2>1 DEF RequestOwn, Latest
<1>11. s2.version # s.version /\ s.gen <= s2.gen /\ s.version <= s2.version
  BY <1>3, <1>5
<1> HIDE DEF s
<1> QED BY <1>4, <1>6, <1>8, <1>9, <1>10, <1>11, OwnTabStep DEF s

\* The save asked for last is the one that counts.
LEMMA SaveOwn ==
    ASSUME IInv, FInv, OInv, IInv', NEW t \in Tabs, NEW clicks, SaveDraft(t, clicks),
           tab[t].save \in {"dirty", "failed"}
    PROVE  OInv'
<1> DEFINE s == tab[t]
           s2 == [s EXCEPT !.gen = @ + 1, !.save = "saving", !.clicks = @ + clicks]
           m == Request(t, s2, "save")
<1>1. TabSound(t, s, history) /\ TabOwn(t, s, history, requests)
  BY DEF IInv, OInv
<1>2. /\ Becomes(t, s2) /\ requests' = requests \cup {m} /\ UNCHANGED history
      /\ s.conflict = NoConflict
  BY DEF SaveDraft, Send, serverVars, HasConflict
<1>3. /\ s2.draft = s.draft /\ s2.version = s.version /\ s2.gen = s.gen + 1
      /\ s2.persisted = s.persisted /\ s2.base = s.base /\ s2.conflict = s.conflict
      /\ s2.save = "saving"
  BY <1>1 DEF TabSound, TabFields
<1>4. /\ m.tab = t /\ m.kind = "save" /\ m.sent = s2.draft /\ m.expected = s2.base
      /\ m.gen = s2.gen /\ m.answer = NoAnswer /\ m.version = s2.version
  BY DEF Request
<1> HIDE DEF s2, m
<1>5. s.gen \in Nat /\ s.version \in Nat
  BY <1>1 DEF TabSound
<1>6. Sends(t)
  BY <1>2, <1>3, <1>4 DEF Sends, Fresh, Own
<1>7. ASSUME NEW n \in requests, n.tab = t PROVE ~Current(n, s2)
  <2>1. n.gen \in Nat /\ n.gen <= s.gen
    BY <1>7, OldRequests DEF Sound
  <2> QED BY <1>3, <1>5, <2>1 DEF Current
<1>8. SavesOrdered(t, s2, requests')
  <2>1. Unsettled(s)
    BY <1>2 DEF Unsettled
  <2>2. ~Unsettled(s2)
    BY <1>3 DEF Unsettled
  <2>3. \A n \in requests' : n.tab = t /\ Current(n, s2) => n = m
    BY <1>2, <1>7
  <2>4. \A n \in requests' \ {m} : n \in requests
    BY <1>2
  <2> QED BY <1>1, <1>3, <1>4, <2>1, <2>2, <2>3, <2>4 DEF SavesOrdered, TabOwn
<1>9. \A text : Holds(t, s, text, history, requests) => Holds(t, s2, text, history, requests')
  BY <1>3 DEF Holds
<1>10. ASSUME NEW n \in requests, n.tab = t, Awaited(n, s2), Done(n)
       PROVE  s2.base < n.answer.revision
  <2>1. Awaited(n, s) /\ RequestOwn(n, s, history, requests)
    BY <1>7, <1>10 DEF Awaited, OInv
  <2> QED BY <1>3, <1>10, <2>1 DEF RequestOwn, Latest
<1>11. s.gen <= s2.gen /\ s.version <= s2.version
  BY <1>3, <1>5
<1>12. \A n \in requests' \ requests :
         n.kind \notin CopyKinds /\ n.sent = s2.draft
  BY <1>2, <1>4 DEF CopyKinds
<1> HIDE DEF s
<1>13. s2.conflict = NoConflict
  BY <1>2, <1>3 DEF s
<1> QED BY <1>2, <1>3, <1>6, <1>8, <1>9, <1>10, <1>11, <1>12, <1>13, OwnTabStep DEF s

\* A click sends a request and leaves the draft alone.
LEMMA ClickOwn ==
    ASSUME IInv, FInv, OInv, IInv', NEW t \in Tabs, NEW s2, NEW m, Send(m), UNCHANGED history,
           Becomes(t, s2) \/ (UNCHANGED tab /\ s2 = tab[t]),
           DOMAIN s2 = TabFields,
           \A f \in TabFields \ {"clicks", "mutating", "workflow", "copy", "key", "keys", "left"} :
             s2[f] = tab[t][f],
           m.tab = t, m.answer = NoAnswer, m.kind # "save",
           m.kind \in Writes => m.expected = tab[t].base /\ Own(t, m.sent) \subseteq tab[t].draft,
           m.kind = "apply" => m.sent = tab[t].draft,
           m.kind \in CopyKinds => Holds(t, tab[t], m.sent, history, requests)
    PROVE  OInv'
<1>1. requests' = requests \cup {m}
  BY DEF Send
<1>2. Sends(t)
  BY <1>1 DEF Sends, Fresh
<1> QED BY <1>1, <1>2, OwnStill

\* The whole draft goes with the proposals.
LEMMA AcceptOwn ==
    ASSUME IInv, FInv, OInv, IInv', NEW t \in Tabs, AcceptProposals(t)
    PROVE  OInv'
<1> DEFINE s2 == [tab[t] EXCEPT !.clicks = @ + 1]
<1>1. TabSound(t, tab[t], history)
  BY DEF IInv
<1>2. PICK ps \in SUBSET Proposals \ {{}} :
        Send([Request(t, tab[t], "apply") EXCEPT
                !.proposals = ps, !.gen = 0, !.key = tab[t].clicks])
  BY DEF AcceptProposals
<1> DEFINE m == [Request(t, tab[t], "apply") EXCEPT
                   !.proposals = ps, !.gen = 0, !.key = tab[t].clicks]
<1>3. /\ DOMAIN s2 = TabFields
      /\ \A f \in TabFields \ {"clicks", "mutating", "workflow", "copy", "key", "keys", "left"} :
           s2[f] = tab[t][f]
  BY <1>1 DEF TabSound, TabFields
<1>4. /\ m.tab = t /\ m.kind = "apply" /\ m.sent = tab[t].draft
      /\ m.expected = tab[t].base /\ m.answer = NoAnswer
      /\ Own(t, m.sent) \subseteq tab[t].draft
  BY DEF Request, Own
<1>5. Becomes(t, s2) /\ UNCHANGED history
  BY DEF AcceptProposals, serverVars
<1> HIDE DEF s2, m
<1>6. Send(m)
  BY <1>2 DEF m
<1>7. m.kind \notin CopyKinds
  BY <1>4 DEF CopyKinds
<1> QED BY <1>3, <1>4, <1>5, <1>6, <1>7, ClickOwn

\* An undo sends no text.
LEMMA UndoOwn ==
    ASSUME IInv, FInv, OInv, IInv', NEW t \in Tabs, UndoChange(t)
    PROVE  OInv'
<1> DEFINE s2 == [tab[t] EXCEPT !.clicks = @ + 1]
           m == [Request(t, tab[t], "undo") EXCEPT !.sent = {}, !.gen = 0, !.key = tab[t].clicks]
<1>1. TabSound(t, tab[t], history)
  BY DEF IInv
<1>2. Becomes(t, s2) /\ Send(m) /\ UNCHANGED history
  BY DEF UndoChange, serverVars
<1>3. /\ DOMAIN s2 = TabFields
      /\ \A f \in TabFields \ {"clicks", "mutating", "workflow", "copy", "key", "keys", "left"} :
           s2[f] = tab[t][f]
  BY <1>1 DEF TabSound, TabFields
<1>4. /\ m.tab = t /\ m.kind = "undo" /\ m.expected = tab[t].base /\ m.answer = NoAnswer
      /\ Own(t, m.sent) \subseteq tab[t].draft
  BY DEF Request, Own
<1>5. m.kind \notin CopyKinds
  BY <1>4 DEF CopyKinds
<1> HIDE DEF s2, m
<1> QED BY <1>2, <1>3, <1>4, <1>5, ClickOwn

\* A readiness change sends no text either.
LEMMA ReadinessOwn ==
    ASSUME IInv, FInv, OInv, IInv', NEW t \in Tabs, ChangeReadiness(t)
    PROVE  OInv'
<1> DEFINE s2 == [tab[t] EXCEPT !.mutating = TRUE, !.clicks = @ + 1]
           m == [ReadRequest(t, tab[t]) EXCEPT !.kind = "readiness",
                  !.readiness = tab[t].workflow.readiness, !.expected = tab[t].workflow.revision]
<1>1. TabSound(t, tab[t], history)
  BY DEF IInv
<1>2. Becomes(t, s2) /\ Send(m) /\ UNCHANGED history
  BY DEF ChangeReadiness, serverVars
<1>3. /\ DOMAIN s2 = TabFields
      /\ \A f \in TabFields \ {"clicks", "mutating", "workflow", "copy", "key", "keys", "left"} :
           s2[f] = tab[t][f]
  BY <1>1 DEF TabSound, TabFields
<1>4. m.tab = t /\ m.kind = "readiness" /\ m.answer = NoAnswer
  BY DEF ReadRequest, Request
<1>5. m.kind \notin Writes /\ m.kind \notin CopyKinds /\ m.kind # "save" /\ m.kind # "apply"
  BY <1>4 DEF Writes, CopyKinds
<1> HIDE DEF s2, m
<1> QED BY <1>2, <1>3, <1>4, <1>5, ClickOwn

\* Nor does reading the workflow.
LEMMA RefreshOwn ==
    ASSUME IInv, FInv, OInv, IInv', NEW t \in Tabs, RefreshWorkflow(t)
    PROVE  OInv'
<1>1. PICK m : m = ReadRequest(t, tab[t]) /\ Send(m)
  BY DEF RefreshWorkflow
<1>2. UNCHANGED <<tab, history>>
  BY DEF RefreshWorkflow, serverVars
<1>3. m.tab = t /\ m.kind = "read" /\ m.answer = NoAnswer
  BY <1>1 DEF ReadRequest, Request
<1>4. m.kind \notin Writes /\ m.kind \notin CopyKinds /\ m.kind # "save" /\ m.kind # "apply"
  BY <1>3 DEF Writes, CopyKinds
<1>5. DOMAIN tab[t] = TabFields
  BY DEF IInv, TabSound
<1> QED BY <1>1, <1>2, <1>3, <1>4, <1>5, ClickOwn

\* A tab that is saved, or tells of a conflict, awaits no save if no request is current.
LEMMA SavesSettled ==
    ASSUME NEW t, NEW s2, NEW rs2, ~Unsettled(s2), \A m \in rs2 : m.tab = t => ~Current(m, s2)
    PROVE  SavesOrdered(t, s2, rs2)
BY DEF SavesOrdered

\* A new generation makes no earlier save current.
LEMMA NoneCurrent ==
    ASSUME IInv, NEW t \in Tabs, NEW s2, s2.gen = tab[t].gen + 1, NEW m \in requests, m.tab = t
    PROVE  ~Current(m, s2)
<1>1. m.gen \in Nat /\ m.gen <= tab[t].gen /\ tab[t].gen \in Nat
  BY OldRequests DEF Sound, TabSound
<1> QED BY <1>1 DEF Current

\* A newer page brings a revision that nothing which is awaited comes after.
LEMMA SnapshotOwn ==
    ASSUME IInv, FInv, OInv, IInv', NEW t \in Tabs, SameDocumentSnapshot(t),
           ~DraftReplacedDuringCommands
    PROVE  OInv'
<1> DEFINE s == tab[t]
<1>1. TabSound(t, s, history) /\ HistorySound(history)
  BY DEF IInv
<1>2. PICK r \in s.base .. Revision :
        Becomes(t, [s EXCEPT !.draft = history[r].content, !.base = r,
            !.persisted = s.version, !.conflict = NoConflict, !.copy = NoCopy, !.key = 0])
  BY DEF SameDocumentSnapshot
<1> DEFINE s2 == [s EXCEPT !.draft = history[r].content, !.base = r,
                    !.persisted = s.version, !.conflict = NoConflict, !.copy = NoCopy, !.key = 0]
<1>3. s.save = "saved" /\ ~Commanding(t) /\ UNCHANGED <<history, requests>>
  BY DEF SameDocumentSnapshot, serverVars, Replaceable
<1>4. /\ s2.draft = history[r].content /\ s2.version = s.version /\ s2.gen = s.gen
      /\ s2.base = r /\ s2.conflict = NoConflict /\ s2.save = s.save
  BY <1>1 DEF TabSound, TabFields
<1>5. Becomes(t, s2)
  BY <1>2
<1> HIDE DEF s2
<1>6. s.base \in Nat /\ r \in Nat /\ s.base <= r /\ s.gen \in Nat /\ s.version \in Nat
      /\ r \in s.base .. Len(history)
  BY <1>1, <1>2 DEF TabSound, Revision, HistorySound
<1>7. ASSUME NEW m \in requests, m.tab = t PROVE ~Awaited(m, s2)
  <2>1. ~Current(m, s)
    BY <1>3, <1>7, FInvUses DEF RequestFounded
  <2>2. ~Current(m, s2)
    BY <1>4, <2>1 DEF Current
  <2> QED BY <1>3, <1>7, <2>2 DEF Commanding, Waiting, Awaited
<1>8. ASSUME NEW text, Holds(t, s, text, history, requests)
      PROVE  Holds(t, s2, text, history, requests)
  <2>1. Within(t, s.base, text, history, requests)
    BY <1>3, <1>8 DEF Holds
  <2>2. Within(t, r, text, history, requests)
    BY <1>6, <2>1, WithinLater
  <2>3. Own(t, history[r].content) \subseteq text
    BY <1>6, <2>1 DEF Within
  <2> QED BY <1>4, <2>2, <2>3 DEF Holds
<1>9. SavesOrdered(t, s2, requests)
  <2>1. ~Unsettled(s2)
    BY <1>3, <1>4 DEF Unsettled
  <2>2. \A m \in requests : m.tab = t => ~Current(m, s2)
    BY <1>7 DEF Awaited
  <2> QED BY <2>1, <2>2, SavesSettled
<1>10. Sends(t)
  BY <1>3 DEF Sends
<1>11. s.gen <= s2.gen /\ s.version <= s2.version
  BY <1>4, <1>6
<1> HIDE DEF s
<1> QED BY <1>3, <1>4, <1>5, <1>7, <1>8, <1>9, <1>10, <1>11, OwnTabStep DEF s

\* The server's version comes with a new version of the draft.
LEMMA LoadOwn ==
    ASSUME IInv, FInv, OInv, IInv', NEW t \in Tabs, LoadServerVersion(t),
           ~DraftReplacedDuringCommands
    PROVE  OInv'
<1> DEFINE s == tab[t]
           s2 == [s EXCEPT !.gen = @ + 1, !.version = @ + 1, !.persisted = s.version + 1,
                    !.draft = s.conflict.server, !.base = s.conflict.revision,
                    !.conflict = NoConflict, !.copy = NoCopy, !.key = 0, !.save = "saved"]
<1>1. TabSound(t, s, history)
  BY DEF IInv
<1>2. /\ Becomes(t, s2) /\ ~Commanding(t) /\ UNCHANGED <<history, requests>>
  BY DEF LoadServerVersion, serverVars, Replaceable
<1>3. /\ s2.version = s.version + 1 /\ s2.gen = s.gen + 1
      /\ s2.conflict = NoConflict /\ s2.save = "saved"
  BY <1>1 DEF TabSound, TabFields
<1> HIDE DEF s2
<1>4. ASSUME NEW m \in requests, m.tab = t PROVE ~Awaited(m, s2)
  <2>1. ~Current(m, s2)
    BY <1>3, <1>4, NoneCurrent
  <2> QED BY <1>2, <1>4, <2>1 DEF Commanding, Waiting, Awaited
<1>5. SavesOrdered(t, s2, requests)
  <2>1. ~Unsettled(s2)
    BY <1>3 DEF Unsettled
  <2>2. \A m \in requests : m.tab = t => ~Current(m, s2)
    BY <1>4 DEF Awaited
  <2> QED BY <2>1, <2>2, SavesSettled
<1>6. Sends(t)
  BY <1>2 DEF Sends
<1>7. s.gen <= s2.gen /\ s.version <= s2.version /\ s2.version # s.version
  BY <1>1, <1>3 DEF TabSound
<1> HIDE DEF s
<1> QED BY <1>2, <1>3, <1>4, <1>5, <1>6, <1>7, OwnTabStep DEF s

\* What is sent to a copy is the text of the conflict, which has all that the draft has.
LEMMA SaveAsNewOwn ==
    ASSUME IInv, FInv, OInv, IInv', NEW t \in Tabs, SaveAsNew(t)
    PROVE  OInv'
<1> DEFINE s == tab[t]
           key == IF s.key # 0 THEN s.key ELSE s.keys + 1
           m == [Request(t, s, "create") EXCEPT !.sent = s.conflict.local, !.gen = 0, !.expected = 0]
           made == [s EXCEPT !.key = key, !.keys = Max({@, key}), !.clicks = @ + 1]
           again == [s EXCEPT !.clicks = @ + 1]
           create == [m EXCEPT !.key = key]
           copy == [m EXCEPT !.kind = "copy", !.key = s.copy.key, !.expected = s.copy.revision]
<1>1. TabSound(t, s, history) /\ TabOwn(t, s, history, requests)
  BY DEF IInv, OInv
<1>2. /\ UNCHANGED history /\ s.conflict # NoConflict
      /\ (Becomes(t, made) /\ Send(create)) \/ (Becomes(t, again) /\ Send(copy))
  BY DEF SaveAsNew, serverVars, HasConflict
<1>3. /\ DOMAIN made = TabFields
      /\ \A f \in TabFields \ {"clicks", "mutating", "workflow", "copy", "key", "keys", "left"} :
           made[f] = tab[t][f]
  BY <1>1 DEF TabSound, TabFields
<1>4. /\ DOMAIN again = TabFields
      /\ \A f \in TabFields \ {"clicks", "mutating", "workflow", "copy", "key", "keys", "left"} :
           again[f] = tab[t][f]
  BY <1>1 DEF TabSound, TabFields
<1>5. create.tab = t /\ create.kind = "create" /\ create.answer = NoAnswer /\ create.sent = s.conflict.local
  BY DEF Request
<1>6. copy.tab = t /\ copy.kind = "copy" /\ copy.answer = NoAnswer /\ copy.sent = s.conflict.local
  BY DEF Request
<1>7. create.kind \notin Writes /\ copy.kind \notin Writes
  BY <1>5, <1>6 DEF Writes
<1>8. Holds(t, tab[t], s.conflict.local, history, requests)
  BY <1>1, <1>2 DEF TabOwn
<1> HIDE DEF made, again, create, copy
<1>9. CASE Becomes(t, made) /\ Send(create)
  BY <1>2, <1>3, <1>5, <1>7, <1>8, <1>9, ClickOwn
<1>10. CASE Becomes(t, again) /\ Send(copy)
  BY <1>2, <1>4, <1>6, <1>7, <1>8, <1>10, ClickOwn
<1> QED BY <1>2, <1>9, <1>10

-----------------------------------------------------------------------------
(* The answers.                                                            *)

\* One that leaves the draft as it is, or as the latest revision has it.
LEMMA TakeOwn ==
    ASSUME IInv, FInv, OInv, IInv', NEW m \in requests, NEW s2, Take(m, s2), UNCHANGED history,
           tab[m.tab].gen <= s2.gen, tab[m.tab].version <= s2.version,
           SavesOrdered(m.tab, s2, requests \ {m}),
           s2.conflict # NoConflict => Holds(m.tab, s2, s2.conflict.local, history, requests),
           s2.version = tab[m.tab].version =>
             /\ s2.draft = tab[m.tab].draft
             /\ \A text : Holds(m.tab, tab[m.tab], text, history, requests) =>
                            Holds(m.tab, s2, text, history, requests),
           \A n \in requests \ {m} : n.tab = m.tab /\ Awaited(n, s2) /\ Done(n) =>
             s2.base < n.answer.revision
    PROVE  OInv'
<1>1. m.tab \in Tabs /\ Becomes(m.tab, s2) /\ requests' = requests \ {m}
  BY OldRequests DEF Take
<1>2. Sends(m.tab)
  BY <1>1 DEF Sends
<1>3. \A text : Holds(m.tab, s2, text, history, requests) => Holds(m.tab, s2, text, history, requests')
  BY <1>1 DEF Holds, Within
<1> QED BY <1>1, <1>2, <1>3, OwnTabStep

\* A refused command leaves the editor as it is.
LEMMA TakeNothingOwn ==
    ASSUME IInv, FInv, OInv, IInv', NEW m \in requests, NEW s2, Take(m, s2), UNCHANGED history,
           DOMAIN s2 = TabFields,
           \A f \in TabFields \ {"clicks", "mutating", "workflow", "copy", "key", "keys", "left"} :
             s2[f] = tab[m.tab][f]
    PROVE  OInv'
<1>1. m.tab \in Tabs /\ Becomes(m.tab, s2) /\ requests' = requests \ {m}
  BY OldRequests DEF Take
<1>2. Sends(m.tab)
  BY <1>1 DEF Sends
<1> QED BY <1>1, <1>2, OwnStill

\* What awaits stays behind the base as long as that stays.
LEMMA StillAwaited ==
    ASSUME OInv, NEW n \in requests, NEW s2, s2.base = tab[n.tab].base,
           Awaited(n, tab[n.tab]), Done(n)
    PROVE  s2.base < n.answer.revision
BY DEF OInv, RequestOwn, Latest

\* The draft that the conflict dialog shows is the whole draft.
LEMMA RecoveredOwn ==
    ASSUME IInv, FInv, OInv, IInv', NEW m \in requests, UNCHANGED history,
           m.kind \in Writes, m.answer.kind = "conflict", Take(m, Recovered(tab[m.tab], m.answer))
    PROVE  OInv'
<1> DEFINE s == tab[m.tab]
           s2 == Recovered(s, m.answer)
<1>1. m.tab \in Tabs /\ TabSound(m.tab, s, history)
  BY OldRequests
<1>2. /\ s2.draft = s.draft /\ s2.version = s.version /\ s2.gen = s.gen + 1
      /\ s2.base = s.base /\ s2.save = "failed" /\ s2.conflict.local = s.draft
      /\ s2.conflict.revision = m.answer.revision
      /\ s2.conflict = [local |-> s.draft, server |-> m.answer.content, revision |-> m.answer.revision]
  BY <1>1 DEF Recovered, TabSound, TabFields
<1>3. Take(m, s2)
  OBVIOUS
<1> HIDE DEF s2
<1>4. \A text : Holds(m.tab, s, text, history, requests) => Holds(m.tab, s2, text, history, requests)
  BY <1>2 DEF Holds
<1>5. Holds(m.tab, s2, s2.conflict.local, history, requests)
  BY <1>2 DEF Holds, Own
<1>6. ASSUME NEW n \in requests, n.tab = m.tab PROVE ~Current(n, s2)
  BY <1>1, <1>2, <1>6, NoneCurrent
<1>7. ASSUME NEW n \in requests, n.tab = m.tab, Awaited(n, s2), Done(n)
      PROVE  s2.base < n.answer.revision
  BY <1>2, <1>6, <1>7, StillAwaited DEF Awaited
<1>8. s.gen <= s2.gen /\ s.version <= s2.version
  BY <1>1, <1>2 DEF TabSound
<1>9. SavesOrdered(m.tab, s2, requests \ {m})
  <2>1. m.answer.revision # 0
    BY OldRequests DEF Sound
  <2>2. ~Unsettled(s2)
    BY <1>2, <2>1 DEF Unsettled, NoConflict
  <2> QED BY <1>6, <2>2, SavesSettled
<1> HIDE DEF s
<1> QED BY <1>2, <1>3, <1>4, <1>5, <1>7, <1>8, <1>9, TakeOwn DEF s

\* A text that has all a narrower one has.
LEMMA WithinText ==
    ASSUME NEW t, NEW b, NEW a, NEW text, NEW h, NEW rs,
           Within(t, b, a, h, rs), Own(t, a) \subseteq text
    PROVE  Within(t, b, text, h, rs)
BY DEF Within, Own

\* What the invariant says when the answer of a write is taken.
LEMMA AnsweredWrite ==
    ASSUME IInv, FInv, OInv, NEW m \in requests, m.kind \in Writes, m.answer.kind = "ok"
    PROVE  /\ m.waiting /\ m.answer.revision \in 1 .. Len(history)
           /\ m.answer.content = history[m.answer.revision].content
           /\ Advance(tab[m.tab].base, m.answer.revision) \in Nat
           /\ \A n \in requests \ {m} : n.tab = m.tab /\ Awaited(n, tab[m.tab]) /\ Done(n) =>
                Advance(tab[m.tab].base, m.answer.revision) < n.answer.revision
           /\ Awaited(m, tab[m.tab]) =>
                /\ Advance(tab[m.tab].base, m.answer.revision) = m.answer.revision
                /\ Within(m.tab, m.answer.revision, m.answer.content, history, requests)
                /\ m.kind # "undo" /\ m.version = tab[m.tab].version =>
                     /\ m.sent = tab[m.tab].draft
                     /\ Own(m.tab, m.answer.content) \subseteq tab[m.tab].draft
<1> DEFINE s == tab[m.tab]
           r == m.answer.revision
<1>1. /\ Sound(m, s, history) /\ TabSound(m.tab, s, history) /\ HistorySound(history)
      /\ RequestFounded(m, s, history) /\ RequestOwn(m, s, history, requests) /\ Done(m)
  BY FInvUses DEF OInv, Done
<1>2. /\ m.waiting /\ r \in 1 .. Len(history) /\ m.answer.content = history[r].content
      /\ s.base \in Nat /\ r \in Nat
  BY <1>1 DEF Sound, RequestFounded, NoAnswer, TabSound, HistorySound
<1>3. Advance(s.base, r) \in {s.base, r} /\ Advance(s.base, r) >= r
  BY <1>2, MaxOfTwo DEF Advance
<1>4. ASSUME NEW n \in requests \ {m}, n.tab = m.tab, Awaited(n, s), Done(n)
      PROVE  Advance(s.base, r) < n.answer.revision
  <2>1. Latest(n, s, history, requests)
    BY <1>4 DEF OInv, RequestOwn
  <2>2. s.base < n.answer.revision /\ r < n.answer.revision
    BY <1>1, <1>4, <2>1 DEF Latest
  <2> QED BY <1>3, <2>2
<1>5. ASSUME Awaited(m, s)
      PROVE  /\ Advance(s.base, r) = r
             /\ Within(m.tab, r, m.answer.content, history, requests)
             /\ m.kind # "undo" /\ m.version = s.version =>
                  /\ m.sent = s.draft
                  /\ Own(m.tab, m.answer.content) \subseteq s.draft
  <2>1. Latest(m, s, history, requests)
    BY <1>1, <1>5 DEF RequestOwn
  <2>2. s.base < r
    BY <2>1 DEF Latest
  <2>3. Advance(s.base, r) = r
    BY <1>2, <1>3, <2>2
  <2>4. Within(m.tab, r, m.answer.content, history, requests)
    BY <1>2, <2>1 DEF Latest
  <2>5. m.kind # "undo" /\ m.version = s.version =>
          m.sent = s.draft /\ Own(m.tab, m.answer.content) \subseteq s.draft
    BY <1>1, <1>5 DEF RequestOwn, Writes
  <2> QED BY <2>3, <2>4, <2>5
<1> QED BY <1>2, <1>3, <1>4, <1>5

\* A saved draft takes the base to the revision that the save made.
LEMMA SavedOwn ==
    ASSUME IInv, FInv, OInv, IInv', NEW m \in requests, UNCHANGED history,
           m.kind = "save", m.answer.kind = "ok", Take(m, Saved(tab[m.tab], m))
    PROVE  OInv'
<1> DEFINE s == tab[m.tab]
           t == m.tab
           r == m.answer.revision
           s2 == Saved(s, m)
<1>1. /\ t \in Tabs /\ TabSound(t, s, history) /\ Sound(m, s, history)
      /\ TabOwn(t, s, history, requests) /\ HistorySound(history)
  BY FInvUses DEF OInv
<1>2. /\ m.waiting /\ r \in 1 .. Len(history) /\ m.answer.content = history[r].content
      /\ Advance(s.base, r) \in Nat
      /\ \A n \in requests \ {m} : n.tab = t /\ Awaited(n, s) /\ Done(n) =>
           Advance(s.base, r) < n.answer.revision
      /\ Awaited(m, s) =>
           /\ Advance(s.base, r) = r
           /\ Within(t, r, m.answer.content, history, requests)
           /\ m.version = s.version => Own(t, m.answer.content) \subseteq s.draft
  BY AnsweredWrite DEF Writes
<1>3. /\ s2.draft = s.draft /\ s2.version = s.version /\ s2.gen = s.gen
      /\ s2.conflict = s.conflict
      /\ s2.persisted = Max({s.persisted, m.version})
      /\ s2.base = Advance(s.base, m.answer.revision)
      /\ s2.save = IF m.gen # s.gen THEN s.save
                   ELSE IF s.version = m.version THEN "saved" ELSE "dirty"
  BY <1>1 DEF Saved, TabSound, TabFields
<1>4. Take(m, s2)
  OBVIOUS
<1> HIDE DEF s2
<1>5. /\ s.persisted \in Nat /\ s.version \in Nat /\ m.version \in Nat /\ m.version <= s.version
      /\ s.gen \in Nat /\ s.base \in Nat /\ r \in Nat
  BY <1>1, <1>2 DEF TabSound, Sound, HistorySound
<1>6. s2.persisted \in {s.persisted, m.version}
  BY <1>3, <1>5, MaxOfTwo
<1>7. s2.base >= s.base /\ s2.base \in Nat
  BY <1>2, <1>3, <1>5, MaxOfTwo DEF Advance
<1>8. ASSUME NEW text, Holds(t, s, text, history, requests)
      PROVE  Holds(t, s2, text, history, requests)
  <2>1. CASE m.gen # s.gen
    <3>1. s.save = "saved" => Within(t, s2.base, text, history, requests)
      BY <1>1, <1>5, <1>7, <1>8, WithinLater DEF Holds
    <3> QED BY <1>3, <1>8, <2>1, <3>1 DEF Holds
  <2>2. CASE m.gen = s.gen
    <3>1. Awaited(m, s)
      BY <1>2, <2>2 DEF Awaited, Current
    <3>2. ASSUME m.version = s.version PROVE Own(t, m.answer.content) \subseteq text
      BY <1>2, <1>8, <3>1, <3>2 DEF Holds, Own
    <3>3. m.version = s.version => Within(t, s2.base, text, history, requests)
      BY <1>2, <1>3, <3>1, <3>2, WithinText
    <3> QED BY <1>3, <1>8, <2>2, <3>3 DEF Holds
  <2> QED BY <2>1, <2>2
<1>9. s2.conflict # NoConflict => Holds(t, s2, s2.conflict.local, history, requests)
  BY <1>1, <1>3, <1>8 DEF TabOwn
<1>10. \A n \in requests \ {m} : n.tab = t /\ Awaited(n, s2) /\ Done(n) => s2.base < n.answer.revision
  BY <1>2, <1>3 DEF Awaited, Current
<1>11. SavesOrdered(t, s2, requests \ {m})
  <2>1. SavesOrdered(t, s, requests)
    BY <1>1 DEF TabOwn
  <2>2. CASE m.gen # s.gen
    <3>1. Unsettled(s2) = Unsettled(s)
      BY <1>3, <2>2 DEF Unsettled
    <3>2. \A n : Current(n, s2) = Current(n, s)
      BY <1>3 DEF Current
    <3>3. Unsettled(s2) =>
            /\ s2.persisted < s2.version
            /\ \A n \in requests : n.tab = t /\ n.kind = "save" /\ n.waiting => n.version < s2.version
      BY <1>2, <1>3, <1>6, <2>1, <3>1 DEF SavesOrdered
    <3>4. ASSUME NEW n \in requests \ {m}, n.tab = t, Current(n, s)
          PROVE  /\ s2.persisted < n.version
                 /\ \A o \in requests \ {n} : o.tab = t /\ o.kind = "save" /\ o.waiting =>
                      o.version < n.version
      BY <1>2, <1>6, <2>1, <3>4 DEF SavesOrdered
    <3> QED BY <3>2, <3>3, <3>4 DEF SavesOrdered
  <2>3. CASE m.gen = s.gen
    <3>1. Current(m, s)
      BY <1>2, <2>3 DEF Current
    <3>2. /\ s.persisted < m.version
          /\ \A n \in requests \ {m} : n.tab = t /\ n.kind = "save" /\ n.waiting => n.version < m.version
      BY <2>1, <3>1 DEF SavesOrdered
    <3>3. ASSUME NEW n \in requests \ {m}, n.tab = t PROVE ~Current(n, s2)
      BY <1>3, <3>1, <3>3 DEF FInv, OneSave, Current
    <3>4. \A n \in requests : n.tab = t => n.version \in Nat
      BY OldRequests DEF Sound
    <3>5. ASSUME Unsettled(s2)
          PROVE  /\ s2.persisted < s2.version
                 /\ \A n \in requests \ {m} : n.tab = t /\ n.kind = "save" /\ n.waiting =>
                      n.version < s2.version
      <4>1. m.version < s.version
        BY <1>3, <1>5, <2>3, <3>5 DEF Unsettled
      <4> QED BY <1>3, <1>5, <1>6, <3>2, <3>4, <4>1
    <3> QED BY <3>3, <3>5 DEF SavesOrdered
  <2> QED BY <2>2, <2>3
<1>12. s.gen <= s2.gen /\ s.version <= s2.version
  BY <1>3, <1>5
<1> HIDE DEF s, t
<1> QED BY <1>3, <1>4, <1>8, <1>9, <1>10, <1>11, <1>12, TakeOwn DEF s, t

\* The save that counts has failed, or was for an older draft.
LEMMA NotSavedOwn ==
    ASSUME IInv, FInv, OInv, IInv', NEW m \in requests, UNCHANGED history,
           m.kind = "save", m.waiting, Becomes(m.tab, NotSaved(tab[m.tab], m)), Sends(m.tab),
           \A n \in requests' : n.waiting => n \in requests \ {m}
    PROVE  OInv'
<1> DEFINE s == tab[m.tab]
           t == m.tab
           s2 == NotSaved(s, m)
<1>1. /\ t \in Tabs /\ TabSound(t, s, history) /\ Sound(m, s, history)
      /\ TabOwn(t, s, history, requests)
  BY FInvUses DEF OInv
<1>2. CASE m.gen # s.gen
  <2>1. s2 = s
    BY <1>2 DEF NotSaved
  <2>2. DOMAIN s = TabFields /\ \A f \in TabFields : s2[f] = s[f]
    BY <1>1, <2>1 DEF TabSound
  <2>3. Becomes(t, s)
    BY <2>1
  <2> QED BY <1>1, <2>3, OwnStill DEF TabSound
<1>3. CASE m.gen = s.gen
  <2>1. /\ s2.draft = s.draft /\ s2.version = s.version /\ s2.gen = s.gen
        /\ s2.conflict = s.conflict /\ s2.persisted = s.persisted /\ s2.base = s.base
        /\ s2.save \in {"failed", "dirty"}
    BY <1>1, <1>3 DEF NotSaved, TabSound, TabFields
  <2>2. Becomes(t, s2)
    OBVIOUS
  <2> HIDE DEF s2
  <2>3. Current(m, s) /\ SavesOrdered(t, s, requests)
    BY <1>1, <1>3 DEF Current, TabOwn
  <2>4. /\ s.persisted < m.version /\ m.version <= s.version /\ s.persisted \in Nat
        /\ s.version \in Nat /\ m.version \in Nat /\ s.gen \in Nat
        /\ \A n \in requests \ {m} : n.tab = t /\ n.kind = "save" /\ n.waiting => n.version < m.version
    BY <1>1, <2>3 DEF SavesOrdered, TabSound, Sound
  <2>5. \A n \in requests : n.tab = t => n.version \in Nat
    BY OldRequests DEF Sound
  <2>6. ASSUME NEW n \in requests', n.tab = t PROVE ~Current(n, s2)
    BY <2>1, <2>3, <2>6 DEF FInv, OneSave, Current
  <2>7. SavesOrdered(t, s2, requests')
    <3>1. s2.persisted < s2.version
      BY <2>1, <2>4
    <3>2. ASSUME NEW n \in requests', n.tab = t, n.kind = "save", n.waiting
          PROVE  n.version < s2.version
      BY <2>1, <2>4, <2>5, <3>2
    <3> QED BY <2>6, <3>1, <3>2 DEF SavesOrdered
  <2>8. \A text : Holds(t, s, text, history, requests) => Holds(t, s2, text, history, requests')
    BY <2>1 DEF Holds
  <2>9. s2.conflict # NoConflict => Holds(t, s2, s2.conflict.local, history, requests')
    BY <1>1, <2>1, <2>8 DEF TabOwn
  <2>10. ASSUME NEW n \in requests' \cap requests, n.tab = t, Awaited(n, s2), Done(n)
         PROVE  s2.base < n.answer.revision
    BY <2>1, <2>6, <2>10, StillAwaited DEF Awaited
  <2>11. s.gen <= s2.gen /\ s.version <= s2.version
    BY <2>1, <2>4
  <2> HIDE DEF s, t
  <2>12. t \in Tabs /\ Sends(t)
    BY <1>1 DEF t
  <2> QED BY <2>1, <2>2, <2>7, <2>8, <2>9, <2>10, <2>11, <2>12, OwnTabStep DEF s, t
<1> QED BY <1>2, <1>3

\* The answer of a save.
LEMMA TakeSaveOwn ==
    ASSUME IInv, FInv, OInv, IInv', NEW m \in requests, UNCHANGED history, m.answer # NoAnswer,
           TakeSave(m)
    PROVE  OInv'
<1> DEFINE s == tab[m.tab]
<1>1. /\ m.tab \in Tabs /\ TabSound(m.tab, s, history) /\ m.waiting /\ m.kind = "save"
      /\ TabOwn(m.tab, s, history, requests)
  BY FInvUses DEF RequestFounded, TakeSave, OInv
<1>2. CASE m.answer.kind = "ok" /\ Take(m, Saved(s, m))
  BY <1>1, <1>2, SavedOwn
<1>3. CASE m.answer.kind = "refused" /\ Take(m, NotSaved(s, m))
  <2>1. Becomes(m.tab, NotSaved(s, m)) /\ requests' = requests \ {m}
    BY <1>3 DEF Take
  <2>2. Sends(m.tab)
    BY <2>1 DEF Sends
  <2> QED BY <1>1, <2>1, <2>2, NotSavedOwn
<1>4. CASE m.answer.kind = "conflict" /\ Take(m, SaveConflicts(s, m))
  <2>1. CASE m.gen # s.gen
    <3>1. Take(m, s)
      BY <1>4, <2>1 DEF SaveConflicts
    <3> QED BY <1>1, <3>1, TakeNothingOwn DEF TabSound
  <2>2. CASE m.gen = s.gen
    <3>1. s.persisted < m.version
      BY <1>1, <2>2 DEF TabOwn, SavesOrdered, Current
    <3>2. ~(s.persisted >= m.version)
      BY <1>1, <3>1, OldRequests DEF TabSound, Sound
    <3>3. Take(m, Recovered(s, m.answer))
      BY <1>4, <2>2, <3>2 DEF SaveConflicts
    <3> QED BY <1>1, <1>4, <3>3, RecoveredOwn DEF Writes
  <2> QED BY <2>1, <2>2
<1> QED BY <1>2, <1>3, <1>4 DEF TakeSave

\* Proposals add nothing that a tab types.
LEMMA AppliedOwn ==
    ASSUME NEW t \in Tabs, NEW ps, NEW content
    PROVE  Own(t, Applied(ps, content)) \subseteq Own(t, content)
BY MarksApart DEF Own, Applied, Target

\* The proposals were applied, to the draft that was sent or also to what was typed since.
LEMMA AppliedToOwn ==
    ASSUME IInv, FInv, OInv, IInv', NEW m \in requests, UNCHANGED history,
           m.kind = "apply", m.answer.kind = "ok", Take(m, AppliedTo(tab[m.tab], m))
    PROVE  OInv'
<1> DEFINE s == tab[m.tab]
           t == m.tab
           r == m.answer.revision
           s2 == AppliedTo(s, m)
<1>1. /\ t \in Tabs /\ TabSound(t, s, history) /\ Sound(m, s, history)
      /\ TabOwn(t, s, history, requests)
  BY FInvUses DEF OInv
<1>2. /\ m.waiting
      /\ \A n \in requests \ {m} : n.tab = t /\ Awaited(n, s) /\ Done(n) =>
           Advance(s.base, r) < n.answer.revision
      /\ Awaited(m, s) =>
           /\ Advance(s.base, r) = r
           /\ Within(t, r, m.answer.content, history, requests)
           /\ m.version = s.version => Own(t, m.answer.content) \subseteq s.draft
  BY AnsweredWrite DEF Writes
<1>3. Awaited(m, s)
  BY <1>2 DEF Awaited
<1>4. Take(m, s2)
  OBVIOUS
<1>5. /\ s.persisted \in Nat /\ s.version \in Nat /\ m.version \in Nat /\ m.version <= s.version
      /\ s.gen \in Nat /\ s.persisted <= s.version
  BY <1>1 DEF TabSound, Sound
<1>6. CASE s.version # m.version /\ ~Applies(m.proposals, s.draft)
  <2>1. s2 = s
    BY <1>6 DEF AppliedTo
  <2> HIDE DEF s2
  <2> QED BY <1>1, <1>4, <2>1, TakeNothingOwn DEF TabSound
<1>7. ASSUME s2.version = s.version + 1, s2.gen = s.gen + 1, s2.base = Advance(s.base, r),
             SavesOrdered(t, s2, requests \ {m}),
             s2.conflict # NoConflict => Holds(t, s2, s2.conflict.local, history, requests)
      PROVE  OInv'
  <2>1. ASSUME NEW n \in requests \ {m}, n.tab = t, Awaited(n, s2), Done(n)
        PROVE  s2.base < n.answer.revision
    <3>1. ~Current(n, s2)
      BY <1>1, <1>7, <2>1, NoneCurrent
    <3>2. Awaited(n, s)
      BY <2>1, <3>1 DEF Awaited
    <3> QED BY <1>2, <1>7, <2>1, <3>2
  <2>2. s.gen <= s2.gen /\ s.version <= s2.version /\ s2.version # s.version
    BY <1>5, <1>7
  <2> HIDE DEF s2, s, t
  <2> QED BY <1>4, <1>7, <2>1, <2>2, TakeOwn DEF s, t
<1>8. CASE s.version = m.version
  <2>1. /\ s2.draft = m.answer.content /\ s2.version = s.version + 1 /\ s2.gen = s.gen + 1
        /\ s2.base = Advance(s.base, r) /\ s2.conflict = s.conflict /\ s2.save = "saved"
    BY <1>1, <1>8 DEF AppliedTo, TabSound, TabFields
  <2> HIDE DEF s2
  <2>2. SavesOrdered(t, s2, requests \ {m})
    <3>1. ~Unsettled(s2)
      BY <2>1 DEF Unsettled
    <3>2. \A n \in requests : n.tab = t => ~Current(n, s2)
      BY <1>1, <2>1, NoneCurrent
    <3> QED BY <3>1, <3>2, SavesSettled
  <2>3. ASSUME s2.conflict # NoConflict
        PROVE  Holds(t, s2, s2.conflict.local, history, requests)
    <3>1. Own(t, s.draft) \subseteq s2.conflict.local
      BY <1>1, <2>1, <2>3 DEF TabOwn, Holds
    <3>2. Own(t, m.answer.content) \subseteq s2.conflict.local
      BY <1>2, <1>3, <1>8, <3>1 DEF Own
    <3>3. Within(t, r, s2.conflict.local, history, requests)
      BY <1>2, <1>3, <3>2, WithinText
    <3> QED BY <1>2, <1>3, <2>1, <3>2, <3>3 DEF Holds
  <2> QED BY <1>7, <2>1, <2>2, <2>3
<1>9. CASE s.version # m.version /\ Applies(m.proposals, s.draft)
  <2>1. /\ s2.draft = Applied(m.proposals, s.draft)
        /\ s2.version = s.version + 1 /\ s2.gen = s.gen + 1
        /\ s2.persisted = Max({s.persisted, m.version})
        /\ s2.base = Advance(s.base, r) /\ s2.conflict = s.conflict /\ s2.save = "dirty"
    BY <1>1, <1>9 DEF AppliedTo, TabSound, TabFields
  <2> HIDE DEF s2
  <2>2. SavesOrdered(t, s2, requests \ {m})
    <3>1. s2.persisted \in {s.persisted, m.version}
      BY <1>5, <2>1, MaxOfTwo
    <3>2. s2.persisted < s2.version
      BY <1>5, <2>1, <3>1
    <3>3. ASSUME NEW n \in requests, n.tab = t PROVE n.version < s2.version
      <4>1. n.version \in Nat /\ n.version <= s.version
        BY <3>3, OldRequests DEF Sound
      <4> QED BY <1>5, <2>1, <4>1
    <3>4. \A n \in requests : n.tab = t => ~Current(n, s2)
      BY <1>1, <2>1, NoneCurrent
    <3> QED BY <3>2, <3>3, <3>4 DEF SavesOrdered
  <2>3. ASSUME s2.conflict # NoConflict
        PROVE  Holds(t, s2, s2.conflict.local, history, requests)
    <3>1. Own(t, s.draft) \subseteq s2.conflict.local
      BY <1>1, <2>1, <2>3 DEF TabOwn, Holds
    <3>2. Own(t, s2.draft) \subseteq Own(t, s.draft)
      BY <1>1, <2>1, AppliedOwn
    <3> QED BY <2>1, <3>1, <3>2 DEF Holds
  <2> QED BY <1>7, <2>1, <2>2, <2>3
<1> QED BY <1>6, <1>8, <1>9

\* The change was undone; what was typed since is kept beside what the server has.
LEMMA UndoneOwn ==
    ASSUME IInv, FInv, OInv, IInv', NEW m \in requests, UNCHANGED history,
           m.kind = "undo", m.answer.kind = "ok", Take(m, Undone(tab[m.tab], m))
    PROVE  OInv'
<1> DEFINE s == tab[m.tab]
           t == m.tab
           r == m.answer.revision
           s2 == Undone(s, m)
<1>1. /\ t \in Tabs /\ TabSound(t, s, history) /\ Sound(m, s, history)
      /\ TabOwn(t, s, history, requests)
  BY FInvUses DEF OInv
<1>2. /\ m.waiting /\ r \in 1 .. Len(history)
      /\ \A n \in requests \ {m} : n.tab = t /\ Awaited(n, s) /\ Done(n) =>
           Advance(s.base, r) < n.answer.revision
  BY AnsweredWrite DEF Writes
<1>3. Take(m, s2)
  OBVIOUS
<1>4. s.version \in Nat /\ s.gen \in Nat
  BY <1>1 DEF TabSound
<1>5. CASE s.version = m.version
  <2>1. /\ s2.version = s.version + 1 /\ s2.gen = s.gen + 1
        /\ s2.base = Advance(s.base, r) /\ s2.conflict = NoConflict /\ s2.save = "saved"
    BY <1>1, <1>5 DEF Undone, TabSound, TabFields
  <2> HIDE DEF s2
  <2>2. \A n \in requests : n.tab = t => ~Current(n, s2)
    BY <1>1, <2>1, NoneCurrent
  <2>3. SavesOrdered(t, s2, requests \ {m})
    <3>1. ~Unsettled(s2)
      BY <2>1 DEF Unsettled
    <3> QED BY <2>2, <3>1, SavesSettled
  <2>4. ASSUME NEW n \in requests \ {m}, n.tab = t, Awaited(n, s2), Done(n)
        PROVE  s2.base < n.answer.revision
    <3>1. Awaited(n, s)
      BY <2>2, <2>4 DEF Awaited
    <3> QED BY <1>2, <2>1, <2>4, <3>1
  <2>5. s.gen <= s2.gen /\ s.version <= s2.version /\ s2.version # s.version
    BY <1>4, <2>1
  <2> HIDE DEF s, t
  <2> QED BY <1>3, <2>1, <2>3, <2>4, <2>5, TakeOwn DEF s, t
<1>6. CASE s.version # m.version
  <2>1. /\ s2.draft = s.draft /\ s2.version = s.version /\ s2.gen = s.gen
        /\ s2.persisted = s.persisted /\ s2.base = s.base /\ s2.save = "failed"
        /\ s2.conflict = [local |-> s.draft, server |-> m.answer.content, revision |-> r]
        /\ s2.conflict.local = s.draft /\ s2.conflict.revision = r
    BY <1>1, <1>6 DEF Undone, TabSound, TabFields
  <2> HIDE DEF s2
  <2>2. SavesOrdered(t, s2, requests \ {m})
    <3>1. ~Unsettled(s2)
      BY <1>2, <2>1 DEF Unsettled, NoConflict
    <3> QED BY <1>1, <2>1, <3>1, SavesQuiet DEF TabOwn
  <2>3. Holds(t, s2, s2.conflict.local, history, requests)
    BY <2>1 DEF Holds, Own
  <2>4. \A text : Holds(t, s, text, history, requests) => Holds(t, s2, text, history, requests)
    BY <2>1 DEF Holds
  <2>5. ASSUME NEW n \in requests \ {m}, n.tab = t, Awaited(n, s2), Done(n)
        PROVE  s2.base < n.answer.revision
    <3>1. Awaited(n, s)
      BY <2>1, <2>5 DEF Awaited, Current
    <3> QED BY <2>1, <2>5, <3>1, StillAwaited
  <2>6. s.gen <= s2.gen /\ s.version <= s2.version
    BY <1>4, <2>1
  <2> HIDE DEF s, t
  <2> QED BY <1>3, <2>1, <2>2, <2>3, <2>4, <2>5, <2>6, TakeOwn DEF s, t
<1> QED BY <1>5, <1>6

\* The answer of an apply or an undo.
LEMMA TakeCommandOwn ==
    ASSUME IInv, FInv, OInv, IInv', NEW m \in requests, UNCHANGED history,
           TakeApply(m) \/ TakeUndo(m)
    PROVE  OInv'
<1>1. m.kind \in Writes /\ DOMAIN tab[m.tab] = TabFields
  BY OldRequests DEF TakeApply, TakeUndo, Writes, TabSound
<1>2. CASE m.answer.kind = "refused" /\ Take(m, tab[m.tab])
  BY <1>1, <1>2, TakeNothingOwn
<1>3. CASE m.answer.kind = "conflict" /\ Take(m, Recovered(tab[m.tab], m.answer))
  BY <1>1, <1>3, RecoveredOwn
<1>4. CASE m.kind = "apply" /\ m.answer.kind = "ok" /\ Take(m, AppliedTo(tab[m.tab], m))
  BY <1>4, AppliedToOwn
<1>5. CASE m.kind = "undo" /\ m.answer.kind = "ok" /\ Take(m, Undone(tab[m.tab], m))
  BY <1>5, UndoneOwn
<1> QED BY <1>2, <1>3, <1>4, <1>5 DEF TakeApply, TakeUndo

\* A workflow read is no write and no copy, and it is not answered yet.
LEMMA ReadFresh ==
    ASSUME NEW t, NEW s, NEW m, m = ReadRequest(t, s)
    PROVE  /\ m.tab = t /\ m.kind = "read" /\ m.answer = NoAnswer
           /\ m.kind \notin Writes /\ m.kind \notin CopyKinds
BY DEF ReadRequest, Request, Writes, CopyKinds

\* The answer of a readiness change: the base follows a revision with the same content.
LEMMA TakeReadinessOwn ==
    ASSUME IInv, FInv, OInv, IInv', NEW m \in requests, UNCHANGED history, TakeReadiness(m)
    PROVE  OInv'
<1> DEFINE s == tab[m.tab]
           t == m.tab
           r == m.answer.revision
           s2 == IF m.answer.kind = "refused" THEN s ELSE ReadinessTaken(s, m)
<1>1. /\ t \in Tabs /\ TabSound(t, s, history) /\ Sound(m, s, history)
      /\ RequestFounded(m, s, history) /\ HistorySound(history)
  BY FInvUses
<1>2. PICK read : read = ReadRequest(t, s)
  OBVIOUS
<1>3. m.kind = "readiness" /\ Becomes(t, s2) /\ requests' = (requests \ {m}) \cup {read}
  BY <1>2 DEF TakeReadiness, TakeAndSend
<1>4. /\ read.tab = t /\ read.kind = "read" /\ read.answer = NoAnswer
      /\ read.kind \notin Writes /\ read.kind \notin CopyKinds
  BY <1>2, ReadFresh
<1>5. /\ s2.draft = s.draft /\ s2.version = s.version /\ s2.gen = s.gen
      /\ s2.persisted = s.persisted /\ s2.conflict = s.conflict /\ s2.save = s.save
      /\ s2.base = s.base \/ (/\ m.answer.kind = "ok" /\ m.expected = s.base
                              /\ r = m.expected + 1 /\ s2.base = Advance(s.base, r))
  BY <1>1 DEF ReadinessTaken, TabSound, TabFields
<1> HIDE DEF s2
<1>6. s.base \in Nat
  BY <1>1 DEF TabSound
<1>7. s2.base = s.base \/ (m.answer.kind = "ok" /\ r = s.base + 1 /\ s2.base = r)
  <2>1. CASE s2.base = s.base
    BY <2>1
  <2>2. CASE m.answer.kind = "ok" /\ r = s.base + 1 /\ s2.base = Advance(s.base, r)
    <3>1. Max({s.base, r}) \in {s.base, r} /\ Max({s.base, r}) >= r
      BY <1>6, <2>2, MaxOfTwo
    <3> QED BY <1>6, <2>2, <3>1 DEF Advance
  <2> QED BY <1>5, <2>1, <2>2
<1>8. ASSUME NEW n \in requests, n.tab = t, Awaited(n, s2), Done(n)
      PROVE  s2.base < n.answer.revision
  <2>1. Latest(n, s, history, requests)
    BY <1>5, <1>8 DEF Awaited, Current, OInv, RequestOwn
  <2>2. s.base < n.answer.revision
    BY <2>1 DEF Latest
  <2>3. n.answer.revision \in Nat
    BY <1>1, <1>8, OldRequests DEF Sound, Done
  <2>4. m # n
    BY <1>3, <1>8 DEF Done, Writes
  <2>5. m.answer.kind = "ok" => r # n.answer.revision
    BY <1>3, <1>8, <2>1, <2>4 DEF Latest
  <2> QED BY <1>6, <1>7, <2>2, <2>3, <2>5
<1>9. Sends(t)
  BY <1>3, <1>4 DEF Sends, Fresh
<1>10. s.base <= s2.base
  BY <1>6, <1>7
<1>11. \A n \in requests' \ requests : n = read
  BY <1>3
<1>12. read.kind # "save" /\ read.kind # "apply"
  BY <1>4
<1> HIDE DEF s, t
<1>13. t \in Tabs /\ s = tab[t]
  BY <1>1 DEF s, t
<1> QED BY <1>3, <1>4, <1>5, <1>8, <1>9, <1>10, <1>11, <1>12, <1>13, OwnQuiet

\* The answer of a workflow read.
LEMMA TakeReadOwn ==
    ASSUME IInv, FInv, OInv, IInv', NEW m \in requests, UNCHANGED history, TakeRead(m)
    PROVE  OInv'
<1> DEFINE s == tab[m.tab]
           w == [readiness |-> m.answer.readiness, revision |-> m.answer.revision]
           s2 == [s EXCEPT !.mutating = FALSE,
                    !.workflow = IF m.answer.kind = "ok" THEN w ELSE @]
<1>1. TabSound(m.tab, s, history)
  BY OldRequests
<1>2. /\ DOMAIN s2 = TabFields
      /\ \A f \in TabFields \ {"clicks", "mutating", "workflow", "copy", "key", "keys", "left"} :
           s2[f] = s[f]
  BY <1>1 DEF TabSound, TabFields
<1>3. Take(m, s2)
  BY DEF TakeRead
<1> HIDE DEF s2
<1> QED BY <1>2, <1>3, TakeNothingOwn

\* The answer that a copy holds what was sent leaves the draft as it is.
LEMMA CopyHoldsOwn ==
    ASSUME IInv, FInv, OInv, IInv', NEW m \in requests, UNCHANGED history,
           CopyHolds(m, tab[m.tab])
    PROVE  OInv'
<1> DEFINE s == tab[m.tab]
           t == m.tab
           kept == CopyKept(m, s)
           left == [kept EXCEPT !.left = TRUE]
<1>1. t \in Tabs /\ DOMAIN s = TabFields
  BY OldRequests DEF TabSound
<1>2. /\ DOMAIN kept = TabFields
      /\ \A f \in TabFields \ {"clicks", "mutating", "workflow", "copy", "key", "keys", "left"} :
           kept[f] = s[f]
  BY <1>1, KeptFields
<1>3. Take(m, kept) \/ Leave(t, kept)
  BY DEF CopyHolds
<1>4. CASE Take(m, kept)
  BY <1>2, <1>4, TakeNothingOwn
<1>5. CASE Leave(t, kept)
  <2> HIDE DEF kept
  <2>1. /\ DOMAIN left = TabFields
        /\ \A f \in TabFields \ {"clicks", "mutating", "workflow", "copy", "key", "keys", "left"} :
             left[f] = tab[t][f]
    BY <1>2 DEF TabFields
  <2>2. Becomes(t, left)
    BY <1>5 DEF Leave
  <2>3. ASSUME NEW n \in requests', n \notin requests
        PROVE  n.waiting = FALSE /\ \E o \in requests : Faded(n, o)
    <3>1. PICK o \in requests : o.answer = NoAnswer /\ n = [o EXCEPT !.waiting = FALSE]
      BY <1>5, <2>3 DEF Leave
    <3>2. Faded(n, o)
      BY <3>1, FadedRequest
    <3> QED BY <3>2 DEF Faded
  <2>4. Sends(t)
    BY <2>3 DEF Sends
  <2> HIDE DEF left
  <2> QED BY <1>1, <2>1, <2>2, <2>3, <2>4, OwnStill
<1> QED BY <1>3, <1>4, <1>5

\* The answer about a copy that was to be made.
LEMMA TakeCreateOwn ==
    ASSUME IInv, FInv, OInv, IInv', NEW m \in requests, UNCHANGED history, m.answer # NoAnswer,
           TakeCreate(m)
    PROVE  OInv'
<1> DEFINE s == tab[m.tab]
           t == m.tab
           kept == CopyKept(m, s)
           next == [m EXCEPT !.kind = "copy", !.expected = m.answer.revision, !.answer = NoAnswer]
<1>1. /\ t \in Tabs /\ DOMAIN s = TabFields /\ DOMAIN m = RequestFields /\ m.waiting
      /\ RequestOwn(m, s, history, requests)
  BY FInvUses DEF TabSound, Sound, RequestFounded, OInv
<1>2. m.kind = "create" /\ (CopyHolds(m, s) \/ TakeAndSend(m, kept, next))
  BY DEF TakeCreate, CopyKept
<1>3. CASE TakeAndSend(m, kept, next)
  <2>1. /\ DOMAIN kept = TabFields
        /\ \A f \in TabFields \ {"clicks", "mutating", "workflow", "copy", "key", "keys", "left"} :
             kept[f] = s[f]
    BY <1>1, KeptFields
  <2>2. /\ next.tab = t /\ next.kind = "copy" /\ next.answer = NoAnswer
        /\ next.version = m.version /\ next.sent = m.sent
    BY <1>1 DEF RequestFields
  <2>3. Becomes(t, kept) /\ requests' = (requests \ {m}) \cup {next}
    BY <1>3 DEF TakeAndSend
  <2> HIDE DEF kept, next
  <2>4. next.kind \notin Writes
    BY <2>2 DEF Writes
  <2>5. Sends(t)
    BY <2>2, <2>3, <2>4 DEF Sends, Fresh
  <2>6. next.version = s.version => Holds(t, s, next.sent, history, requests)
    BY <1>1, <1>2, <2>2 DEF RequestOwn, CopyKinds
  <2>7. \A n \in requests' \ requests : n = next
    BY <2>3
  <2>8. next.kind # "save" /\ next.kind # "apply"
    BY <2>2
  <2> QED BY <1>1, <2>1, <2>3, <2>5, <2>6, <2>7, <2>8, OwnStill
<1> QED BY <1>2, <1>3, CopyHoldsOwn

\* The answer about a save into a copy.
LEMMA TakeCopyOwn ==
    ASSUME IInv, FInv, OInv, IInv', NEW m \in requests, UNCHANGED history, TakeCopy(m)
    PROVE  OInv'
<1> DEFINE s == tab[m.tab]
           s2 == [s EXCEPT !.copy = NoCopy, !.key = 0]
<1>1. TabSound(m.tab, s, history)
  BY OldRequests
<1>2. CopyHolds(m, s) \/ Take(m, s2)
  BY DEF TakeCopy
<1>3. /\ DOMAIN s2 = TabFields
      /\ \A f \in TabFields \ {"clicks", "mutating", "workflow", "copy", "key", "keys", "left"} :
           s2[f] = s[f]
  BY <1>1 DEF TabSound, TabFields
<1> HIDE DEF s2
<1> QED BY <1>2, <1>3, CopyHoldsOwn, TakeNothingOwn

\* Every answer.
LEMMA TakeAnswerOwn ==
    ASSUME IInv, FInv, OInv, IInv', TakeAnswer(Tabs, Kinds)
    PROVE  OInv'
<1>1. PICK m \in requests :
        /\ m.answer # NoAnswer
        /\ \/ TakeSave(m) \/ TakeApply(m) \/ TakeUndo(m) \/ TakeReadiness(m)
           \/ TakeRead(m) \/ TakeCreate(m) \/ TakeCopy(m)
  BY DEF TakeAnswer
<1>2. UNCHANGED history
  BY DEF TakeAnswer, serverVars
<1> QED BY <1>1, <1>2, TakeSaveOwn, TakeCommandOwn, TakeReadinessOwn, TakeReadOwn,
           TakeCreateOwn, TakeCopyOwn

\* A request or its answer is lost.
LEMMA LoseOwn ==
    ASSUME IInv, FInv, OInv, IInv', Lose
    PROVE  OInv'
<1>1. PICK m \in requests :
        LET s == tab[m.tab]
            orphan == IF m.answer = NoAnswer THEN {[m EXCEPT !.waiting = FALSE]} ELSE {}
            read == IF m.kind = "readiness" THEN {ReadRequest(m.tab, s)} ELSE {} IN
        /\ m.waiting
        /\ Becomes(m.tab,
             CASE m.kind = "save" -> NotSaved(s, m)
               [] m.kind = "read" -> [s EXCEPT !.mutating = FALSE]
               [] OTHER -> s)
        /\ requests' = (requests \ {m}) \cup orphan \cup read
  BY DEF Lose
<1> DEFINE s == tab[m.tab]
           t == m.tab
           free == [s EXCEPT !.mutating = FALSE]
<1>2. t \in Tabs /\ DOMAIN s = TabFields
  BY OldRequests DEF TabSound
<1>3. UNCHANGED history
  BY DEF Lose, serverVars
<1>4. ASSUME NEW n \in requests'
      PROVE  \/ n \in requests \ {m} \/ (Faded(n, m) /\ n.waiting = FALSE)
             \/ (m.kind = "readiness" /\ n = ReadRequest(t, s))
  <2>1. \/ n \in requests \ {m} \/ (m.answer = NoAnswer /\ n = [m EXCEPT !.waiting = FALSE])
        \/ (m.kind = "readiness" /\ n = ReadRequest(t, s))
    BY <1>1
  <2> QED BY <2>1, FadedRequest DEF Faded
<1>5. ASSUME NEW n \in requests', n = ReadRequest(t, s)
      PROVE  /\ Fresh(n, t, s) /\ n.kind # "save" /\ n.kind # "apply" /\ n.kind \notin CopyKinds
  <2>1. /\ n.tab = t /\ n.kind = "read" /\ n.answer = NoAnswer
        /\ n.kind \notin Writes /\ n.kind \notin CopyKinds
    BY <1>5, ReadFresh
  <2> QED BY <2>1 DEF Fresh
<1>6. Sends(t)
  BY <1>4, <1>5 DEF Sends
<1>7. CASE m.kind = "save"
  <2>1. Becomes(t, NotSaved(s, m))
    BY <1>1, <1>7
  <2>2. \A n \in requests' : n.waiting => n \in requests \ {m}
    BY <1>4, <1>7
  <2> QED BY <1>1, <1>3, <1>6, <1>7, <2>1, <2>2, NotSavedOwn
<1>8. ASSUME NEW s2, Becomes(t, s2), DOMAIN s2 = TabFields,
             \A f \in TabFields \ {"clicks", "mutating", "workflow", "copy", "key", "keys", "left"} :
               s2[f] = s[f]
      PROVE  OInv'
  <2>1. ASSUME NEW n \in requests' \ requests, n.waiting
        PROVE  n.kind # "save" /\ n.kind # "apply" /\ n.kind \notin CopyKinds
    BY <1>4, <1>5, <2>1
  <2> QED BY <1>2, <1>3, <1>6, <1>8, <2>1, OwnStill
<1>9. CASE m.kind = "read"
  <2>1. Becomes(t, free)
    BY <1>1, <1>9
  <2>2. /\ DOMAIN free = TabFields
        /\ \A f \in TabFields \ {"clicks", "mutating", "workflow", "copy", "key", "keys", "left"} :
             free[f] = s[f]
    BY <1>2 DEF TabFields
  <2> HIDE DEF free
  <2> QED BY <1>8, <2>1, <2>2
<1>10. CASE m.kind # "save" /\ m.kind # "read"
  <2>1. Becomes(t, s)
    BY <1>1, <1>10
  <2> QED BY <1>2, <1>8, <2>1
<1> QED BY <1>7, <1>9, <1>10

-----------------------------------------------------------------------------
(* The server.                                                             *)

\* Request m is answered, and the history may grow by what it wrote.
LEMMA AnsweredOwn ==
    ASSUME IInv, FInv, OInv, NEW m \in requests, m.answer = NoAnswer, NEW a, UNCHANGED tab,
           requests' \subseteq (requests \ {m}) \cup {a}, a.answer # NoAnswer,
           a.tab = m.tab, a.kind = m.kind, a.waiting = m.waiting, a.gen = m.gen,
           a.version = m.version,
           Extends(history, history'),
           \A t \in Tabs : \A b \in 1 .. Len(history) : \A text :
             Within(t, b, text, history, requests) => Within(t, b, text, history', requests'),
           Done(a) => m.expected = Revision,
           a.kind = "readiness" /\ a.answer.kind = "ok" => a.answer.revision = Len(history) + 1,
           a \in requests' => RequestOwn(a, tab[m.tab], history', requests')
    PROVE  OInv'
<1>1. /\ Len(history) \in Nat \ {0} /\ \A k \in 1 .. Len(history) : history'[k] = history[k]
  BY DEF Extends
<1>2. \A n \in requests' : n \in requests \ {m} \/ n = a
  OBVIOUS
<1>3. \A s : Current(a, s) <=> Current(m, s)
  BY DEF Current
<1>4. ASSUME NEW t \in Tabs, NEW text, Holds(t, tab[t], text, history, requests)
      PROVE  Holds(t, tab[t], text, history', requests')
  <2>1. tab[t].base \in 1 .. Len(history)
    BY DEF IInv, TabSound
  <2> QED BY <1>4, <2>1 DEF Holds
<1>5. ASSUME NEW t \in Tabs PROVE TabOwn(t, tab[t], history', requests')
  <2>1. TabOwn(t, tab[t], history, requests)
    BY DEF OInv
  <2>2. SavesOrdered(t, tab[t], requests')
    <3>1. SavesOrdered(t, tab[t], requests)
      BY <2>1 DEF TabOwn
    <3>2. ASSUME NEW n \in requests' PROVE \E o \in requests :
            /\ n.tab = o.tab /\ n.kind = o.kind /\ n.waiting = o.waiting /\ n.gen = o.gen
            /\ n.version = o.version /\ (o = n \/ (o = m /\ n = a))
      BY <1>2
    <3>3. Unsettled(tab[t]) =>
            /\ tab[t].persisted < tab[t].version
            /\ \A n \in requests' : n.tab = t /\ n.kind = "save" /\ n.waiting =>
                 n.version < tab[t].version
      BY <3>1, <3>2 DEF SavesOrdered
    <3>4. ASSUME NEW n \in requests', n.tab = t, Current(n, tab[t])
          PROVE  /\ tab[t].persisted < n.version
                 /\ \A k \in requests' \ {n} : k.tab = t /\ k.kind = "save" /\ k.waiting =>
                      k.version < n.version
      <4>1. CASE n = a
        <5>1. m.tab = t /\ Current(m, tab[t])
          BY <1>3, <3>4, <4>1
        <5> QED BY <1>2, <3>1, <4>1, <5>1 DEF SavesOrdered
      <4>2. CASE n # a
        <5>1. n \in requests \ {m}
          BY <1>2, <4>2
        <5>2. ASSUME NEW k \in requests' \ {n}, k.tab = t, k.kind = "save", k.waiting
              PROVE  k.version < n.version
          BY <1>2, <3>1, <3>4, <5>1, <5>2 DEF SavesOrdered
        <5> QED BY <3>1, <3>4, <5>1, <5>2 DEF SavesOrdered
      <4> QED BY <4>1, <4>2
    <3> QED BY <3>3, <3>4 DEF SavesOrdered
  <2> QED BY <1>4, <2>1, <2>2 DEF TabOwn
<1>6. ASSUME NEW n \in requests \ {m}, n \in requests'
      PROVE  RequestOwn(n, tab[n.tab], history', requests')
  <2> DEFINE s == tab[n.tab]
  <2>1. /\ n.tab \in Tabs /\ RequestOwn(n, s, history, requests) /\ Sound(n, s, history)
    BY OldRequests DEF OInv
  <2>2. ASSUME Awaited(n, s), Done(n) PROVE Latest(n, s, history', requests')
    <3>1. Latest(n, s, history, requests)
      BY <2>1, <2>2 DEF RequestOwn
    <3>2. n.answer.revision \in 1 .. Len(history)
      BY <2>1, <2>2 DEF Sound, Done
    <3>3. Within(n.tab, n.answer.revision, history'[n.answer.revision].content, history', requests')
      BY <1>1, <2>1, <3>1, <3>2 DEF Latest
    <3>4. ASSUME a.tab = n.tab
          PROVE  /\ ~Done(a) /\ ~Asked(a)
                 /\ a.kind = "readiness" /\ a.answer.kind = "ok" =>
                      a.answer.revision # n.answer.revision
      <4>1. ASSUME Done(a) PROVE FALSE
        <5>1. Asked(m) /\ m.tab = n.tab
          BY <3>4, <4>1 DEF Asked, Done
        <5>2. m.expected < n.answer.revision
          BY <3>1, <5>1 DEF Latest
        <5> QED BY <3>2, <4>1, <5>2 DEF Revision
      <4>2. a.kind = "readiness" /\ a.answer.kind = "ok" => a.answer.revision # n.answer.revision
        BY <1>1, <3>2
      <4> QED BY <4>1, <4>2 DEF Asked
    <3>5. ASSUME NEW k \in requests' \ {n}, k.tab = n.tab
          PROVE  /\ Asked(k) => k.expected < n.answer.revision
                 /\ Done(k) => k.answer.revision < n.answer.revision
                 /\ k.kind = "readiness" /\ k.answer.kind = "ok" =>
                      k.answer.revision # n.answer.revision
      BY <1>2, <3>1, <3>4, <3>5 DEF Latest
    <3> QED BY <3>1, <3>3, <3>5 DEF Latest
  <2> HIDE DEF s
  <2>3. n.kind \in CopyKinds /\ n.waiting /\ n.version = s.version =>
          Holds(n.tab, s, n.sent, history', requests')
    BY <1>4, <2>1 DEF RequestOwn, s
  <2>4. RequestOwn(n, s, history', requests')
    BY <2>1, <2>2, <2>3 DEF RequestOwn
  <2> QED BY <2>4 DEF s
<1> QED BY <1>2, <1>5, <1>6 DEF OInv

\* What is asked is asked still, or was answered.
LEMMA WithinAnswered ==
    ASSUME NEW m, NEW a, requests' \subseteq (requests \ {m}) \cup {a}, a.answer # NoAnswer,
           NEW t, NEW b, NEW text, Within(t, b, text, history, requests)
    PROVE  Within(t, b, text, history, requests')
<1>1. \A n \in requests' : Asked(n) => n \in requests
  BY DEF Asked
<1> QED BY <1>1 DEF Within

\* A request is answered and nothing is written.
LEMMA ReplyOwn ==
    ASSUME IInv, FInv, OInv, NEW m \in requests, m.answer = NoAnswer, NEW answer,
           Answered(m, answer), UNCHANGED <<tab, history>>, answer # NoAnswer,
           answer.kind # "ok" \/ m.kind \notin Writes \cup {"readiness"}
    PROVE  OInv'
<1> DEFINE s == tab[m.tab]
<1>1. /\ m.tab \in Tabs /\ DOMAIN m = RequestFields /\ RequestOwn(m, s, history, requests)
      /\ TabSound(m.tab, s, history)
  BY OldRequests DEF Sound, OInv
<1>2. PICK a : a = [m EXCEPT !.answer = answer]
  OBVIOUS
<1>3. /\ a.answer = answer /\ a.tab = m.tab /\ a.kind = m.kind /\ a.waiting = m.waiting
      /\ a.gen = m.gen /\ a.version = m.version /\ a.sent = m.sent
  BY <1>1, <1>2 DEF RequestFields
<1>4. requests' \subseteq (requests \ {m}) \cup {a}
  BY <1>2 DEF Answered
<1>5. ~Done(a) /\ ~(a.kind = "readiness" /\ a.answer.kind = "ok")
      /\ ~(a.kind \in {"save", "apply"} /\ a.answer.kind = "ok")
  BY <1>3 DEF Done, Writes
<1>6. \A t \in Tabs : \A b \in 1 .. Len(history) : \A text :
        Within(t, b, text, history, requests) => Within(t, b, text, history', requests')
  BY <1>3, <1>4, WithinAnswered
<1>7. Extends(history, history')
  BY SameExtends
<1>8. RequestOwn(a, s, history', requests')
  <2>1. \A x : Current(a, x) <=> Current(m, x)
    BY <1>3 DEF Current
  <2>2. Awaited(a, s) <=> Awaited(m, s)
    BY <1>3, <2>1 DEF Awaited
  <2>3. \A text : Holds(m.tab, s, text, history, requests) =>
                    Holds(m.tab, s, text, history', requests')
    BY <1>1, <1>6 DEF Holds, TabSound
  <2> QED BY <1>1, <1>3, <1>5, <2>2, <2>3 DEF RequestOwn
<1> QED BY <1>1, <1>3, <1>4, <1>5, <1>6, <1>7, <1>8, AnsweredOwn

\* A write that adds of its own tab only what that sent, and of the others nothing.
LEMMA CommitOwn ==
    ASSUME IInv, FInv, OInv, NEW m \in requests, m.answer = NoAnswer, NEW content, UNCHANGED tab,
           Commit(content, m.tab), AnsweredNow(m),
           m.kind \in Writes \cup {"readiness"},
           m.kind \in Writes => m.expected = Revision,
           Foreign(m.tab, content) = Foreign(m.tab, Document),
           \/ m.kind \in {"save", "apply"} /\ Own(m.tab, content) \subseteq m.sent
           \/ m.kind \in {"undo", "readiness"} /\ Own(m.tab, content) \subseteq Document
    PROVE  OInv'
<1> DEFINE s == tab[m.tab]
           t == m.tab
<1>1. /\ t \in Tabs /\ Sound(m, s, history) /\ TabSound(t, s, history)
      /\ RequestOwn(m, s, history, requests) /\ HistorySound(history)
      /\ Revision = Len(history) /\ Len(history) \in Nat \ {0}
  BY FInvUses, SameExtends DEF Revision, OInv
<1>2. PICK e : e = [content |-> content, by |-> t]
  OBVIOUS
<1>3. history' = Append(history, e) /\ e.content = content
  BY <1>2 DEF Commit
<1>4. /\ Len(history') = Len(history) + 1 /\ history'[Len(history) + 1] = e
      /\ \A k \in 1 .. Len(history) : history'[k] = history[k]
  <2>1. history \in Seq(Entries(history) \cup {e})
    <3>1. \A r \in 1 .. Len(history) : history[r] \in Entries(history) \cup {e}
      BY DEF Entries
    <3> QED BY <1>1, <3>1 DEF HistorySound
  <2> QED BY <1>1, <1>3, <2>1
<1>5. Extends(history, history')
  BY <1>1, <1>4 DEF Extends
<1> DEFINE r == Len(history) + 1
<1>6. PICK answer :
        answer = [kind |-> "ok", content |-> history'[Len(history')].content,
                  revision |-> Len(history'), readiness |-> readiness']
  OBVIOUS
<1>7. /\ answer.kind = "ok" /\ answer.content = content /\ answer.revision = r
      /\ answer # NoAnswer
  BY <1>3, <1>4, <1>6 DEF NoAnswer
<1>8. PICK a : a = [m EXCEPT !.answer = answer]
  OBVIOUS
<1>9. /\ a.answer = answer /\ a.tab = t /\ a.kind = m.kind /\ a.waiting = m.waiting
      /\ a.gen = m.gen /\ a.version = m.version /\ a.sent = m.sent
  BY <1>1, <1>8 DEF Sound, RequestFields
<1>10. requests' \subseteq (requests \ {m}) \cup {a}
  BY <1>6, <1>8 DEF Answered, AnsweredNow
<1>11. ASSUME NEW u \in Tabs, NEW b \in 1 .. Len(history), NEW text,
              Within(u, b, text, history, requests)
       PROVE  Within(u, b, text, history', requests')
  <2>1. Within(u, b, text, history, requests')
    BY <1>7, <1>9, <1>10, <1>11, WithinAnswered
  <2>2. Own(u, Document) \subseteq text
    <3>1. Revision \in b .. Len(history)
      BY <1>1
    <3> QED BY <1>11, <3>1 DEF Within, Document
  <2>3. Own(u, content) \subseteq text
    <3>1. CASE u # t
      <4>1. Own(u, content) \subseteq Foreign(t, content)
        BY <3>1 DEF Own, Foreign
      <4> QED BY <2>2, <4>1 DEF Own, Foreign
    <3>2. CASE u = t /\ m.kind \in {"save", "apply"}
      <4>1. Asked(m) /\ m.expected >= b
        BY <1>1, <3>2 DEF Asked, Writes
      <4>2. Own(t, m.sent) \subseteq text
        BY <1>11, <3>2, <4>1 DEF Within
      <4> QED BY <3>2, <4>2 DEF Own
    <3>3. CASE u = t /\ m.kind \in {"undo", "readiness"}
      BY <2>2, <3>3 DEF Own
    <3> QED BY <3>1, <3>2, <3>3
  <2>4. \A k \in b .. Len(history') : k \in b .. Len(history) \/ k = r
    BY <1>1, <1>4
  <2>5. \A k \in b .. Len(history) : history'[k] = history[k]
    BY <1>4
  <2> QED BY <1>3, <1>4, <2>1, <2>3, <2>4, <2>5 DEF Within
<1>12. Done(a) => m.expected = Revision
  BY <1>9 DEF Done
<1>13. RequestOwn(a, s, history', requests')
  <2>1. \A x : Current(a, x) <=> Current(m, x)
    BY <1>9 DEF Current
  <2>2. Awaited(a, s) <=> Awaited(m, s)
    BY <1>9, <2>1 DEF Awaited
  <2>3. m.kind \notin CopyKinds
    BY DEF Writes, CopyKinds
  <2>4. a.kind \in {"save", "apply"} => Own(t, answer.content) \subseteq m.sent
    BY <1>7, <1>9
  <2>5. ASSUME Done(a) PROVE Latest(a, s, history', requests')
    <3>1. s.base < r
      BY <1>1 DEF TabSound
    <3>2. ASSUME NEW n \in requests
          PROVE  /\ Asked(n) => n.expected \in Nat /\ n.expected < r
                 /\ Done(n) => n.answer.revision < r
                 /\ n.kind = "readiness" /\ n.answer.kind = "ok" => n.answer.revision # r
      <4>1. Sound(n, tab[n.tab], history) /\ RequestFounded(n, tab[n.tab], history)
        BY FInvUses
      <4>2. Asked(n) => n.expected \in 1 .. Len(history)
        BY <4>1 DEF RequestFounded, Asked
      <4>3. Done(n) => n.answer.revision \in 1 .. Len(history)
        BY <4>1 DEF Sound, Done
      <4>4. n.kind = "readiness" /\ n.answer.kind = "ok" => n.answer.revision \in 1 .. Len(history)
        BY <4>1 DEF Sound
      <4> QED BY <1>1, <4>2, <4>3, <4>4
    <3>3. ~Asked(a)
      BY <1>7, <1>9 DEF Asked
    <3>4. Within(t, r, content, history', requests')
      <4>1. \A k \in r .. Len(history') : history'[k].content = content
        <5>1. \A k \in r .. Len(history') : k = r
          BY <1>1, <1>4
        <5> QED BY <1>3, <1>4, <5>1
      <4>2. ASSUME NEW n \in requests', Asked(n) PROVE ~(n.expected >= r)
        BY <1>1, <1>10, <3>2, <3>3, <4>2
      <4> QED BY <4>1, <4>2 DEF Within, Own
    <3>5. a.answer.revision = r /\ history'[r].content = content
      BY <1>3, <1>4, <1>7, <1>9
    <3>6. \A n \in requests' \ {a} : n \in requests
      BY <1>10
    <3> HIDE DEF r
    <3> QED BY <1>9, <3>1, <3>2, <3>4, <3>5, <3>6 DEF Latest
  <2> QED BY <1>1, <1>9, <2>2, <2>3, <2>4, <2>5 DEF RequestOwn
<1> HIDE DEF s
<1>14. a.kind = "readiness" /\ a.answer.kind = "ok" => a.answer.revision = Len(history) + 1
  BY <1>7, <1>9
<1>15. a.answer # NoAnswer
  BY <1>7, <1>9
<1> QED BY <1>5, <1>9, <1>10, <1>11, <1>12, <1>13, <1>14, <1>15, AnsweredOwn DEF s

\* Every step of the server.
LEMMA ServeOwn ==
    ASSUME IInv, FInv, OInv, Serve(Tabs, Kinds)
    PROVE  OInv'
<1>1. PICK m \in requests :
        /\ m.answer = NoAnswer
        /\ \/ ServeSave(m) \/ ServeApply(m) \/ ServeUndo(m) \/ ServeReadiness(m)
           \/ ServeRead(m) \/ ServeCreate(m) \/ ServeCopy(m)
  BY DEF Serve
<1>2. UNCHANGED tab
  BY DEF Serve
<1>3. m.tab \in Tabs /\ RequestFounded(m, tab[m.tab], history)
  BY FInvUses
<1>4. ASSUME UNCHANGED history, Answered(m, Reply("conflict")) \/ Answered(m, Refusal)
      PROVE  OInv'
  <2>1. PICK answer : Answered(m, answer) /\ (answer = Reply("conflict") \/ answer = Refusal)
    BY <1>4
  <2>2. answer.kind # "ok" /\ answer # NoAnswer
    BY <2>1 DEF Reply, Refusal, NoAnswer
  <2> QED BY <1>1, <1>2, <1>4, <2>1, <2>2, ReplyOwn
<1>5. ASSUME UNCHANGED history, NEW answer, Answered(m, answer), answer # NoAnswer,
             m.kind \in {"read", "create", "copy"}
      PROVE  OInv'
  <2>1. m.kind \notin Writes \cup {"readiness"}
    BY <1>5 DEF Writes
  <2> QED BY <1>1, <1>2, <1>5, <2>1, ReplyOwn
<1>6. CASE ServeSave(m)
  <2>1. CASE plain /\ m.expected = Revision /\ Commit(m.sent, m.tab) /\ AnsweredNow(m)
    <3>1. m.kind = "save" /\ m.kind \in Writes
      BY <1>6 DEF ServeSave, Writes
    <3>2. Foreign(m.tab, m.sent) = Foreign(m.tab, Document)
      BY <1>3, <2>1, <3>1 DEF RequestFounded, Document
    <3>3. Own(m.tab, m.sent) \subseteq m.sent
      BY DEF Own
    <3> QED BY <1>1, <1>2, <2>1, <3>1, <3>2, <3>3, CommitOwn
  <2> QED BY <1>4, <1>6, <2>1 DEF ServeSave
<1>7. CASE ServeApply(m)
  <2>1. CASE /\ m.expected = Revision /\ Commit(Applied(m.proposals, m.sent), m.tab)
             /\ AnsweredNow(m)
    <3>1. m.kind = "apply" /\ m.kind \in Writes
      BY <1>7 DEF ServeApply, Writes
    <3>2. Foreign(m.tab, m.sent) = Foreign(m.tab, Document)
      BY <1>3, <2>1, <3>1 DEF RequestFounded, Document
    <3>3. Foreign(m.tab, Applied(m.proposals, m.sent)) = Foreign(m.tab, Document)
      BY <1>3, <3>2, ForeignKept
    <3>4. Own(m.tab, Applied(m.proposals, m.sent)) \subseteq m.sent
      BY <1>3, AppliedOwn DEF Own
    <3> QED BY <1>1, <1>2, <2>1, <3>1, <3>3, <3>4, CommitOwn
  <2> QED BY <1>4, <1>7, <2>1 DEF ServeApply
<1>8. CASE ServeUndo(m)
  <2>1. PICK c \in changes :
          \/ /\ c.after = m.expected /\ Revision = c.after
             /\ Commit(c.before, m.tab) /\ AnsweredNow(m)
          \/ (Answered(m, Reply("conflict")) \/ Answered(m, Refusal)) /\ UNCHANGED history
    BY <1>8 DEF ServeUndo
  <2>2. CASE c.after = m.expected /\ Revision = c.after /\ Commit(c.before, m.tab) /\ AnsweredNow(m)
    <3>1. m.kind = "undo" /\ m.kind \in Writes
      BY <1>8 DEF ServeUndo, Writes
    <3>2. Document = Applied(c.proposals, c.before)
      BY <2>2 DEF FInv, Reversible, Document
    <3>3. Foreign(m.tab, c.before) = Foreign(m.tab, Document)
      BY <1>3, <3>2, ForeignKept
    <3>4. Own(m.tab, c.before) \subseteq Document
      BY <1>3, <3>2, ProposalsKeepOwn
    <3> QED BY <1>1, <1>2, <2>2, <3>1, <3>3, <3>4, CommitOwn
  <2> QED BY <1>4, <2>1, <2>2
<1>9. CASE ServeReadiness(m)
  <2>1. CASE Commit(Document, m.tab) /\ AnsweredNow(m)
    <3>1. m.kind = "readiness" /\ m.kind \notin Writes /\ Own(m.tab, Document) \subseteq Document
      BY <1>9 DEF ServeReadiness, Writes, Own
    <3> QED BY <1>1, <1>2, <2>1, <3>1, CommitOwn
  <2> QED BY <1>4, <1>9, <2>1 DEF ServeReadiness
<1>10. CASE ServeRead(m)
  <2>1. PICK answer : /\ Answered(m, answer)
                      /\ answer = [Reply("ok") EXCEPT !.content = {}] \/ answer = Refusal
    BY <1>10 DEF ServeRead
  <2>2. answer.kind # "none"
    BY <2>1 DEF Reply, Refusal, NoAnswer
  <2>3. answer # NoAnswer
    BY <2>2 DEF NoAnswer
  <2> QED BY <1>5, <1>10, <2>1, <2>3 DEF ServeRead, serverVars
<1>11. CASE ServeCreate(m) \/ ServeCopy(m)
  <2>1. \E kind \in {"ok", "replayed", "conflict"} : \E content, revision :
          Answered(m, [NoAnswer EXCEPT !.kind = kind, !.content = content, !.revision = revision])
    <3>1. CASE ServeCreate(m)
      BY <3>1 DEF ServeCreate
    <3>2. CASE ServeCopy(m)
      BY <3>2 DEF ServeCopy
    <3> QED BY <1>11, <3>1, <3>2
  <2>2. PICK kind \in {"ok", "replayed", "conflict"} : \E content, revision :
          Answered(m, [NoAnswer EXCEPT !.kind = kind, !.content = content, !.revision = revision])
    BY <2>1
  <2>3. \A content, revision :
          [NoAnswer EXCEPT !.kind = kind, !.content = content, !.revision = revision] # NoAnswer
    BY DEF NoAnswer
  <2>4. m.kind \in {"read", "create", "copy"} /\ UNCHANGED history
    BY <1>11 DEF ServeCreate, ServeCopy
  <2> QED BY <1>5, <2>2, <2>3, <2>4
<1> QED BY <1>1, <1>6, <1>7, <1>8, <1>9, <1>10, <1>11

\* At first nothing is awaited.
LEMMA InitOwn == Init => OInv
<1> SUFFICES ASSUME Init PROVE OInv
  OBVIOUS
<1>1. requests = {}
  BY DEF Init
<1>2. \A t \in Tabs : tab[t].save = "saved" /\ tab[t].conflict = NoConflict
  BY DEF Init
<1> QED BY <1>1, <1>2 DEF OInv, TabOwn, SavesOrdered, Unsettled

\* Every step, when a tab that waits for a command takes no other draft.
LEMMA StepOwn ==
    ASSUME IInv, FInv, OInv, IInv', [Next]_vars, ~DraftReplacedDuringCommands
    PROVE  OInv'
<1>1. CASE UNCHANGED vars
  BY <1>1 DEF vars, OInv
<1>2. CASE EndPlainWrites \/ OtherEditsCopy
  <2>1. UNCHANGED <<history, tab, requests>>
    BY <1>2 DEF EndPlainWrites, OtherEditsCopy
  <2> QED BY <2>1 DEF OInv
<1>3. CASE Serve(Tabs, Kinds) \/ TakeAnswer(Tabs, Kinds) \/ Lose
  BY <1>3, ServeOwn, TakeAnswerOwn, LoseOwn
<1>4. CASE \E t \in Tabs : Autosave(t) \/ Retry(t)
  BY <1>4, SaveOwn DEF Autosave, Retry
<1>5. CASE \E t \in Tabs :
             \/ Type(t) \/ AcceptProposals(t) \/ UndoChange(t)
             \/ ChangeReadiness(t) \/ RefreshWorkflow(t) \/ SameDocumentSnapshot(t)
             \/ LoadServerVersion(t) \/ SaveAsNew(t)
  BY <1>5, TypeOwn, AcceptOwn, UndoOwn, ReadinessOwn, RefreshOwn, SnapshotOwn, LoadOwn, SaveAsNewOwn
<1> QED BY <1>1, <1>2, <1>3, <1>4, <1>5 DEF Next

-----------------------------------------------------------------------------
(* Recovery copies: whether they hold what was typed.                      *)

\* The saves into copy k of tab t, and a copy k that is at revision r or a later one.
CopySaves(t, k, rs) == {n \in rs : n.kind = "copy" /\ n.tab = t /\ n.key = k}
CopyAt(t, k, r, cs) == \E c \in cs : c.key = <<t, k>> /\ r <= c.revision

\* A tab that left holds on to a copy that no save on its way will change.
TabLeft(t, s, rs, cs) ==
    /\ \A n \in rs : n.tab = t => ~n.waiting
    /\ \E c \in cs :
         /\ c.key = <<t, s.copy.key>> /\ Own(t, s.draft) \subseteq c.content
         /\ \A n \in CopySaves(t, s.copy.key, rs) : n.expected < c.revision

TabKnows(t, s, rs, cs) ==
    /\ s.keys \in Nat /\ s.key \in 0 .. s.keys /\ s.copy.key \in 0 .. s.keys
    /\ s.copy.revision \in Nat
    /\ s.copy = NoCopy /\ s.key # 0 => CopySaves(t, s.key, rs) = {}
    /\ s.copy # NoCopy =>
         /\ s.copy.key # 0
         /\ CopyAt(t, s.copy.key, s.copy.revision, cs)
         /\ \A n \in CopySaves(t, s.copy.key, rs) : n.expected <= s.copy.revision
    /\ s.left => TabLeft(t, s, rs, cs)

\* What was answered about a copy holds as long as no later save into it comes.
CopyAnswered(m, rs, cs) ==
    /\ m.waiting /\ m.answer.revision \in Nat
    /\ \/ m.answer.content = m.sent
       \/ m.kind = "create" /\ m.answer.kind = "replayed"
       \/ m.kind = "copy" /\ m.answer.kind = "conflict"
    /\ \E c \in cs : /\ c.key = <<m.tab, m.key>> /\ m.answer.content \subseteq c.content
                     /\ m.answer.revision <= c.revision
    /\ \A n \in CopySaves(m.tab, m.key, rs) : n # m => n.expected < m.answer.revision

RequestKnows(m, s, rs, cs) ==
    /\ m.key \in 1 .. s.keys
    /\ m.kind = "copy" => m.expected \in Nat
    /\ m.waiting =>
         /\ \A n \in rs : n.tab = m.tab /\ n.kind \in CopyKinds /\ n.waiting => n = m
         /\ m.kind = "create" => CopySaves(m.tab, m.key, rs) = {}
         /\ m.kind = "copy" =>
              /\ CopyAt(m.tab, m.key, m.expected, cs)
              /\ \A n \in CopySaves(m.tab, m.key, rs) : n.expected <= m.expected
    /\ m.answer # NoAnswer => CopyAnswered(m, rs, cs)

KInv ==
    /\ \A t \in Tabs : TabKnows(t, tab[t], requests, copies)
    /\ \A m \in requests : m.kind \in CopyKinds => RequestKnows(m, tab[m.tab], requests, copies)
    /\ \A c, d \in copies : c.key = d.key => c = d
    /\ \A c \in copies : c.revision \in Nat

-----------------------------------------------------------------------------
\* A tab that waits for anything has not left.
LEMMA WaitingStays ==
    ASSUME IInv, KInv, NEW m \in requests, m.waiting
    PROVE  Here(m.tab)
<1>1. m.tab \in Tabs
  BY OldRequests
<1> QED BY <1>1 DEF KInv, TabKnows, TabLeft, Here

\* Request n is what became of o: its tab no longer waits, or the server answered it.
Echo(n, o) ==
    /\ n.tab = o.tab /\ n.kind = o.kind /\ n.key = o.key /\ n.expected = o.expected
    /\ o.answer = NoAnswer
    /\ n.waiting => o.waiting /\ o \notin requests'

\* Tab u asks for no copy in this step.
Follow(u) ==
    \A n \in requests' : n.tab = u /\ n.kind \in CopyKinds =>
        n \in requests \/ \E o \in requests : Echo(n, o)

\* A copy keeps what it holds, unless a save comes that expects its revision.
CopiesGrow ==
    \A c \in copies : \E d \in copies' :
        /\ d.key = c.key /\ c.revision <= d.revision /\ d.revision \in Nat
        /\ \/ c.content \subseteq d.content
           \/ \E n \in requests : /\ n.kind = "copy" /\ n.answer = NoAnswer
                                  /\ <<n.tab, n.key>> = c.key /\ n.expected = c.revision

\* A save into a copy was there, as it is or as what it comes from.
LEMMA SavesFollow ==
    ASSUME NEW u, Follow(u), NEW k, NEW n \in CopySaves(u, k, requests')
    PROVE  \E o \in CopySaves(u, k, requests) :
             /\ o.expected = n.expected
             /\ n \in requests => o = n
             /\ n \notin requests => Echo(n, o)
<1>1. n \in requests' /\ n.kind = "copy" /\ n.tab = u /\ n.key = k /\ n.kind \in CopyKinds
  BY DEF CopySaves, CopyKinds
<1>2. CASE n \in requests
  BY <1>1, <1>2 DEF CopySaves
<1>3. CASE n \notin requests
  <2>1. PICK o \in requests : Echo(n, o)
    BY <1>1, <1>3 DEF Follow
  <2>2. o \in CopySaves(u, k, requests) /\ o.expected = n.expected
    BY <1>1, <2>1 DEF Echo, CopySaves
  <2> QED BY <1>3, <2>1, <2>2
<1> QED BY <1>2, <1>3

\* What a copy that no unanswered save expects held, it holds.
LEMMA CopyStays ==
    ASSUME CopiesGrow, NEW u, NEW k, NEW c \in copies, c.key = <<u, k>>, c.revision \in Nat,
           \A n \in CopySaves(u, k, requests) : n.answer = NoAnswer => n.expected < c.revision
    PROVE  \E d \in copies' : /\ d.key = c.key /\ c.revision <= d.revision /\ d.revision \in Nat
                              /\ c.content \subseteq d.content
<1>1. PICK d \in copies' :
        /\ d.key = c.key /\ c.revision <= d.revision /\ d.revision \in Nat
        /\ \/ c.content \subseteq d.content
           \/ \E n \in requests : /\ n.kind = "copy" /\ n.answer = NoAnswer
                                  /\ <<n.tab, n.key>> = c.key /\ n.expected = c.revision
  BY DEF CopiesGrow
<1>2. ASSUME NEW n \in requests, n.kind = "copy", n.answer = NoAnswer,
             <<n.tab, n.key>> = c.key, n.expected = c.revision
      PROVE  FALSE
  <2>1. n.tab = u /\ n.key = k
    BY <1>2
  <2>2. n \in CopySaves(u, k, requests)
    BY <1>2, <2>1 DEF CopySaves
  <2> QED BY <1>2, <2>2
<1> QED BY <1>1, <1>2

\* Copies only advance.
LEMMA CopyAtStays ==
    ASSUME KInv, CopiesGrow, NEW u, NEW k, NEW r \in Nat, CopyAt(u, k, r, copies)
    PROVE  CopyAt(u, k, r, copies')
<1>1. PICK c \in copies : c.key = <<u, k>> /\ r <= c.revision /\ c.revision \in Nat
  BY DEF CopyAt, KInv
<1>2. PICK d \in copies' : d.key = c.key /\ c.revision <= d.revision /\ d.revision \in Nat
  BY DEF CopiesGrow
<1> QED BY <1>1, <1>2 DEF CopyAt

\* A tab that asks for no copy knows what it knew, or less.
LEMMA TabKnowsKept ==
    ASSUME IInv, KInv, CopiesGrow, NEW u \in Tabs, NEW s2, Follow(u), CopyKeeps(tab[u], s2),
           tab[u].left =>
             /\ s2 = tab[u]
             /\ \A n \in requests' : n.tab = u /\ n.waiting => \E o \in requests : o.tab = u /\ o.waiting
    PROVE  TabKnows(u, s2, requests', copies')
<1> DEFINE s == tab[u]
<1>1. TabKnows(u, s, requests, copies)
  BY DEF KInv
<1>2. NoCopy.key = 0 /\ NoCopy.revision = 0
  BY DEF NoCopy
<1>3. /\ s2.keys \in Nat /\ s2.key \in 0 .. s2.keys /\ s2.copy.key \in 0 .. s2.keys
      /\ s2.copy.revision \in Nat
  BY <1>1, <1>2 DEF TabKnows, CopyKeeps
<1>4. s2.copy = NoCopy /\ s2.key # 0 => CopySaves(u, s2.key, requests') = {}
  BY <1>1, SavesFollow DEF TabKnows, CopyKeeps
<1>5. ASSUME s2.copy # NoCopy
      PROVE  /\ s2.copy.key # 0
             /\ CopyAt(u, s2.copy.key, s2.copy.revision, copies')
             /\ \A n \in CopySaves(u, s2.copy.key, requests') : n.expected <= s2.copy.revision
  <2>1. s2.copy = s.copy
    BY <1>5 DEF CopyKeeps
  <2>2. /\ s2.copy.key # 0
        /\ CopyAt(u, s2.copy.key, s2.copy.revision, copies)
        /\ \A n \in CopySaves(u, s2.copy.key, requests) : n.expected <= s2.copy.revision
    BY <1>1, <1>5, <2>1 DEF TabKnows
  <2>3. CopyAt(u, s2.copy.key, s2.copy.revision, copies')
    BY <1>3, <2>2, CopyAtStays
  <2> QED BY <2>2, <2>3, SavesFollow
<1>6. ASSUME s2.left PROVE TabLeft(u, s2, requests', copies')
  <2>1. s2 = s /\ TabLeft(u, s, requests, copies)
    BY <1>1, <1>6 DEF TabKnows, CopyKeeps
  <2>2. \A n \in requests' : n.tab = u => ~n.waiting
    BY <1>6, <2>1 DEF TabLeft
  <2>3. PICK c \in copies :
          /\ c.key = <<u, s.copy.key>> /\ Own(u, s.draft) \subseteq c.content
          /\ \A n \in CopySaves(u, s.copy.key, requests) : n.expected < c.revision
          /\ c.revision \in Nat
    BY <2>1 DEF TabLeft, KInv
  <2>4. PICK d \in copies' : /\ d.key = c.key /\ c.revision <= d.revision /\ d.revision \in Nat
                             /\ c.content \subseteq d.content
    BY <2>3, CopyStays
  <2>5. ASSUME NEW n \in CopySaves(u, s.copy.key, requests') PROVE n.expected < d.revision
    <3>1. PICK o \in CopySaves(u, s.copy.key, requests) : o.expected = n.expected
      BY <2>5, SavesFollow
    <3>2. o.expected \in Nat
      <4>1. o \in requests /\ o.kind \in CopyKinds /\ o.kind = "copy"
        BY <3>1 DEF CopySaves, CopyKinds
      <4> QED BY <4>1 DEF KInv, RequestKnows
    <3> QED BY <2>3, <2>4, <3>1, <3>2
  <2> QED BY <2>1, <2>2, <2>3, <2>4, <2>5 DEF TabLeft
<1> QED BY <1>3, <1>4, <1>5, <1>6 DEF TabKnows

\* So does a request that stays.
LEMMA RequestKnowsKept ==
    ASSUME IInv, KInv, CopiesGrow, NEW m \in requests, m.kind \in CopyKinds, NEW s2,
           Follow(m.tab), m \in requests', s2.keys = tab[m.tab].keys
    PROVE  RequestKnows(m, s2, requests', copies')
<1>1. RequestKnows(m, tab[m.tab], requests, copies)
  BY DEF KInv
<1>2. m.waiting => \A n \in requests' : n.tab = m.tab /\ n.kind \in CopyKinds /\ n.waiting => n = m
  <2> SUFFICES ASSUME m.waiting, NEW n \in requests', n.tab = m.tab, n.kind \in CopyKinds, n.waiting
               PROVE  n = m
    OBVIOUS
  <2>1. CASE n \in requests
    BY <1>1, <2>1 DEF RequestKnows
  <2>2. CASE n \notin requests
    <3>1. PICK o \in requests : Echo(n, o)
      BY <2>2 DEF Follow
    <3>2. o.tab = m.tab /\ o.kind \in CopyKinds /\ o.waiting /\ o \notin requests'
      BY <3>1 DEF Echo
    <3>3. o = m
      BY <1>1, <3>2 DEF RequestKnows
    <3> QED BY <3>2, <3>3
  <2> QED BY <2>1, <2>2
<1>3. m.waiting /\ m.kind = "create" => CopySaves(m.tab, m.key, requests') = {}
  BY <1>1, SavesFollow DEF RequestKnows
<1>4. m.waiting /\ m.kind = "copy" =>
        /\ CopyAt(m.tab, m.key, m.expected, copies')
        /\ \A n \in CopySaves(m.tab, m.key, requests') : n.expected <= m.expected
  BY <1>1, SavesFollow, CopyAtStays DEF RequestKnows
<1>5. ASSUME m.answer # NoAnswer PROVE CopyAnswered(m, requests', copies')
  <2>1. CopyAnswered(m, requests, copies)
    BY <1>1, <1>5 DEF RequestKnows
  <2>2. PICK c \in copies :
          /\ c.key = <<m.tab, m.key>> /\ m.answer.content \subseteq c.content
          /\ m.answer.revision <= c.revision /\ c.revision \in Nat
    BY <2>1 DEF CopyAnswered, KInv
  <2>3. \A n \in CopySaves(m.tab, m.key, requests) : n.expected \in Nat
    BY DEF KInv, RequestKnows, CopySaves, CopyKinds
  <2>4. \A n \in CopySaves(m.tab, m.key, requests) : n.answer = NoAnswer => n.expected < c.revision
    BY <1>5, <2>1, <2>2, <2>3 DEF CopyAnswered
  <2>5. PICK d \in copies' : /\ d.key = c.key /\ c.revision <= d.revision /\ d.revision \in Nat
                             /\ c.content \subseteq d.content
    BY <2>2, <2>4, CopyStays
  <2>6. ASSUME NEW n \in CopySaves(m.tab, m.key, requests'), n # m
        PROVE  n.expected < m.answer.revision
    <3>1. PICK o \in CopySaves(m.tab, m.key, requests) :
            /\ o.expected = n.expected
            /\ n \in requests => o = n
            /\ n \notin requests => Echo(n, o)
      BY <2>6, SavesFollow
    <3>2. o # m
      BY <1>5, <2>6, <3>1 DEF Echo
    <3> QED BY <2>1, <3>1, <3>2 DEF CopyAnswered
  <2>7. m.answer.revision \in Nat
    BY <2>1 DEF CopyAnswered
  <2>8. m.answer.revision <= d.revision
    BY <2>2, <2>5, <2>7
  <2> QED BY <2>1, <2>2, <2>5, <2>6, <2>8 DEF CopyAnswered
<1> QED BY <1>1, <1>2, <1>3, <1>4, <1>5 DEF RequestKnows

\* And a request that its tab does not wait for.
LEMMA FadedKnows ==
    ASSUME KInv, NEW o \in requests, o.kind \in CopyKinds, NEW n, Faded(n, o), NEW s2,
           s2.keys = tab[o.tab].keys, NEW rs, NEW cs
    PROVE  RequestKnows(n, s2, rs, cs)
<1>1. RequestKnows(o, tab[o.tab], requests, copies)
  BY DEF KInv
<1> QED BY <1>1 DEF RequestKnows, Faded

\* The requests of the other tabs are those that were there, or are not waited for.
LEMMA KnowsTabStep ==
    ASSUME IInv, KInv, NEW t \in Tabs, NEW s2, UNCHANGED copies,
           Becomes(t, s2) \/ (UNCHANGED tab /\ s2 = tab[t]),
           \A n \in requests' : n \in requests \/ (\E o \in requests : Faded(n, o)) \/ n.tab = t,
           TabKnows(t, s2, requests', copies),
           \A n \in requests' : n.tab = t /\ n.kind \in CopyKinds =>
             RequestKnows(n, s2, requests', copies)
    PROVE  KInv'
<1>1. DOMAIN tab = Tabs /\ tab'[t] = s2 /\ \A u \in Tabs \ {t} : tab'[u] = tab[u]
  BY DEF IInv, Becomes
<1>2. CopiesGrow
  BY DEF CopiesGrow, KInv
<1>3. ASSUME NEW n \in requests', n \notin requests, n.tab # t
      PROVE  /\ ~n.waiting
             /\ \E o \in requests : Faded(n, o) /\ Echo(n, o) /\ n.tab \in Tabs
  <2>1. PICK o \in requests : Faded(n, o)
    BY <1>3
  <2> QED BY <2>1, OldRequests DEF Faded, Echo
<1>4. ASSUME NEW u \in Tabs, u # t PROVE Follow(u) /\ TabKnows(u, tab'[u], requests', copies')
  <2>1. Follow(u)
    BY <1>3, <1>4 DEF Follow
  <2>2. \A n \in requests' : n.tab = u /\ n.waiting => n \in requests
    BY <1>3, <1>4
  <2>3. tab'[u] = tab[u] /\ CopyKeeps(tab[u], tab[u])
    BY <1>1, <1>4 DEF CopyKeeps
  <2> QED BY <1>2, <2>1, <2>2, <2>3, TabKnowsKept
<1>5. ASSUME NEW m \in requests', m.kind \in CopyKinds
      PROVE  RequestKnows(m, tab'[m.tab], requests', copies')
  <2>1. CASE m.tab = t
    BY <1>1, <1>5, <2>1
  <2>2. CASE m.tab # t /\ m \in requests
    <3>1. m.tab \in Tabs /\ tab'[m.tab] = tab[m.tab] /\ Follow(m.tab)
      BY <1>1, <1>4, <2>2, OldRequests
    <3> QED BY <1>2, <1>5, <2>2, <3>1, RequestKnowsKept
  <2>3. CASE m.tab # t /\ m \notin requests
    <3>1. PICK o \in requests : Faded(m, o) /\ m.tab \in Tabs
      BY <1>3, <2>3
    <3>2. o.kind \in CopyKinds /\ tab'[m.tab].keys = tab[o.tab].keys
      BY <1>1, <1>5, <2>3, <3>1 DEF Faded
    <3> QED BY <3>1, <3>2, FadedKnows
  <2> QED BY <2>1, <2>2, <2>3
<1>6. /\ \A c, d \in copies' : c.key = d.key => c = d
      /\ \A c \in copies' : c.revision \in Nat
  BY DEF KInv
<1>7. TabKnows(t, tab'[t], requests', copies')
  BY <1>1
<1> QED BY <1>4, <1>5, <1>6, <1>7 DEF KInv

\* A step of tab t that asks for no copy, and may wait no longer for what it asked.
LEMMA KnowsAside ==
    ASSUME IInv, KInv, NEW t \in Tabs, NEW s2, UNCHANGED copies, Here(t),
           Becomes(t, s2) \/ (UNCHANGED tab /\ s2 = tab[t]), CopyKeeps(tab[t], s2),
           \A n \in requests' : n \in requests \/ (\E o \in requests : Faded(n, o))
                                  \/ (n.tab = t /\ n.kind \notin CopyKinds)
    PROVE  KInv'
<1>1. CopiesGrow
  BY DEF CopiesGrow, KInv
<1>2. ASSUME NEW n \in requests', n \notin requests, n.tab = t, n.kind \in CopyKinds
      PROVE  \E o \in requests : Faded(n, o) /\ Echo(n, o)
  <2>1. PICK o \in requests : Faded(n, o)
    BY <1>2
  <2> QED BY <2>1 DEF Faded, Echo
<1>3. Follow(t)
  BY <1>2 DEF Follow
<1>4. TabKnows(t, s2, requests', copies)
  <2>1. ~tab[t].left
    BY DEF Here
  <2>2. TabKnows(t, s2, requests', copies')
    BY <1>1, <1>3, <2>1, TabKnowsKept
  <2> QED BY <2>2
<1>5. ASSUME NEW n \in requests', n.tab = t, n.kind \in CopyKinds
      PROVE  RequestKnows(n, s2, requests', copies)
  <2>1. s2.keys = tab[t].keys
    BY DEF CopyKeeps
  <2>2. CASE n \in requests
    <3>1. RequestKnows(n, s2, requests', copies')
      BY <1>1, <1>3, <1>5, <2>1, <2>2, RequestKnowsKept
    <3> QED BY <3>1
  <2>3. CASE n \notin requests
    <3>1. PICK o \in requests : Faded(n, o)
      BY <1>2, <1>5, <2>3
    <3>2. o.tab = t /\ o.kind \in CopyKinds
      BY <1>5, <3>1 DEF Faded
    <3> QED BY <2>1, <3>1, <3>2, FadedKnows
  <2> QED BY <2>2, <2>3
<1> QED BY <1>4, <1>5, KnowsTabStep

\* A request about a copy that its tab does not wait for.
LEMMA UnawaitedKnows ==
    ASSUME FInv, KInv, NEW n \in requests, n.kind \in CopyKinds, ~n.waiting, NEW s2,
           s2.keys \in Nat, tab[n.tab].keys <= s2.keys, NEW rs, NEW cs,
           tab[n.tab].keys \in Nat
    PROVE  RequestKnows(n, s2, rs, cs)
<1>1. RequestKnows(n, tab[n.tab], requests, copies) /\ n.answer = NoAnswer
  BY DEF KInv, FInv, RequestFounded
<1> QED BY <1>1 DEF RequestKnows

\* A copy is asked for with a key that nothing is saved into, or with what is known of it.
LEMMA SaveAsNewKnows ==
    ASSUME IInv, FInv, KInv, NEW t \in Tabs, SaveAsNew(t)
    PROVE  KInv'
<1> DEFINE s == tab[t]
           key == IF s.key # 0 THEN s.key ELSE s.keys + 1
           m == [Request(t, s, "create") EXCEPT !.sent = s.conflict.local, !.gen = 0, !.expected = 0]
           made == [s EXCEPT !.key = key, !.keys = Max({@, key}), !.clicks = @ + 1]
           again == [s EXCEPT !.clicks = @ + 1]
           create == [m EXCEPT !.key = key]
           copy == [m EXCEPT !.kind = "copy", !.key = s.copy.key, !.expected = s.copy.revision]
<1>1. DOMAIN s = TabFields /\ TabKnows(t, s, requests, copies)
  BY DEF IInv, TabSound, KInv
<1>2. UNCHANGED copies /\ ~Copying(t) /\ Here(t)
  BY DEF SaveAsNew, serverVars, Click
<1>3. ASSUME NEW n \in requests, n.kind \in CopyKinds, n.tab = t
      PROVE  /\ ~n.waiting /\ n.key \in 1 .. s.keys
             /\ \A s2, rs : s2.keys \in Nat /\ s.keys <= s2.keys => RequestKnows(n, s2, rs, copies)
  <2>1. ~n.waiting
    BY <1>2, <1>3 DEF Copying, Waiting, CopyKinds
  <2>2. n.key \in 1 .. s.keys
    BY <1>3 DEF KInv, RequestKnows
  <2>3. s.keys \in Nat
    BY <1>1 DEF TabKnows
  <2> QED BY <1>3, <2>1, <2>2, <2>3, UnawaitedKnows
<1>4. \/ s.copy = NoCopy /\ Becomes(t, made) /\ requests' = requests \cup {create}
      \/ s.copy # NoCopy /\ Becomes(t, again) /\ requests' = requests \cup {copy}
  BY DEF SaveAsNew, Send
<1>5. /\ create.tab = t /\ create.kind = "create" /\ create.key = key
      /\ create.waiting = TRUE /\ create.answer = NoAnswer
  BY DEF Request
<1>6. /\ copy.tab = t /\ copy.kind = "copy" /\ copy.key = s.copy.key
      /\ copy.waiting = TRUE /\ copy.answer = NoAnswer /\ copy.expected = s.copy.revision
  BY DEF Request
<1>7. /\ made.key = key /\ made.keys = Max({s.keys, key}) /\ made.copy = s.copy /\ made.left = s.left
      /\ again.key = s.key /\ again.keys = s.keys /\ again.copy = s.copy /\ again.left = s.left
  BY <1>1 DEF TabFields
<1>8. s.keys \in Nat /\ s.key \in 0 .. s.keys /\ ~s.left
  BY <1>1, <1>2 DEF TabKnows, Here
<1> HIDE DEF made, again, create, copy, s, m, key
<1>9. CASE s.copy = NoCopy /\ Becomes(t, made) /\ requests' = requests \cup {create}
  <2>1. /\ key \in 1 .. made.keys /\ made.keys \in Nat /\ s.keys <= made.keys
        /\ CopySaves(t, key, requests) = {}
    <3>1. CASE s.key # 0
      <4>1. key = s.key /\ Max({s.keys, key}) = s.keys
        BY <1>8, <3>1, MaxOfTwo DEF key
      <4> QED BY <1>1, <1>7, <1>8, <1>9, <3>1, <4>1 DEF TabKnows, s
    <3>2. CASE s.key = 0
      <4>1. key = s.keys + 1 /\ key \in Nat
        BY <1>8, <3>2 DEF key
      <4>2. Max({s.keys, key}) = s.keys + 1
        BY <1>8, <4>1, MaxOfTwo
      <4>3. CopySaves(t, key, requests) = {}
        BY <1>3, <1>8, <4>1 DEF CopySaves, CopyKinds
      <4> QED BY <1>7, <1>8, <4>1, <4>2, <4>3
    <3> QED BY <3>1, <3>2
  <2>2. \A k : CopySaves(t, k, requests') = CopySaves(t, k, requests)
    BY <1>5, <1>9 DEF CopySaves
  <2>3. TabKnows(t, made, requests', copies)
    <3>1. NoCopy.key = 0 /\ NoCopy.revision = 0
      BY DEF NoCopy
    <3> QED BY <1>7, <1>8, <1>9, <2>1, <2>2, <3>1 DEF TabKnows
  <2>4. RequestKnows(create, made, requests', copies)
    <3>1. \A n \in requests' : n.tab = t /\ n.kind \in CopyKinds /\ n.waiting => n = create
      BY <1>3, <1>9
    <3> QED BY <1>5, <2>1, <2>2, <3>1 DEF RequestKnows
  <2>5. \A n \in requests' : n.tab = t /\ n.kind \in CopyKinds =>
          RequestKnows(n, made, requests', copies)
    BY <1>3, <1>9, <2>1, <2>4
  <2>6. \A n \in requests' : n \in requests \/ n.tab = t
    BY <1>5, <1>9
  <2> QED BY <1>2, <1>9, <2>3, <2>5, <2>6, KnowsTabStep DEF s
<1>10. CASE s.copy # NoCopy /\ Becomes(t, again) /\ requests' = requests \cup {copy}
  <2>1. /\ s.copy.key \in 1 .. s.keys /\ s.copy.revision \in Nat
        /\ CopyAt(t, s.copy.key, s.copy.revision, copies)
        /\ \A n \in CopySaves(t, s.copy.key, requests) : n.expected <= s.copy.revision
    BY <1>1, <1>8, <1>10 DEF TabKnows, s
  <2>2. \A n \in CopySaves(t, s.copy.key, requests') : n.expected <= s.copy.revision
    BY <1>6, <1>10, <2>1 DEF CopySaves
  <2>3. TabKnows(t, again, requests', copies)
    BY <1>7, <1>8, <1>10, <2>1, <2>2 DEF TabKnows
  <2>4. RequestKnows(copy, again, requests', copies)
    <3>1. \A n \in requests' : n.tab = t /\ n.kind \in CopyKinds /\ n.waiting => n = copy
      BY <1>3, <1>10
    <3> QED BY <1>6, <1>7, <2>1, <2>2, <3>1 DEF RequestKnows
  <2>5. \A n \in requests' : n.tab = t /\ n.kind \in CopyKinds =>
          RequestKnows(n, again, requests', copies)
    BY <1>3, <1>7, <1>8, <1>10, <2>4
  <2>6. \A n \in requests' : n \in requests \/ n.tab = t
    BY <1>6, <1>10
  <2> QED BY <1>2, <1>10, <2>3, <2>5, <2>6, KnowsTabStep DEF s
<1> QED BY <1>4, <1>9, <1>10

\* What an answer about a copy says, and what the other saves into it expect.
LEMMA AnswerTells ==
    ASSUME IInv, FInv, KInv, NEW m \in requests, m.kind \in CopyKinds, m.answer # NoAnswer
    PROVE  /\ m.tab \in Tabs /\ Here(m.tab) /\ CopyAnswered(m, requests, copies)
           /\ m.key \in 1 .. tab[m.tab].keys /\ tab[m.tab].keys \in Nat
           /\ CopyAt(m.tab, m.key, m.answer.revision, copies)
           /\ \A n \in requests : n.tab = m.tab /\ n.kind \in CopyKinds /\ n # m => ~n.waiting
<1>1. m.tab \in Tabs /\ RequestKnows(m, tab[m.tab], requests, copies)
  BY OldRequests DEF KInv
<1>2. CopyAnswered(m, requests, copies) /\ m.waiting
  BY <1>1 DEF RequestKnows, CopyAnswered
<1>3. CopyAt(m.tab, m.key, m.answer.revision, copies)
  BY <1>2 DEF CopyAnswered, CopyAt
<1>4. tab[m.tab].keys \in Nat
  BY <1>1 DEF KInv, TabKnows
<1>5. Here(m.tab)
  BY <1>2, WaitingStays
<1>6. \A n \in requests : n.tab = m.tab /\ n.kind \in CopyKinds /\ n # m => ~n.waiting
  BY <1>1, <1>2 DEF RequestKnows
<1> QED BY <1>1, <1>2, <1>3, <1>4, <1>5, <1>6 DEF RequestKnows

\* The copy holds what was sent: the tab knows that, and leaves unless its user typed on.
LEMMA CopyHoldsKnows ==
    ASSUME IInv, FInv, OInv, KInv, NEW m \in requests, m.kind \in CopyKinds, m.answer # NoAnswer,
           m.answer.content = m.sent, CopyHolds(m, tab[m.tab]), UNCHANGED copies
    PROVE  KInv'
<1> DEFINE t == m.tab
           s == tab[m.tab]
           kept == CopyKept(m, s)
           gone == [kept EXCEPT !.left = TRUE]
<1>1. t \in Tabs /\ DOMAIN s = TabFields /\ TabKnows(t, s, requests, copies)
  BY OldRequests DEF TabSound, KInv
<1>2. /\ Here(t) /\ CopyAnswered(m, requests, copies)
      /\ m.key \in 1 .. s.keys /\ s.keys \in Nat
      /\ CopyAt(t, m.key, m.answer.revision, copies)
      /\ \A n \in requests : n.tab = t /\ n.kind \in CopyKinds /\ n # m => ~n.waiting
  BY AnswerTells
<1>3. /\ kept.key = s.key /\ kept.keys = s.keys /\ kept.left = s.left
      /\ kept.copy = [key |-> m.key, revision |-> m.answer.revision]
      /\ gone.key = s.key /\ gone.keys = s.keys /\ gone.left = TRUE
      /\ gone.copy = kept.copy /\ gone.draft = s.draft
  BY <1>1 DEF CopyKept, TabFields
<1>4. kept.copy.key = m.key /\ kept.copy.revision = m.answer.revision /\ kept.copy # NoCopy
  BY <1>2, <1>3 DEF NoCopy
<1>5. m.answer.revision \in Nat /\ m.waiting
  BY <1>2 DEF CopyAnswered
<1>6. ASSUME NEW s2, s2.key = s.key, s2.keys = s.keys, s2.copy = kept.copy,
             \A n \in CopySaves(t, m.key, requests') : n.expected \in Nat /\ n.expected < m.answer.revision,
             s2.left => TabLeft(t, s2, requests', copies)
      PROVE  TabKnows(t, s2, requests', copies)
  <2>1. \A n \in CopySaves(t, m.key, requests') : n.expected <= m.answer.revision
    BY <1>5, <1>6
  <2>2. m.key # 0 /\ m.key \in 0 .. s.keys
    BY <1>2
  <2>3. s.key \in 0 .. s.keys
    BY <1>1 DEF TabKnows
  <2> HIDE DEF kept, s
  <2> QED BY <1>2, <1>4, <1>5, <1>6, <2>1, <2>2, <2>3 DEF TabKnows
<1>7. \A n \in CopySaves(t, m.key, requests) :
        n # m => n.expected \in Nat /\ n.expected < m.answer.revision
  BY <1>2 DEF CopyAnswered, CopySaves, KInv, RequestKnows, CopyKinds
<1>8. ~s.left
  BY <1>2 DEF Here
<1>9. CASE Take(m, kept)
  <2>1. Becomes(t, kept) /\ requests' = requests \ {m}
    BY <1>9 DEF Take
  <2>2. \A n \in CopySaves(t, m.key, requests') : n.expected \in Nat /\ n.expected < m.answer.revision
    BY <1>7, <2>1 DEF CopySaves
  <2>3. TabKnows(t, kept, requests', copies)
    BY <1>3, <1>6, <1>8, <2>2
  <2>4. ASSUME NEW n \in requests', n.tab = t, n.kind \in CopyKinds
        PROVE  RequestKnows(n, kept, requests', copies)
    <3>1. n \in requests /\ ~n.waiting
      BY <1>2, <2>1, <2>4
    <3> QED BY <1>2, <1>3, <2>4, <3>1, UnawaitedKnows
  <2>5. \A n \in requests' : n \in requests
    BY <2>1
  <2> HIDE DEF kept, s, t
  <2> QED BY <1>1, <2>1, <2>3, <2>4, <2>5, KnowsTabStep
<1>10. CASE s.version = m.version /\ Leave(t, kept)
  <2>1. Becomes(t, gone)
    BY <1>10 DEF Leave
  <2>2. ASSUME NEW n \in requests'
        PROVE  (n \in requests /\ n.tab # t) \/ (n.tab = t /\ \E o \in requests : Faded(n, o))
    <3>1. CASE n \in requests /\ n.tab # t
      BY <3>1
    <3>2. CASE \E o \in requests : o.tab = t /\ o.answer = NoAnswer /\ n = [o EXCEPT !.waiting = FALSE]
      <4>1. PICK o \in requests : o.tab = t /\ o.answer = NoAnswer /\ n = [o EXCEPT !.waiting = FALSE]
        BY <3>2
      <4>2. Faded(n, o)
        BY <4>1, FadedRequest
      <4> QED BY <4>1, <4>2 DEF Faded
    <3> QED BY <1>10, <3>1, <3>2 DEF Leave
  <2>3. ASSUME NEW n \in CopySaves(t, m.key, requests')
        PROVE  n.expected \in Nat /\ n.expected < m.answer.revision
    <3>1. PICK o \in requests : Faded(n, o)
      BY <2>2, <2>3 DEF CopySaves
    <3>2. o \in CopySaves(t, m.key, requests) /\ o # m /\ o.expected = n.expected
      BY <2>3, <3>1 DEF CopySaves, Faded
    <3> QED BY <1>7, <3>2
  <2>4. TabLeft(t, gone, requests', copies)
    <3>1. \A n \in requests' : n.tab = t => ~n.waiting
      BY <2>2 DEF Faded
    <3>2. Own(t, s.draft) \subseteq m.sent
      <4>1. RequestOwn(m, s, history, requests)
        BY DEF OInv
      <4> QED BY <1>5, <1>10, <4>1 DEF RequestOwn, Holds
    <3>3. PICK c \in copies :
            /\ c.key = <<t, m.key>> /\ m.sent \subseteq c.content
            /\ m.answer.revision <= c.revision /\ c.revision \in Nat
      BY <1>2 DEF CopyAnswered, KInv
    <3>4. \A n \in CopySaves(t, m.key, requests') : n.expected < c.revision
      BY <1>5, <2>3, <3>3
    <3>5. Own(t, s.draft) \subseteq c.content
      BY <3>2, <3>3
    <3> HIDE DEF gone, kept
    <3> QED BY <1>3, <1>4, <3>1, <3>3, <3>4, <3>5 DEF TabLeft
  <2>5. TabKnows(t, gone, requests', copies)
    <3> HIDE DEF gone, kept
    <3> QED BY <1>3, <1>6, <2>3, <2>4
  <2>6. ASSUME NEW n \in requests', n.tab = t, n.kind \in CopyKinds
        PROVE  RequestKnows(n, gone, requests', copies)
    <3>1. PICK o \in requests : Faded(n, o)
      BY <2>2, <2>6
    <3>2. o.tab = t /\ o.kind \in CopyKinds
      BY <2>6, <3>1 DEF Faded
    <3> HIDE DEF gone
    <3> QED BY <1>3, <3>1, <3>2, FadedKnows
  <2> HIDE DEF gone, kept, s, t
  <2> QED BY <1>1, <2>1, <2>2, <2>5, <2>6, KnowsTabStep
<1> QED BY <1>9, <1>10 DEF CopyHolds

\* The creation key named an older text: the draft is saved into the copy it made.
LEMMA ResendKnows ==
    ASSUME IInv, FInv, KInv, NEW m \in requests, m.kind = "create", m.answer # NoAnswer,
           TakeAndSend(m, [tab[m.tab] EXCEPT !.copy = [key |-> m.key, revision |-> m.answer.revision]],
             [m EXCEPT !.kind = "copy", !.expected = m.answer.revision, !.answer = NoAnswer]),
           UNCHANGED copies
    PROVE  KInv'
<1> DEFINE t == m.tab
           s == tab[m.tab]
<1>1. m.kind \in CopyKinds /\ DOMAIN s = TabFields /\ TabKnows(t, s, requests, copies)
      /\ DOMAIN m = RequestFields
  BY OldRequests DEF CopyKinds, TabSound, KInv, Sound
<1>2. /\ t \in Tabs /\ Here(t) /\ CopyAnswered(m, requests, copies)
      /\ m.key \in 1 .. s.keys /\ s.keys \in Nat
      /\ CopyAt(t, m.key, m.answer.revision, copies)
      /\ \A n \in requests : n.tab = t /\ n.kind \in CopyKinds /\ n # m => ~n.waiting
  BY <1>1, AnswerTells
<1>3. PICK s2 : s2 = [s EXCEPT !.copy = [key |-> m.key, revision |-> m.answer.revision]]
  OBVIOUS
<1>4. PICK next : next = [m EXCEPT !.kind = "copy", !.expected = m.answer.revision, !.answer = NoAnswer]
  OBVIOUS
<1>5. Becomes(t, s2) /\ requests' = (requests \ {m}) \cup {next}
  BY <1>3, <1>4 DEF TakeAndSend
<1>6. /\ s2.key = s.key /\ s2.keys = s.keys /\ s2.left = s.left
      /\ s2.copy.key = m.key /\ s2.copy.revision = m.answer.revision
  BY <1>1, <1>3 DEF TabFields
<1>7. /\ next.tab = t /\ next.kind = "copy" /\ next.key = m.key /\ next.expected = m.answer.revision
      /\ next.answer = NoAnswer /\ next.waiting = m.waiting
  BY <1>1, <1>4 DEF RequestFields
<1>8. m.answer.revision \in Nat /\ m.waiting
  BY <1>2 DEF CopyAnswered
<1>9. \A n \in CopySaves(t, m.key, requests') : n.expected <= m.answer.revision
  <2> SUFFICES ASSUME NEW n \in CopySaves(t, m.key, requests') PROVE n.expected <= m.answer.revision
    OBVIOUS
  <2>1. CASE n = next
    BY <1>7, <1>8, <2>1
  <2>2. CASE n \in requests \ {m}
    <3>1. n \in CopySaves(t, m.key, requests) /\ n.kind \in CopyKinds
      BY <2>2 DEF CopySaves, CopyKinds
    <3>2. n.expected < m.answer.revision /\ n.expected \in Nat
      BY <1>2, <2>2, <3>1 DEF CopyAnswered, CopySaves, KInv, RequestKnows
    <3> QED BY <1>8, <3>2
  <2> QED BY <1>5, <2>1, <2>2 DEF CopySaves
<1>10. s2.copy # NoCopy /\ m.key # 0 /\ ~s2.left
  BY <1>2, <1>6 DEF NoCopy, Here
<1> HIDE DEF s, t
<1>11. TabKnows(t, s2, requests', copies)
  BY <1>1, <1>2, <1>6, <1>8, <1>9, <1>10 DEF TabKnows
<1>12. RequestKnows(next, s2, requests', copies)
  <2>1. \A n \in requests' : n.tab = t /\ n.kind \in CopyKinds /\ n.waiting => n = next
    BY <1>2, <1>5
  <2> QED BY <1>2, <1>6, <1>7, <1>8, <1>9, <2>1 DEF RequestKnows
<1>13. ASSUME NEW n \in requests', n.tab = t, n.kind \in CopyKinds
       PROVE  RequestKnows(n, s2, requests', copies)
  <2>1. CASE n = next
    BY <1>12, <2>1
  <2>2. CASE n \in requests \ {m}
    <3>1. ~n.waiting
      BY <1>2, <1>13, <2>2
    <3> QED BY <1>2, <1>6, <1>13, <2>2, <3>1, UnawaitedKnows DEF s, t
  <2> QED BY <1>5, <2>1, <2>2
<1>14. \A n \in requests' : n \in requests \/ n.tab = t
  BY <1>5, <1>7
<1>15. Becomes(t, s2) \/ (UNCHANGED tab /\ s2 = tab[t])
  BY <1>5
<1> QED BY <1>2, <1>11, <1>13, <1>14, <1>15, KnowsTabStep

\* Every answer.
LEMMA TakeKnows ==
    ASSUME IInv, FInv, OInv, KInv, TakeAnswer(Tabs, Kinds)
    PROVE  KInv'
<1>1. PICK m \in requests :
        /\ m.answer # NoAnswer
        /\ \/ TakeSave(m) \/ TakeApply(m) \/ TakeUndo(m) \/ TakeReadiness(m)
           \/ TakeRead(m) \/ TakeCreate(m) \/ TakeCopy(m)
  BY DEF TakeAnswer
<1>2. UNCHANGED copies
  BY DEF TakeAnswer, serverVars
<1>3. m.tab \in Tabs /\ m.waiting
  BY <1>1, OldRequests DEF FInv, RequestFounded
<1>4. CASE \/ TakeSave(m) \/ TakeApply(m) \/ TakeUndo(m) \/ TakeReadiness(m) \/ TakeRead(m)
           \/ TakeCopy(m) /\ m.answer.kind = "conflict" /\ m.answer.content # m.sent
  <2>1. PICK s2 : AsideOf(m.tab, s2)
    BY <1>2, <1>4, AnswerAside
  <2>2. Here(m.tab)
    BY <1>3, WaitingStays
  <2>3. \A n \in requests' : n \in requests \/ (n.tab = m.tab /\ n.kind \notin CopyKinds)
    BY <2>1 DEF AsideOf
  <2> QED BY <1>2, <1>3, <2>1, <2>2, <2>3, KnowsAside DEF AsideOf
<1>5. CASE TakeCreate(m)
  <2>1. m.kind = "create" /\ m.kind \in CopyKinds
    BY <1>5 DEF TakeCreate, CopyKinds
  <2>2. CASE m.answer.kind = "replayed" /\ m.answer.content # m.sent
    BY <1>1, <1>2, <1>5, <2>1, <2>2, ResendKnows DEF TakeCreate
  <2>3. CASE ~(m.answer.kind = "replayed" /\ m.answer.content # m.sent)
    <3>1. CopyHolds(m, tab[m.tab])
      BY <1>5, <2>3 DEF TakeCreate
    <3>2. m.answer.content = m.sent
      BY <1>1, <2>1, <2>3, AnswerTells DEF CopyAnswered
    <3> QED BY <1>1, <1>2, <2>1, <3>1, <3>2, CopyHoldsKnows
  <2> QED BY <2>2, <2>3
<1>6. CASE TakeCopy(m) /\ ~(m.answer.kind = "conflict" /\ m.answer.content # m.sent)
  <2>1. m.kind = "copy" /\ m.kind \in CopyKinds
    BY <1>6 DEF TakeCopy, CopyKinds
  <2>2. CopyHolds(m, tab[m.tab])
    BY <1>6 DEF TakeCopy
  <2>3. m.answer.content = m.sent
    BY <1>1, <1>6, <2>1, AnswerTells DEF CopyAnswered
  <2> QED BY <1>1, <1>2, <2>1, <2>2, <2>3, CopyHoldsKnows
<1> QED BY <1>1, <1>4, <1>5, <1>6

\* The fetch of a request fails.
LEMMA LoseKnows ==
    ASSUME IInv, KInv, Lose
    PROVE  KInv'
<1>1. PICK m \in requests :
         LET s == tab[m.tab]
             orphan == IF m.answer = NoAnswer THEN {[m EXCEPT !.waiting = FALSE]} ELSE {}
             read == IF m.kind = "readiness" THEN {ReadRequest(m.tab, s)} ELSE {} IN
         /\ m.waiting
         /\ Becomes(m.tab,
              CASE m.kind = "save" -> NotSaved(s, m)
                [] m.kind = "read" -> [s EXCEPT !.mutating = FALSE]
                [] OTHER -> s)
         /\ requests' = (requests \ {m}) \cup orphan \cup read
  BY DEF Lose
<1> DEFINE s == tab[m.tab]
           orphan == IF m.answer = NoAnswer THEN {[m EXCEPT !.waiting = FALSE]} ELSE {}
           read == IF m.kind = "readiness" THEN {ReadRequest(m.tab, s)} ELSE {}
<1>2. PICK s2 : s2 = CASE m.kind = "save" -> NotSaved(s, m)
                       [] m.kind = "read" -> [s EXCEPT !.mutating = FALSE]
                       [] OTHER -> s
  OBVIOUS
<1>3. /\ m.waiting /\ Becomes(m.tab, s2) /\ UNCHANGED copies
      /\ requests' = (requests \ {m}) \cup orphan \cup read
  BY <1>1, <1>2 DEF Lose, serverVars
<1>4. m.tab \in Tabs /\ DOMAIN s = TabFields /\ Here(m.tab)
  BY <1>3, OldRequests, WaitingStays DEF TabSound
<1>5. s2 \in {NotSaved(s, m), [s EXCEPT !.mutating = FALSE], s}
  BY <1>2
<1>6. CopyKeeps(s, s2)
  BY <1>4, <1>5 DEF CopyKeeps, NotSaved, TabFields
<1>7. ASSUME NEW n \in requests'
      PROVE  n \in requests \/ (\E o \in requests : Faded(n, o))
               \/ (n.tab = m.tab /\ n.kind \notin CopyKinds)
  <2>1. CASE n \in orphan
    <3>1. m.answer = NoAnswer /\ n = [m EXCEPT !.waiting = FALSE]
      BY <2>1
    <3>2. Faded(n, m)
      BY <3>1, FadedRequest
    <3> QED BY <3>2
  <2>2. CASE n \in read
    <3>1. n = ReadRequest(m.tab, s)
      BY <2>2
    <3> QED BY <3>1 DEF ReadRequest, Request, CopyKinds
  <2> QED BY <1>3, <1>7, <2>1, <2>2
<1> HIDE DEF s
<1> QED BY <1>3, <1>4, <1>6, <1>7, KnowsAside DEF s

\* A request is answered: what is said of a copy holds as long as no other save into it comes.
LEMMA ServedKnows ==
    ASSUME IInv, FInv, KInv, NEW m \in requests, m.answer = NoAnswer, UNCHANGED tab,
           NEW answer, Answered(m, answer), answer # NoAnswer, CopiesGrow,
           \A c, d \in copies' : c.key = d.key => c = d,
           \A c \in copies' : c.revision \in Nat,
           m.kind \in CopyKinds /\ m.waiting =>
             /\ answer.revision \in Nat
             /\ \/ answer.content = m.sent
                \/ m.kind = "create" /\ answer.kind = "replayed"
                \/ m.kind = "copy" /\ answer.kind = "conflict"
             /\ \E c \in copies' : /\ c.key = <<m.tab, m.key>> /\ answer.content \subseteq c.content
                                   /\ answer.revision <= c.revision
             /\ \A n \in CopySaves(m.tab, m.key, requests) : n # m => n.expected < answer.revision
    PROVE  KInv'
<1>1. PICK m2 : m2 = [m EXCEPT !.answer = answer]
  OBVIOUS
<1>2. /\ requests' = (requests \ {m}) \cup (IF m.waiting THEN {m2} ELSE {})
      /\ m2.kind = m.kind /\ m2.tab = m.tab /\ m2.key = m.key /\ m2.waiting = m.waiting
      /\ m2.expected = m.expected /\ m2.sent = m.sent /\ m2.answer = answer
  BY <1>1, AnsweredRequest
<1>3. m # m2 /\ m \notin requests' /\ m.tab \in Tabs
  BY <1>2, OldRequests
<1>4. Echo(m2, m)
  BY <1>2, <1>3 DEF Echo
<1>5. ASSUME NEW u PROVE Follow(u)
  BY <1>2, <1>4 DEF Follow
<1>6. ASSUME NEW u \in Tabs PROVE TabKnows(u, tab'[u], requests', copies')
  <2>1. \A n \in requests' : n.tab = u /\ n.waiting => \E o \in requests : o.tab = u /\ o.waiting
    BY <1>2
  <2>2. CopyKeeps(tab[u], tab[u])
    BY DEF CopyKeeps
  <2> QED BY <1>5, <2>1, <2>2, TabKnowsKept
<1>7. ASSUME m.kind \in CopyKinds, m.waiting
      PROVE  RequestKnows(m2, tab'[m.tab], requests', copies')
  <2>1. RequestKnows(m, tab[m.tab], requests, copies)
    BY <1>7 DEF KInv
  <2>2. \A n \in requests' : n.tab = m.tab /\ n.kind \in CopyKinds /\ n.waiting => n = m2
    BY <1>2, <1>7, <2>1 DEF RequestKnows
  <2>3. m.kind = "create" => CopySaves(m.tab, m.key, requests') = {}
    BY <1>5, <1>7, <2>1, SavesFollow DEF RequestKnows
  <2>4. m.kind = "copy" =>
          /\ CopyAt(m.tab, m.key, m.expected, copies')
          /\ \A n \in CopySaves(m.tab, m.key, requests') : n.expected <= m.expected
    BY <1>5, <1>7, <2>1, SavesFollow, CopyAtStays DEF RequestKnows
  <2>5. CopyAnswered(m2, requests', copies')
    <3>1. \A n \in CopySaves(m.tab, m.key, requests') : n # m2 => n.expected < answer.revision
      BY <1>2, <1>3, <1>7 DEF CopySaves
    <3> QED BY <1>2, <1>7, <3>1 DEF CopyAnswered
  <2> QED BY <1>2, <2>1, <2>2, <2>3, <2>4, <2>5 DEF RequestKnows
<1>8. ASSUME NEW n \in requests', n.kind \in CopyKinds
      PROVE  RequestKnows(n, tab'[n.tab], requests', copies')
  <2>1. CASE n \in requests
    BY <1>5, <1>8, <2>1, RequestKnowsKept
  <2>2. CASE n = m2 /\ m.waiting
    BY <1>2, <1>7, <1>8, <2>2
  <2> QED BY <1>2, <1>8, <2>1, <2>2
<1> QED BY <1>6, <1>8 DEF KInv

\* A copy is asked for: it is made, or its key names the one that was made before.
LEMMA ServeCreateKnows ==
    ASSUME IInv, FInv, KInv, UNCHANGED tab, NEW m \in requests, m.answer = NoAnswer, ServeCreate(m)
    PROVE  KInv'
<1> DEFINE k == <<m.tab, m.key>>
           there == {c \in copies : c.key = k}
           made == [key |-> k, content |-> m.sent, revision |-> 1, shared |-> FALSE]
           chosen == CHOOSE c \in there : TRUE
<1>1. m.kind = "create" /\ m.kind \in CopyKinds
  BY DEF ServeCreate, CopyKinds
<1>2. PICK c : c = IF there = {} THEN made ELSE chosen
  OBVIOUS
<1>3. PICK answer : answer = [NoAnswer EXCEPT !.kind = IF there = {} THEN "ok" ELSE "replayed",
                                !.content = c.content, !.revision = c.revision]
  OBVIOUS
<1>4. copies' = copies \cup {c} /\ Answered(m, answer)
  BY <1>2, <1>3 DEF ServeCreate
<1>5. answer.content = c.content /\ answer.revision = c.revision
      /\ answer.kind = IF there = {} THEN "ok" ELSE "replayed"
  BY <1>3 DEF NoAnswer
<1>6. answer # NoAnswer
  BY <1>5 DEF NoAnswer
<1>7. c.key = k /\ c.revision \in Nat /\ (there = {} => c.content = m.sent) /\ (there # {} => c \in copies)
  <2>1. CASE there = {}
    BY <1>2, <2>1
  <2>2. CASE there # {}
    <3>1. c \in there
      BY <1>2, <2>2
    <3> QED BY <2>2, <3>1 DEF KInv
  <2> QED BY <2>1, <2>2
<1>8. \A d, e \in copies' : d.key = e.key => d = e
  <2>1. CASE there = {}
    BY <1>4, <1>7, <2>1 DEF KInv
  <2>2. CASE there # {}
    BY <1>4, <1>7, <2>2 DEF KInv
  <2> QED BY <2>1, <2>2
<1>9. \A d \in copies' : d.revision \in Nat
  BY <1>4, <1>7 DEF KInv
<1>10. CopiesGrow
  BY <1>4, <1>9 DEF CopiesGrow
<1>11. m.waiting => CopySaves(m.tab, m.key, requests) = {}
  BY <1>1 DEF KInv, RequestKnows
<1>12. answer.content = m.sent \/ answer.kind = "replayed"
  BY <1>5, <1>7
<1> HIDE DEF there, made, chosen
<1>13. \E d \in copies' : /\ d.key = <<m.tab, m.key>> /\ answer.content \subseteq d.content
                          /\ answer.revision <= d.revision
  BY <1>4, <1>5, <1>7
<1> QED BY <1>1, <1>4, <1>5, <1>6, <1>7, <1>8, <1>9, <1>10, <1>11, <1>12, <1>13, ServedKnows

\* Another text is saved into a copy, or a save into it comes too late.
LEMMA ServeCopyKnows ==
    ASSUME IInv, FInv, KInv, UNCHANGED tab, NEW m \in requests, m.answer = NoAnswer, ServeCopy(m),
           \A c \in copies : DOMAIN c = CopyFields
    PROVE  KInv'
<1>1. m.kind = "copy" /\ m.kind \in CopyKinds
  BY DEF ServeCopy, CopyKinds
<1>2. PICK c \in copies :
        /\ c.key = <<m.tab, m.key>>
        /\ LET saved == [c EXCEPT !.content = m.sent, !.revision = @ + 1]
               fits == c.revision = m.expected
               d == IF fits THEN saved ELSE c IN
           /\ copies' = (copies \ {c}) \cup {d}
           /\ Answered(m, [NoAnswer EXCEPT !.kind = IF fits THEN "ok" ELSE "conflict",
                               !.content = d.content, !.revision = d.revision])
  BY DEF ServeCopy
<1>3. PICK d : d = IF c.revision = m.expected
                   THEN [c EXCEPT !.content = m.sent, !.revision = @ + 1] ELSE c
  OBVIOUS
<1>4. PICK answer : answer = [NoAnswer EXCEPT !.kind = IF c.revision = m.expected THEN "ok" ELSE "conflict",
                                !.content = d.content, !.revision = d.revision]
  OBVIOUS
<1>5. copies' = (copies \ {c}) \cup {d} /\ Answered(m, answer)
  BY <1>2, <1>3, <1>4
<1>6. answer.content = d.content /\ answer.revision = d.revision
      /\ answer.kind = IF c.revision = m.expected THEN "ok" ELSE "conflict"
  BY <1>4 DEF NoAnswer
<1>7. answer # NoAnswer
  BY <1>6 DEF NoAnswer
<1>8. c.revision \in Nat /\ (\A a, b \in copies : a.key = b.key => a = b) /\ \A a \in copies : a.revision \in Nat
  BY DEF KInv
<1>9. /\ d.key = c.key /\ d.revision \in Nat /\ c.revision <= d.revision
      /\ c.revision = m.expected => d.content = m.sent /\ d.revision = c.revision + 1
      /\ c.revision # m.expected => d = c
  <2>1. CASE c.revision = m.expected
    <3>1. d.key = c.key /\ d.revision = c.revision + 1 /\ d.content = m.sent
      BY <1>3, <2>1 DEF CopyFields
    <3> QED BY <1>8, <2>1, <3>1
  <2>2. CASE c.revision # m.expected
    BY <1>3, <1>8, <2>2
  <2> QED BY <2>1, <2>2
<1>10. /\ \A a, b \in copies' : a.key = b.key => a = b
       /\ \A a \in copies' : a.revision \in Nat
  BY <1>5, <1>8, <1>9
<1>11. CopiesGrow
  <2> SUFFICES ASSUME NEW a \in copies
               PROVE  \E b \in copies' :
                        /\ b.key = a.key /\ a.revision <= b.revision /\ b.revision \in Nat
                        /\ \/ a.content \subseteq b.content
                           \/ \E n \in requests : /\ n.kind = "copy" /\ n.answer = NoAnswer
                                                  /\ <<n.tab, n.key>> = a.key /\ n.expected = a.revision
    BY DEF CopiesGrow
  <2>1. CASE a # c
    BY <1>5, <1>8, <2>1
  <2>2. CASE a = c
    BY <1>1, <1>2, <1>5, <1>9, <2>2
  <2> QED BY <2>1, <2>2
<1>12. ASSUME m.waiting, NEW n \in CopySaves(m.tab, m.key, requests), n # m
       PROVE  n.expected < answer.revision
  <2>1. RequestKnows(m, tab[m.tab], requests, copies)
    BY <1>1 DEF KInv
  <2>2. CopyAt(m.tab, m.key, m.expected, copies) /\ n.expected <= m.expected /\ m.expected \in Nat
    BY <1>1, <1>12, <2>1 DEF RequestKnows
  <2>3. m.expected <= c.revision
    BY <1>2, <1>8, <2>2 DEF CopyAt
  <2>4. n.expected \in Nat
    BY DEF KInv, RequestKnows, CopySaves, CopyKinds
  <2>5. m.expected < d.revision
    BY <1>8, <1>9, <2>2, <2>3
  <2> QED BY <1>6, <1>9, <2>2, <2>4, <2>5
<1>13. answer.content = m.sent \/ answer.kind = "conflict"
  BY <1>6, <1>9
<1>14. \E e \in copies' : /\ e.key = <<m.tab, m.key>> /\ answer.content \subseteq e.content
                          /\ answer.revision <= e.revision
  BY <1>2, <1>5, <1>6, <1>9
<1>15. answer.revision \in Nat
  BY <1>6, <1>9
<1> QED BY <1>1, <1>5, <1>7, <1>10, <1>11, <1>12, <1>13, <1>14, <1>15, ServedKnows

\* Every step of the server.
LEMMA ServeKnows ==
    ASSUME IInv, FInv, KInv, Serve(Tabs, Kinds), \A c \in copies : DOMAIN c = CopyFields
    PROVE  KInv'
<1>1. PICK m \in requests :
        /\ m.answer = NoAnswer
        /\ \/ ServeSave(m) \/ ServeApply(m) \/ ServeUndo(m) \/ ServeReadiness(m)
           \/ ServeRead(m) \/ ServeCreate(m) \/ ServeCopy(m)
  BY DEF Serve
<1>2. UNCHANGED tab
  BY DEF Serve
<1>3. CASE ServeSave(m) \/ ServeApply(m) \/ ServeUndo(m) \/ ServeReadiness(m) \/ ServeRead(m)
  <2>1. UNCHANGED copies /\ m.kind \notin CopyKinds
    BY <1>3 DEF ServeSave, ServeApply, ServeUndo, ServeReadiness, ServeRead, serverVars, CopyKinds
  <2>2. PICK answer : Answered(m, answer) /\ answer.kind # "none"
    <3>1. Reply("conflict").kind # "none" /\ Refusal.kind # "none"
      BY DEF Reply, Refusal, NoAnswer
    <3>2. CASE AnsweredNow(m)
      BY <3>2 DEF AnsweredNow
    <3>3. CASE \E answer \in {Reply("conflict"), Refusal} : Answered(m, answer)
      BY <3>1, <3>3
    <3>4. CASE ServeRead(m)
      <4>1. [Reply("ok") EXCEPT !.content = {}].kind # "none"
        BY DEF Reply
      <4> QED BY <3>1, <3>4, <4>1 DEF ServeRead
    <3>5. CASE ServeSave(m)
      BY <3>2, <3>3, <3>5 DEF ServeSave
    <3>6. CASE ServeApply(m)
      BY <3>2, <3>3, <3>6 DEF ServeApply
    <3>7. CASE ServeUndo(m)
      BY <3>2, <3>3, <3>7 DEF ServeUndo
    <3>8. CASE ServeReadiness(m)
      BY <3>2, <3>3, <3>8 DEF ServeReadiness
    <3> QED BY <1>3, <3>4, <3>5, <3>6, <3>7, <3>8
  <2>3. answer # NoAnswer
    BY <2>2 DEF NoAnswer
  <2>4. CopiesGrow
    BY <2>1 DEF CopiesGrow, KInv
  <2>5. /\ \A c, d \in copies' : c.key = d.key => c = d
        /\ \A c \in copies' : c.revision \in Nat
    BY <2>1 DEF KInv
  <2> QED BY <1>1, <1>2, <2>1, <2>2, <2>3, <2>4, <2>5, ServedKnows
<1> QED BY <1>1, <1>2, <1>3, ServeCreateKnows, ServeCopyKnows

\* Another client edits a copy: it holds what it held.
LEMMA OtherKnows ==
    ASSUME IInv, KInv, OtherEditsCopy, \A c \in copies : DOMAIN c = CopyFields
    PROVE  KInv'
<1>1. PICK c \in copies : copies' = (copies \ {c}) \cup
             {[c EXCEPT !.content = @ \cup {Other}, !.revision = @ + 1, !.shared = TRUE]}
  BY DEF OtherEditsCopy
<1>2. PICK d : d = [c EXCEPT !.content = @ \cup {Other}, !.revision = @ + 1, !.shared = TRUE]
  OBVIOUS
<1>3. d.key = c.key /\ d.revision = c.revision + 1 /\ c.content \subseteq d.content
  BY <1>2 DEF CopyFields
<1>4. (\A a, b \in copies : a.key = b.key => a = b) /\ \A a \in copies : a.revision \in Nat
  BY DEF KInv
<1>5. copies' = (copies \ {c}) \cup {d} /\ UNCHANGED <<tab, requests>>
  BY <1>1, <1>2 DEF OtherEditsCopy
<1>6. c.revision <= d.revision /\ d.revision \in Nat
  BY <1>3, <1>4
<1>7. CopiesGrow
  BY <1>3, <1>4, <1>5, <1>6 DEF CopiesGrow
<1>8. \A u : Follow(u)
  BY <1>5 DEF Follow
<1>9. \A u \in Tabs : TabKnows(u, tab'[u], requests', copies')
  BY <1>5, <1>7, <1>8, TabKnowsKept DEF CopyKeeps
<1>10. \A m \in requests' : m.kind \in CopyKinds => RequestKnows(m, tab'[m.tab], requests', copies')
  BY <1>5, <1>7, <1>8, RequestKnowsKept
<1>11. /\ \A a, b \in copies' : a.key = b.key => a = b
       /\ \A a \in copies' : a.revision \in Nat
  BY <1>3, <1>4, <1>5, <1>6
<1> QED BY <1>9, <1>10, <1>11 DEF KInv

\* At first there are no copies.
LEMMA InitKnows == Init => KInv
<1> SUFFICES ASSUME Init PROVE KInv
  OBVIOUS
<1>1. requests = {} /\ copies = {}
  BY DEF Init
<1>2. \A t \in Tabs : tab[t].key = 0 /\ tab[t].keys = 0 /\ tab[t].copy = NoCopy /\ ~tab[t].left
  BY DEF Init
<1>3. NoCopy.key = 0 /\ NoCopy.revision = 0
  BY DEF NoCopy
<1> QED BY <1>1, <1>2, <1>3 DEF KInv, TabKnows

\* Every step.
LEMMA StepKnows ==
    ASSUME IInv, FInv, OInv, CInv, KInv, [Next]_vars
    PROVE  KInv'
<1>1. \A c \in copies : DOMAIN c = CopyFields
  BY DEF CInv
<1>2. CASE UNCHANGED vars \/ EndPlainWrites
  <2>1. UNCHANGED <<tab, requests, copies>>
    BY <1>2 DEF vars, EndPlainWrites
  <2> QED BY <2>1 DEF KInv
<1>3. CASE Serve(Tabs, Kinds) \/ TakeAnswer(Tabs, Kinds) \/ Lose \/ OtherEditsCopy
  BY <1>1, <1>3, ServeKnows, TakeKnows, LoseKnows, OtherKnows
<1>4. CASE \E t \in Tabs :
             \/ Type(t) \/ Autosave(t) \/ Retry(t) \/ AcceptProposals(t) \/ UndoChange(t)
             \/ ChangeReadiness(t) \/ RefreshWorkflow(t) \/ SameDocumentSnapshot(t)
             \/ LoadServerVersion(t)
  <2>1. PICK t \in Tabs :
             \/ Type(t) \/ Autosave(t) \/ Retry(t) \/ AcceptProposals(t) \/ UndoChange(t)
             \/ ChangeReadiness(t) \/ RefreshWorkflow(t) \/ SameDocumentSnapshot(t)
             \/ LoadServerVersion(t)
    BY <1>4
  <2>2. Here(t) /\ \E s2 : AsideOf(t, s2)
    BY <2>1, UserAside
  <2>3. PICK s2 : AsideOf(t, s2)
    BY <2>2
  <2>4. \A n \in requests' : n \in requests \/ (n.tab = t /\ n.kind \notin CopyKinds)
    BY <2>3 DEF AsideOf
  <2> QED BY <2>2, <2>3, <2>4, KnowsAside DEF AsideOf
<1>5. CASE \E t \in Tabs : SaveAsNew(t)
  BY <1>5, SaveAsNewKnows
<1> QED BY <1>2, <1>3, <1>4, <1>5 DEF Next

-----------------------------------------------------------------------------
\* A tab that moved to its recovery copy left nothing of its user behind: the copy
\* holds all that its draft has of its user, whatever other clients write there, as
\* long as a tab that waits for an apply or an undo takes no other draft meanwhile.
THEOREM CopiesAreComplete ==
    ASSUME ~DraftReplacedDuringCommands
    PROVE  Spec => []CopyComplete
<1>1. Spec => []IInv /\ []FInv
  BY Inductive, FoundedAlways
<1>2. Init => CInv /\ OInv /\ KInv
  BY InitCopies, InitOwn, InitKnows
<1>3. IInv /\ IInv' /\ FInv /\ CInv /\ OInv /\ KInv /\ [Next]_vars => CInv' /\ OInv' /\ KInv'
  BY CopiesMade, StepOwn, StepKnows
<1>4. KInv => CopyComplete
  BY DEF KInv, TabKnows, TabLeft, CopyComplete
<1> QED BY <1>1, <1>2, <1>3, <1>4, PTL DEF Spec
=============================================================================
