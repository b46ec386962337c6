------------------------ MODULE ProposalCommands_proofs ------------------------
(***************************************************************************)
(* Proofs about ProposalCommands: for any proposals, requests, handlers and *)
(* bounds, a proposal is accepted by one standing change, a command has one *)
(* result, and the documents row is honest about the head.                  *)
(*                                                                          *)
(* The invariant adds to the properties what they rest on: an action has    *)
(* its receipt and an undone change its undo (Ledger), and the projection   *)
(* is never ahead.                                                          *)
(* Only a commit writes actions, receipts and changes, and everything else  *)
(* leaves them alone (LedgerUntouched).                                     *)
(***************************************************************************)
EXTENDS ProposalCommands, FiniteSetTheorems, TLAPS

Finite ==
    /\ IsFiniteSet(body)
    /\ \A n \in DOMAIN changes : IsFiniteSet(changes[n].inverse.restores)

Ledger ==
    \A a \in actions :
        /\ a.change \in DOMAIN changes
        /\ a.request.kind = "undo" => changes[a.change].undone
        /\ \E r \in receipts : r.request = a.request

Behind == collaboration.projectedSeq <= collaboration.headSeq

IInv ==
    /\ TypeOK
    /\ Finite
    /\ Ledger
    /\ Behind
    /\ AcceptedByOneChange
    /\ OneResult
    /\ ProjectionHonest

-----------------------------------------------------------------------------
(* Requests, batches and the items they touch.                             *)

LEMMA BatchType ==
    ASSUME NEW items \in Batches
    PROVE  /\ DOMAIN items \subseteq Proposals
           /\ \A p \in DOMAIN items : items[p] \in Modes
BY DEF Batches

LEMMA SlotType ==
    ASSUME NEW items \in Batches, NEW p \in DOMAIN items
    PROVE  /\ EffectSlot(p, items[p]) \in Slots
           /\ TargetSlot(p) \in Slots
           /\ items[p] = "replace" => EffectSlot(p, items[p]) = TargetSlot(p)
BY BatchType, ProposalsAssumption DEF EffectSlot, TargetSlot, Slots

LEMMA InsertedType ==
    ASSUME NEW items \in Batches, NEW seq \in Nat
    PROVE  /\ Inserted(items, seq) \subseteq Item
           /\ IsFiniteSet(Inserted(items, seq))
           /\ \A i \in Inserted(items, seq) :
                \E p \in DOMAIN items : i.slot = EffectSlot(p, items[p])
<1> DEFINE S == {q \in Effective(items) : Replacement[q] # NoText}
           f == [p \in S |-> [slot |-> EffectSlot(p, items[p]),
                              text |-> Replacement[p], seq |-> seq]]
<1>1. S \subseteq DOMAIN items
  BY DEF Effective
<1>2. f \in Surjection(S, Inserted(items, seq))
  BY DEF Surjection, Inserted
<1>3. IsFiniteSet(S)
  BY <1>1, BatchType, ProposalsAssumption, FS_Subset
<1>4. IsFiniteSet(Inserted(items, seq))
  BY <1>2, <1>3, FS_Surjection
<1>5. \A p \in S : Replacement[p] \in Texts
  BY <1>1, BatchType, ProposalsAssumption
<1>6. Inserted(items, seq) \subseteq Item
  BY <1>1, <1>5, SlotType DEF Inserted, Item
<1>7. \A i \in Inserted(items, seq) :
        \E p \in DOMAIN items : i.slot = EffectSlot(p, items[p])
  BY <1>1 DEF Inserted
<1> QED
  BY <1>4, <1>6, <1>7

LEMMA RemovedType ==
    ASSUME NEW items \in Batches
    PROVE  /\ Removed(items) \subseteq body
           /\ \A i \in Removed(items) :
                \E p \in DOMAIN items : i.slot = EffectSlot(p, items[p])
BY SlotType DEF Removed, Effective

\* What an inverse puts back, as items of the update that undoes.
LEMMA RestoredType ==
    ASSUME NEW restores \in SUBSET [slot : Slots, text : Texts],
           IsFiniteSet(restores), NEW seq \in Nat
    PROVE  LET new == {[slot |-> t.slot, text |-> t.text, seq |-> seq] : t \in restores}
           IN  new \subseteq Item /\ IsFiniteSet(new)
<1> DEFINE new == {[slot |-> t.slot, text |-> t.text, seq |-> seq] : t \in restores}
           f == [t \in restores |-> [slot |-> t.slot, text |-> t.text, seq |-> seq]]
<1>1. f \in Surjection(restores, new)
  BY DEF Surjection
<1>2. IsFiniteSet(new)
  BY <1>1, FS_Surjection
<1>3. new \subseteq Item
  BY DEF Item
<1> QED
  BY <1>2, <1>3

LEMMA FingerprintType ==
    ASSUME NEW b, IsFiniteSet(b), NEW slot
    PROVE  Fingerprint(b, slot) \in [Texts -> Nat]
<1>1. ASSUME NEW t \in Texts
      PROVE  Cardinality({i \in b : i.slot = slot /\ i.text = t}) \in Nat
  BY FS_Subset, FS_CardinalityType
<1> QED
  BY <1>1 DEF Fingerprint

-----------------------------------------------------------------------------
(* Handlers.                                                               *)

LEMMA Working ==
    ASSUME TypeOK, NEW h \in Handlers, handlers[h] # Idle
    PROVE  /\ handlers[h] \in Handler
           /\ handlers[h].request \in Request
           /\ handlers[h].request.kind = "apply" => handlers[h].request \in ApplyRequest
           /\ handlers[h].request.kind = "undo" => handlers[h].request \in UndoRequest
<1>1. handlers[h] \in Handler
  BY DEF TypeOK
<1>2. handlers[h].request \in Request
  BY <1>1 DEF Handler
<1> QED
  BY <1>1, <1>2 DEF Request, ApplyRequest, UndoRequest

LEMMA CommittingWorks ==
    ASSUME TypeOK, NEW h \in Handlers, Committing(h)
    PROVE  handlers[h] # Idle
BY DEF Committing, Idle

\* Whether the outcome is heard or lost, the handler is of its type and an
\* answer is added or not.
LEMMA AnsweredType ==
    ASSUME TypeOK, NEW h \in Handlers, Committing(h),
           NEW change \in Nat \ {0}, NEW g \in Nat, NEW seq \in Nat,
           Answered(h, change, g, seq)
    PROVE  /\ handlers' \in [Handlers -> Handler \cup {Idle}]
           /\ answers' \subseteq Answer
           /\ \A x \in answers' : x \in answers \/
                 x = [request |-> handlers[h].request, change |-> change,
                      generation |-> g, headSeq |-> seq]
<1>1. handlers[h] \in Handler /\ handlers[h].request \in Request
  BY CommittingWorks, Working
<1>2. AfterFailure(handlers[h]) \in Handler \cup {Idle}
  <2>1. [handlers[h] EXCEPT !.step = "reclassify"] \in Handler
    BY <1>1 DEF Handler
  <2> QED
    BY <2>1 DEF AfterFailure
<1>3. handlers' \in [Handlers -> Handler \cup {Idle}]
  BY <1>2 DEF Answered, TypeOK
<1>4. [request |-> handlers[h].request, change |-> change, generation |-> g,
       headSeq |-> seq] \in Answer
  BY <1>1 DEF Answer
<1> QED
  BY <1>3, <1>4 DEF Answered, TypeOK

\* A step that only moves a handler preserves the invariant.
LEMMA HandlerStep ==
    ASSUME IInv, UNCHANGED <<storeVars, answers>>,
           handlers' \in [Handlers -> Handler \cup {Idle}]
    PROVE  IInv'
<1> USE DEF storeVars
<1>1. TypeOK'
  BY DEF IInv, TypeOK
<1>2. Finite' /\ Ledger' /\ Behind'
  BY DEF IInv, Finite, Ledger, Behind
<1>3. AcceptedByOneChange' /\ OneResult' /\ ProjectionHonest'
  BY DEF IInv, AcceptedByOneChange, OneResult, ProjectionHonest, Standing
<1> QED
  BY <1>1, <1>2, <1>3 DEF IInv

LEMMA ResolveStep ==
    ASSUME IInv, NEW h \in Handlers, NEW r \in Request, Resolve(h, r)
    PROVE  IInv'
<1>1. PICK g \in 1 .. MaxGeneration :
        handlers' = [handlers EXCEPT ![h] = [step |-> "resolved", request |-> r,
                                             generation |-> g, known |-> FALSE]]
  BY DEF Resolve
<1>2. [step |-> "resolved", request |-> r, generation |-> g, known |-> FALSE] \in Handler
  BY BoundAssumption DEF Handler
<1>3. handlers' \in [Handlers -> Handler \cup {Idle}]
  BY <1>1, <1>2 DEF IInv, TypeOK
<1> QED
  BY <1>3, HandlerStep DEF Resolve

LEMMA ClassifyStep ==
    ASSUME IInv, NEW h \in Handlers, Classify(h)
    PROVE  IInv'
<1> DEFINE known == Known(handlers[h].request, handlers[h].generation)
<1>1. handlers[h] \in Handler
  BY Working DEF Classify, Idle, IInv
<1>2. known \in BOOLEAN
  BY DEF Known
<1>3. [handlers[h] EXCEPT !.step = "commit", !.known = known] \in Handler
  BY <1>1, <1>2 DEF Handler
<1>4. handlers' \in [Handlers -> Handler \cup {Idle}]
  BY <1>3 DEF Classify, IInv, TypeOK
<1> QED
  BY <1>4, HandlerStep DEF Classify

LEMMA FailStep ==
    ASSUME IInv, NEW h \in Handlers, CommitFails(h)
    PROVE  IInv'
<1>1. handlers[h] \in Handler
  BY Working DEF CommitFails, Idle, IInv
<1>2. [handlers[h] EXCEPT !.step = "reclassify"] \in Handler
  BY <1>1 DEF Handler
<1>3. handlers' \in [Handlers -> Handler \cup {Idle}]
  BY <1>2 DEF CommitFails, AfterFailure, IInv, TypeOK
<1> QED
  BY <1>3, HandlerStep DEF CommitFails

LEMMA ReclassifyStep ==
    ASSUME IInv, NEW h \in Handlers, Reclassify(h)
    PROVE  IInv'
<1>1. handlers[h] \in Handler
  BY Working DEF Reclassify, Idle, IInv
<1>2. [handlers[h] EXCEPT !.step = "again"] \in Handler
  BY <1>1 DEF Handler
<1>3. handlers' \in [Handlers -> Handler \cup {Idle}]
  BY <1>2 DEF Reclassify, IInv, TypeOK
<1> QED
  BY <1>3, HandlerStep DEF Reclassify

LEMMA AbandonStep ==
    ASSUME IInv, NEW h \in Handlers, Abandon(h)
    PROVE  IInv'
<1>1. handlers' \in [Handlers -> Handler \cup {Idle}]
  BY DEF Abandon, IInv, TypeOK
<1> QED
  BY <1>1, HandlerStep DEF Abandon

LEMMA ReplayStep ==
    ASSUME IInv, NEW h \in Handlers, CommitReplay(h)
    PROVE  IInv'
<1>1. PICK stored \in ReceiptsOf(handlers[h].request.command), a \in actions :
        /\ stored.request = handlers[h].request
        /\ a.request = handlers[h].request
        /\ a.headSeq = stored.headSeq
        /\ deliveries' = IF stored.updates
                         THEN deliveries \cup {stored.request.command}
                         ELSE deliveries
        /\ Answered(h, a.change, stored.generation, stored.headSeq)
  BY DEF CommitReplay
<1>2. stored \in receipts /\ stored \in Receipt /\ a \in Action
  BY <1>1 DEF ReceiptsOf, IInv, TypeOK
<1>3. stored.request \in Request /\ stored.generation \in Nat /\ stored.headSeq \in Nat
      /\ a.change \in Nat \ {0}
  BY <1>2 DEF Receipt, Action
<1>4. stored.request.command \in Commands
  BY <1>3 DEF Request, ApplyRequest, UndoRequest
<1>5. deliveries' \subseteq Commands
  BY <1>1, <1>4 DEF IInv, TypeOK
<1>6. /\ handlers' \in [Handlers -> Handler \cup {Idle}]
      /\ answers' \subseteq Answer
      /\ \A x \in answers' : x \in answers \/
           x = [request |-> handlers[h].request, change |-> a.change,
                generation |-> stored.generation, headSeq |-> stored.headSeq]
  BY <1>1, <1>3, AnsweredType DEF CommitReplay, IInv
<1> USE DEF CommitReplay
<1>7. TypeOK'
  BY <1>5, <1>6 DEF IInv, TypeOK
<1>8. Finite' /\ Ledger' /\ Behind'
  BY DEF IInv, Finite, Ledger, Behind
<1>9. AcceptedByOneChange' /\ ProjectionHonest'
  BY DEF IInv, AcceptedByOneChange, ProjectionHonest, Standing
<1>10. a.generation = stored.generation
  <2>1. PICK b \in actions : b.request = stored.request /\ b.generation = stored.generation
    BY <1>2 DEF IInv, OneResult
  <2>2. b = a
    BY <1>1, <2>1 DEF IInv, OneResult
  <2> QED
    BY <2>1, <2>2
<1>11. OneResult'
  <2>1. \A x \in answers' : \E b \in actions :
          /\ b.request = x.request /\ b.change = x.change
          /\ b.headSeq = x.headSeq /\ b.generation = x.generation
    BY <1>1, <1>6, <1>10 DEF IInv, OneResult
  <2> QED
    BY <2>1 DEF IInv, OneResult
<1> QED
  BY <1>7, <1>8, <1>9, <1>11 DEF IInv

-----------------------------------------------------------------------------
(* Commits.                                                                *)

LEMMA RevisionType ==
    ASSUME TypeOK, NEW rotates \in BOOLEAN, NEW changed \in BOOLEAN
    PROVE  CommandRevision(rotates, changed) = document.revision + 1
BY DEF TypeOK, CommandRevision, Advance

\* What every commit writes, whatever it commits.
Recorded(h, changed, newBody, change, g, seq) ==
    /\ collaboration' \in [generation : Nat, headSeq : Nat, projectedSeq : Nat]
    /\ Behind'
    /\ body' = newBody
    /\ document' \in [approved : BOOLEAN, revision : Nat, content : SUBSET Item]
    /\ document'.content = body'
    /\ document'.revision = document.revision + 1
    /\ receipts' = receipts \cup
         {[request |-> handlers[h].request, generation |-> g, headSeq |-> seq,
           updates |-> changed]}
    /\ receipts' \subseteq Receipt
    /\ actions' = actions \cup
         {[request |-> handlers[h].request, generation |-> g, headSeq |-> seq,
           change |-> change]}
    /\ actions' \subseteq Action
    /\ deliveries' \subseteq Commands
    /\ handlers' \in [Handlers -> Handler \cup {Idle}]
    /\ answers' \subseteq Answer
    /\ \A x \in answers' : x \in answers \/
         x = [request |-> handlers[h].request, change |-> change,
              generation |-> g, headSeq |-> seq]

LEMMA RecordType ==
    ASSUME IInv, NEW h \in Handlers, Committing(h),
           NEW changed \in BOOLEAN, NEW rotates \in BOOLEAN,
           NEW newBody \in SUBSET Item, NEW change \in Nat \ {0},
           Record(h, changed, rotates, newBody, change)
    PROVE  \E g \in Nat, seq \in Nat : Recorded(h, changed, newBody, change, g, seq)
<1> DEFINE seq == collaboration.headSeq + (IF changed THEN 1 ELSE 0)
           g == collaboration.generation + (IF changed /\ rotates THEN 1 ELSE 0)
           r == handlers[h].request
<1>1. collaboration \in [generation : Nat, headSeq : Nat, projectedSeq : Nat]
  BY DEF IInv, TypeOK
<1>2. seq \in Nat /\ g \in Nat
  BY <1>1
<1>3. /\ collaboration' \in [generation : Nat, headSeq : Nat, projectedSeq : Nat]
      /\ Behind'
  <2>1. CASE changed
    BY <1>1, <2>1 DEF Record, AppendUpdate, Behind
  <2>2. CASE ~changed
    BY <1>1, <2>2 DEF Record, Behind, IInv
  <2> QED
    BY <2>1, <2>2
<1>4. r \in Request /\ r.command \in Commands
  BY CommittingWorks, Working DEF IInv, Request, ApplyRequest, UndoRequest
<1>5. /\ document' \in [approved : BOOLEAN, revision : Nat, content : SUBSET Item]
      /\ document'.content = newBody
      /\ document'.revision = document.revision + 1
  <2>1. document \in [approved : BOOLEAN, revision : Nat, content : SUBSET Item]
    BY DEF IInv, TypeOK
  <2> DEFINE revision == CommandRevision(rotates, changed)
             approved == document.approved /\ ~changed
  <2>2. document' = [document EXCEPT !.content = newBody, !.revision = revision,
                                     !.approved = approved]
    BY Zenon DEF Record
  <2>3. approved \in BOOLEAN
    OBVIOUS
  <2>4. revision = document.revision + 1
    BY RevisionType DEF IInv
  <2>5. revision \in Nat /\ newBody \in SUBSET Item
    BY <2>1, <2>4
  <2> HIDE DEF revision, approved
  <2>6. document' = [approved |-> approved, revision |-> revision, content |-> newBody]
    BY <2>1, <2>2
  <2>7. document' \in [approved : BOOLEAN, revision : Nat, content : SUBSET Item]
    BY <2>3, <2>5, <2>6
  <2> QED
    BY <2>4, <2>6, <2>7
<1>6. receipts' = receipts \cup
        {[request |-> r, generation |-> g, headSeq |-> seq, updates |-> changed]}
  BY DEF Record
<1>7. actions' = actions \cup
        {[request |-> r, generation |-> g, headSeq |-> seq, change |-> change]}
  BY DEF Record
<1>8. receipts' \subseteq Receipt /\ actions' \subseteq Action
  <2>1. [request |-> r, generation |-> g, headSeq |-> seq, updates |-> changed] \in Receipt
    BY <1>2, <1>4 DEF Receipt
  <2>2. [request |-> r, generation |-> g, headSeq |-> seq, change |-> change] \in Action
    BY <1>2, <1>4 DEF Action
  <2> QED
    BY <1>6, <1>7, <2>1, <2>2 DEF IInv, TypeOK
<1>9. deliveries' \subseteq Commands
  BY <1>4 DEF Record, IInv, TypeOK
<1>10. Answered(h, change, g, seq) /\ body' = newBody
  BY DEF Record
<1>11. /\ handlers' \in [Handlers -> Handler \cup {Idle}]
       /\ answers' \subseteq Answer
       /\ \A x \in answers' : x \in answers \/
            x = [request |-> r, change |-> change, generation |-> g, headSeq |-> seq]
  BY <1>2, <1>10, AnsweredType DEF IInv
<1>12. Recorded(h, changed, newBody, change, g, seq)
  BY <1>3, <1>5, <1>6, <1>7, <1>8, <1>9, <1>10, <1>11 DEF Recorded
<1> QED
  BY <1>2, <1>12

\* A commit for the first time, on a change that no command of its kind made,
\* keeps one result per command.
LEMMA RecordResult ==
    ASSUME IInv, NEW h \in Handlers, FirstTime(h), NEW change \in Nat \ {0},
           NEW g, NEW seq, NEW changed \in BOOLEAN,
           \A a \in actions : a.request.kind = handlers[h].request.kind
                                => a.change # change,
           receipts' = receipts \cup
             {[request |-> handlers[h].request, generation |-> g, headSeq |-> seq,
               updates |-> changed]},
           actions' = actions \cup
             {[request |-> handlers[h].request, generation |-> g, headSeq |-> seq,
               change |-> change]},
           \A x \in answers' : x \in answers \/
             x = [request |-> handlers[h].request, change |-> change,
                  generation |-> g, headSeq |-> seq]
    PROVE  OneResult'
<1> DEFINE r == handlers[h].request
           new == [request |-> r, generation |-> g, headSeq |-> seq, change |-> change]
<1>1. \A a \in actions : a.request.command # r.command
  BY DEF FirstTime, ReceiptsOf, IInv, Ledger
<1>2. \A a, b \in actions' : a.request.command = b.request.command => a = b
  BY <1>1 DEF IInv, OneResult
<1>3. \A a, b \in actions' :
        a.request.kind = b.request.kind /\ a.change = b.change => a = b
  BY DEF IInv, OneResult
<1>4. \A s \in receipts' : \E a \in actions' :
        a.request = s.request /\ a.headSeq = s.headSeq /\ a.generation = s.generation
  <2>1. new \in actions'
    OBVIOUS
  <2>2. \A s \in receipts : \E a \in actions' :
          a.request = s.request /\ a.headSeq = s.headSeq /\ a.generation = s.generation
    BY DEF IInv, OneResult
  <2> SUFFICES ASSUME NEW s \in receipts', s \notin receipts
               PROVE  \E a \in actions' :
                        /\ a.request = s.request /\ a.headSeq = s.headSeq
                        /\ a.generation = s.generation
    BY <2>2
  <2>3. s = [request |-> r, generation |-> g, headSeq |-> seq, updates |-> changed]
    OBVIOUS
  <2>4. new.request = s.request /\ new.headSeq = s.headSeq /\ new.generation = s.generation
    BY <2>3
  <2> QED
    BY <2>1, <2>4
<1>5. \A x \in answers' : \E a \in actions' :
        /\ a.request = x.request /\ a.change = x.change
        /\ a.headSeq = x.headSeq /\ a.generation = x.generation
  <2> SUFFICES ASSUME NEW x \in answers'
               PROVE  \E a \in actions' :
                        /\ a.request = x.request /\ a.change = x.change
                        /\ a.headSeq = x.headSeq /\ a.generation = x.generation
    OBVIOUS
  <2>1. CASE x \in answers
    BY <2>1 DEF IInv, OneResult
  <2>2. CASE x = [request |-> r, change |-> change, generation |-> g, headSeq |-> seq]
    <3>1. new \in actions'
      OBVIOUS
    <3> QED
      BY <2>2, <3>1
  <2> QED
    BY <2>1, <2>2
<1> QED
  BY <1>2, <1>3, <1>4, <1>5 DEF OneResult

LEMMA CaptureType ==
    ASSUME IInv, NEW items \in Batches, NEW seq \in Nat,
           NEW newBody, IsFiniteSet(newBody)
    PROVE  /\ Capture(items, seq, newBody) \in StoredInverse
           /\ IsFiniteSet(Capture(items, seq, newBody).restores)
<1> DEFINE inverse == Capture(items, seq, newBody)
           restores == {[slot |-> i.slot, text |-> i.text] : i \in Removed(items)}
           f == [i \in Removed(items) |-> [slot |-> i.slot, text |-> i.text]]
<1>1. CASE Effective(items) = {}
  <2>1. inverse = NoInverse
    BY <1>1 DEF Capture
  <2> DEFINE zero == [s \in Slots |-> [t \in Texts |-> 0]]
  <2>2. zero \in [Slots -> [Texts -> Nat]]
    OBVIOUS
  <2>3. NoInverse \in StoredInverse /\ NoInverse.restores = {} /\ NoInverse.removes = {}
    <3>1. NoInverse = [removes |-> {}, restores |-> {}, range |-> {},
                       postcondition |-> zero]
      BY DEF NoInverse
    <3> HIDE DEF zero
    <3> QED
      BY <2>2, <3>1 DEF StoredInverse
  <2> QED
    BY <2>1, <2>3, FS_EmptySet
<1>2. CASE Effective(items) # {}
  <2>1. inverse = [removes |-> Inserted(items, seq), restores |-> restores,
                   range |-> ChangedRange(items),
                   postcondition |-> [s \in Slots |-> Fingerprint(newBody, s)]]
    BY <1>2 DEF Capture
  <2>2. Removed(items) \subseteq Item /\ IsFiniteSet(Removed(items))
    BY RemovedType, FS_Subset DEF IInv, TypeOK, Finite
  <2>3. f \in Surjection(Removed(items), restores)
    BY DEF Surjection
  <2>4. IsFiniteSet(restores)
    BY <2>2, <2>3, FS_Surjection
  <2>5. restores \subseteq [slot : Slots, text : Texts]
    BY <2>2 DEF Item
  <2>6. [s \in Slots |-> Fingerprint(newBody, s)] \in [Slots -> [Texts -> Nat]]
    BY FingerprintType
  <2>7. ChangedRange(items) \subseteq Slots
    BY DEF ChangedRange
  <2> DEFINE inserted == Inserted(items, seq)
             range == ChangedRange(items)
             postcondition == [s \in Slots |-> Fingerprint(newBody, s)]
  <2>8. inverse \in StoredInverse
    <3>1. inserted \in SUBSET Item /\ range \in SUBSET Slots
      BY <2>7, InsertedType
    <3>2. restores \in SUBSET [slot : Slots, text : Texts]
      BY <2>5
    <3>3. inverse = [removes |-> inserted, restores |-> restores, range |-> range,
                     postcondition |-> postcondition]
      BY <2>1
    <3>4. postcondition \in [Slots -> [Texts -> Nat]]
      BY <2>6
    <3> HIDE DEF inverse, inserted, restores, range, postcondition
    <3> QED
      BY <3>1, <3>2, <3>3, <3>4 DEF StoredInverse
  <2> QED
    BY <2>1, <2>4, <2>8
<1> QED
  BY <1>1, <1>2

LEMMA ApplyStep ==
    ASSUME IInv, NEW h \in Handlers, NEW rotates \in BOOLEAN, CommitApply(h, rotates)
    PROVE  IInv'
<1>a. PICK items : items = handlers[h].request.items
  OBVIOUS
<1>b. PICK n : n = Len(changes) + 1
  OBVIOUS
<1> DEFINE changed == Effective(items) # {}
           seq == collaboration.headSeq + 1
           newBody == (body \ Removed(items)) \cup Inserted(items, seq)
           new == [links |-> items, undone |-> FALSE,
                   inverse |-> Capture(items, seq, newBody)]
<1>1. Committing(h) /\ FirstTime(h) /\ handlers[h].request.kind = "apply"
  BY DEF CommitApply, FirstTime
<1>2. items \in Batches
  BY <1>a, <1>1, CommittingWorks, Working DEF IInv, ApplyRequest
<1>3. seq \in Nat
  BY DEF IInv, TypeOK
<1>4. newBody \subseteq Item /\ IsFiniteSet(newBody)
  <2>1. body \subseteq Item /\ IsFiniteSet(body \ Removed(items))
    BY FS_Difference DEF IInv, TypeOK, Finite
  <2> QED
    BY <1>2, <1>3, <2>1, InsertedType, FS_Union
<1>5. /\ new \in Change
      /\ IsFiniteSet(new.inverse.restores)
  <2> DEFINE inverse == Capture(items, seq, newBody)
  <2>1. /\ inverse \in StoredInverse
        /\ IsFiniteSet(inverse.restores)
    <3> HIDE DEF newBody, seq
    <3> QED
      BY <1>2, <1>3, <1>4, CaptureType
  <2> HIDE DEF inverse
  <2>2. new = [links |-> items, undone |-> FALSE, inverse |-> inverse]
    BY DEF inverse
  <2> HIDE DEF new
  <2>3. new \in Change
    BY <1>2, <2>1, <2>2 DEF Change
  <2>4. new.inverse = inverse
    BY <2>2
  <2> QED
    BY <2>1, <2>3, <2>4
<1>6. /\ changes' = Append(changes, new)
      /\ Record(h, changed, rotates, newBody, n)
      /\ \A p \in DOMAIN items : proposals[p].status = "pending"
      /\ Accept(items)
  BY <1>a, <1>b DEF CommitApply, CanApply
<1>7. changes \in Seq(Change) /\ n \in Nat \ {0}
  BY <1>b DEF IInv, TypeOK
<1>8. /\ changes' \in Seq(Change)
      /\ DOMAIN changes' = DOMAIN changes \cup {n}
      /\ n \notin DOMAIN changes
      /\ \A m \in DOMAIN changes : changes'[m] = changes[m]
      /\ changes'[n] = new
  <2> HIDE DEF new
  <2> QED
    BY <1>b, <1>5, <1>6, <1>7
<1>9. PICK g \in Nat, s \in Nat : Recorded(h, changed, newBody, n, g, s)
  <2>1. changed \in BOOLEAN /\ newBody \in SUBSET Item
    BY <1>4
  <2> HIDE DEF changed, newBody
  <2> QED
    BY <1>1, <1>6, <1>7, <2>1, RecordType
<1> HIDE DEF changed, newBody, new
<1> USE DEF Recorded
<1>10. proposals' \in [Proposals ->
         [status : {"none", "pending", "accepted", "rejected"},
          mode : Modes \cup {"none"}, generation : Nat]]
  <2>1. proposals' = [p \in Proposals |->
                       IF p \in DOMAIN items
                       THEN [proposals[p] EXCEPT !.status = "accepted",
                                                 !.mode = items[p]]
                       ELSE proposals[p]]
    BY <1>6 DEF Accept
  <2>2. \A p \in DOMAIN items : items[p] \in Modes
    BY <1>2, BatchType
  <2>3. proposals \in [Proposals ->
           [status : {"none", "pending", "accepted", "rejected"},
            mode : Modes \cup {"none"}, generation : Nat]]
    BY DEF IInv, TypeOK
  <2>4. ASSUME NEW p \in Proposals
        PROVE  proposals'[p] \in
           [status : {"none", "pending", "accepted", "rejected"},
            mode : Modes \cup {"none"}, generation : Nat]
    <3>1. CASE p \in DOMAIN items
      BY <2>1, <2>2, <2>3, <3>1
    <3>2. CASE p \notin DOMAIN items
      BY <2>1, <2>3, <3>2
    <3> QED BY <3>1, <3>2
  <2> QED
    BY <2>1, <2>4
<1>11. TypeOK'
  BY <1>4, <1>8, <1>9, <1>10 DEF TypeOK
<1>12. Finite'
  BY <1>4, <1>5, <1>8, <1>9 DEF Finite, IInv
<1>14. Ledger'
  <2>1. ASSUME NEW a \in actions'
        PROVE  /\ a.change \in DOMAIN changes'
               /\ a.request.kind = "undo" => changes'[a.change].undone
               /\ \E r \in receipts' : r.request = a.request
    <3>1. CASE a \in actions
      BY <1>8, <1>9, <3>1 DEF IInv, Ledger
    <3>2. CASE a \notin actions
      <4>1. a = [request |-> handlers[h].request, generation |-> g, headSeq |-> s,
                 change |-> n]
        BY <1>9, <3>2
      <4>2. [request |-> handlers[h].request, generation |-> g, headSeq |-> s,
             updates |-> changed] \in receipts'
        BY <1>9
      <4> QED
        BY <1>1, <1>8, <4>1, <4>2
    <3> QED
      BY <3>1, <3>2
  <2> QED
    BY <2>1 DEF Ledger
<1>15. AcceptedByOneChange'
  <2> SUFFICES ASSUME NEW p \in Proposals
               PROVE  (IF proposals[p].status = "accepted"
                       THEN \E m \in DOMAIN changes :
                              /\ Standing(p) = {m}
                              /\ changes[m].links[p] = proposals[p].mode
                       ELSE Standing(p) = {})'
    BY DEF AcceptedByOneChange
  <2>1. CASE p \in DOMAIN items
    <3>1. proposals[p].status = "pending" /\ Standing(p) = {}
      BY <1>6, <2>1 DEF IInv, AcceptedByOneChange
    <3>2. proposals'[p].status = "accepted" /\ proposals'[p].mode = items[p]
      BY <1>6, <2>1 DEF Accept, IInv, TypeOK
    <3>3. Standing(p)' = {n}
      BY <1>8, <2>1, <3>1 DEF Standing, new
    <3> QED
      BY <1>8, <3>2, <3>3 DEF new
  <2>2. CASE p \notin DOMAIN items
    <3>1. proposals'[p] = proposals[p]
      BY <1>6, <2>2 DEF Accept
    <3>2. Standing(p)' = Standing(p)
      BY <1>8, <2>2 DEF Standing, new
    <3> QED
      BY <1>8, <3>1, <3>2 DEF IInv, AcceptedByOneChange, Standing
  <2> QED
    BY <2>1, <2>2
<1>16. OneResult'
  <2>1. \A a \in actions : a.request.kind = handlers[h].request.kind => a.change # n
    BY <1>8 DEF IInv, Ledger
  <2>2. changed \in BOOLEAN
    BY DEF changed
  <2> QED
    BY <1>1, <1>7, <1>9, <2>1, <2>2, RecordResult
<1>17. ProjectionHonest'
  BY <1>9 DEF ProjectionHonest
<1> QED
  BY <1>9, <1>11, <1>12, <1>14, <1>15, <1>16, <1>17 DEF IInv

\* What an undo starts from: its change stands, and so do all its links.
LEMMA UndoFacts ==
    ASSUME IInv, NEW h \in Handlers, NEW rotates \in BOOLEAN, CommitUndo(h, rotates),
           NEW n, n = handlers[h].request.change,
           NEW newBody, newBody = Undone(changes[n].inverse, collaboration.headSeq + 1)
    PROVE  /\ n \in DOMAIN changes /\ n \in Nat \ {0}
           /\ ~changes[n].undone
           /\ changes[n] \in Change
           /\ changes' = [changes EXCEPT ![n].undone = TRUE]
           /\ newBody \subseteq Item /\ IsFiniteSet(newBody)
           /\ \E changed \in BOOLEAN : Record(h, changed, rotates, newBody, n)
<1> DEFINE seq == collaboration.headSeq + 1
           inverse == changes[n].inverse
           new == {[slot |-> t.slot, text |-> t.text, seq |-> seq] : t \in inverse.restores}
<1>1. n \in DOMAIN changes /\ n \in Nat \ {0} /\ ~changes[n].undone
      /\ changes[n] \in Change
  <2>1. n \in DOMAIN changes /\ ~changes[n].undone
    BY DEF CommitUndo, CanUndo
  <2>2. changes \in Seq(Change)
    BY DEF IInv, TypeOK
  <2> QED
    BY <2>1, <2>2
<1>2. inverse.restores \in SUBSET [slot : Slots, text : Texts]
      /\ IsFiniteSet(inverse.restores) /\ seq \in Nat
  BY <1>1 DEF Change, StoredInverse, IInv, TypeOK, Finite
<1>3. new \subseteq Item /\ IsFiniteSet(new)
  <2> HIDE DEF seq
  <2> QED
    BY <1>2, RestoredType
<1>4. body \ inverse.removes \subseteq Item /\ IsFiniteSet(body \ inverse.removes)
  BY FS_Difference DEF IInv, TypeOK, Finite
<1>5. newBody = (body \ inverse.removes) \cup new
  BY DEF Undone
<1>6. newBody \subseteq Item /\ IsFiniteSet(newBody)
  <2> HIDE DEF new, inverse, seq
  <2> QED
    BY <1>3, <1>4, <1>5, FS_Union
<1> DEFINE changed == inverse.removes \cap body # {} \/ inverse.restores # {}
<1>7. changed \in BOOLEAN /\ Record(h, changed, rotates, newBody, n)
  BY DEF CommitUndo, Record
<1>8. changes' = [changes EXCEPT ![n].undone = TRUE]
  BY DEF CommitUndo
<1> QED
  BY <1>1, <1>6, <1>7, <1>8

LEMMA UndoStep ==
    ASSUME IInv, NEW h \in Handlers, NEW rotates \in BOOLEAN, CommitUndo(h, rotates)
    PROVE  IInv'
<1>a. PICK n : n = handlers[h].request.change
  OBVIOUS
<1>b. PICK newBody : newBody = Undone(changes[n].inverse, collaboration.headSeq + 1)
  OBVIOUS
<1>c. PICK links : links = changes[n].links
  OBVIOUS
<1>1. Committing(h) /\ FirstTime(h) /\ handlers[h].request.kind = "undo"
  BY DEF CommitUndo, FirstTime
<1>2. /\ n \in DOMAIN changes /\ n \in Nat \ {0}
      /\ ~changes[n].undone
      /\ changes[n] \in Change
      /\ changes' = [changes EXCEPT ![n].undone = TRUE]
      /\ newBody \subseteq Item
      /\ IsFiniteSet(newBody)
  BY <1>a, <1>b, UndoFacts
<1>3. PICK changed \in BOOLEAN : Record(h, changed, rotates, newBody, n)
  BY <1>a, <1>b, UndoFacts
<1>4. PICK g \in Nat, s \in Nat : Recorded(h, changed, newBody, n, g, s)
  BY <1>1, <1>2, <1>3, RecordType
<1>5. /\ changes' \in Seq(Change)
      /\ DOMAIN changes' = DOMAIN changes
      /\ \A m \in DOMAIN changes : m # n => changes'[m] = changes[m]
      /\ changes'[n].undone
      /\ changes'[n].links = links
      /\ changes'[n].inverse = changes[n].inverse
  <2>1. changes \in Seq(Change)
    BY DEF IInv, TypeOK
  <2>2. [changes[n] EXCEPT !.undone = TRUE] \in Change
    BY <1>2 DEF Change
  <2>3. changes' = [changes EXCEPT ![n] = [changes[n] EXCEPT !.undone = TRUE]]
    BY <1>2
  <2> QED
    BY <1>2, <1>c, <2>1, <2>2, <2>3 DEF Change
<1>6. /\ \A p \in DOMAIN links : proposals[p].status = "accepted"
      /\ proposals' = [p \in Proposals |->
                         IF p \in DOMAIN links
                         THEN [proposals[p] EXCEPT !.status = "pending", !.mode = "none"]
                         ELSE proposals[p]]
  BY <1>a, <1>c DEF CommitUndo, Reset
<1> USE DEF Recorded
<1>7. TypeOK'
  <2>1. proposals' \in [Proposals ->
           [status : {"none", "pending", "accepted", "rejected"},
            mode : Modes \cup {"none"}, generation : Nat]]
    <3>1. proposals \in [Proposals ->
             [status : {"none", "pending", "accepted", "rejected"},
              mode : Modes \cup {"none"}, generation : Nat]]
      BY DEF IInv, TypeOK
    <3>2. ASSUME NEW p \in Proposals
          PROVE  proposals'[p] \in
             [status : {"none", "pending", "accepted", "rejected"},
              mode : Modes \cup {"none"}, generation : Nat]
      <4>1. CASE p \in DOMAIN links
        BY <1>6, <3>1, <4>1
      <4>2. CASE p \notin DOMAIN links
        BY <1>6, <3>1, <4>2
      <4> QED BY <4>1, <4>2
    <3> QED BY <1>6, <3>2
  <2> QED
    BY <1>2, <1>4, <1>5, <2>1 DEF TypeOK
<1>8. Finite'
  BY <1>2, <1>4, <1>5 DEF Finite, IInv
<1>10. Ledger'
  <2>1. ASSUME NEW a \in actions'
        PROVE  /\ a.change \in DOMAIN changes'
               /\ a.request.kind = "undo" => changes'[a.change].undone
               /\ \E r \in receipts' : r.request = a.request
    <3>1. CASE a \in actions
      BY <1>4, <1>5, <3>1 DEF IInv, Ledger
    <3>2. CASE a \notin actions
      <4>1. a = [request |-> handlers[h].request, generation |-> g, headSeq |-> s,
                 change |-> n]
        BY <1>4, <3>2
      <4>2. [request |-> handlers[h].request, generation |-> g, headSeq |-> s,
             updates |-> changed] \in receipts'
        BY <1>4
      <4> QED
        BY <1>2, <1>5, <4>1, <4>2
    <3> QED
      BY <3>1, <3>2
  <2> QED
    BY <2>1 DEF Ledger
<1>11. AcceptedByOneChange'
  <2> SUFFICES ASSUME NEW p \in Proposals
               PROVE  (IF proposals[p].status = "accepted"
                       THEN \E m \in DOMAIN changes :
                              /\ Standing(p) = {m}
                              /\ changes[m].links[p] = proposals[p].mode
                       ELSE Standing(p) = {})'
    BY DEF AcceptedByOneChange
  <2>1. CASE p \in DOMAIN links
    <3>1. Standing(p) = {n}
      <4>1. n \in Standing(p)
        BY <1>2, <1>c, <2>1 DEF Standing
      <4> QED
        BY <1>6, <2>1, <4>1 DEF IInv, AcceptedByOneChange
    <3>2. proposals'[p].status = "pending"
      BY <1>6, <2>1 DEF IInv, TypeOK
    <3>3. Standing(p)' = {}
      BY <1>5, <3>1 DEF Standing
    <3> QED
      BY <3>2, <3>3
  <2>2. CASE p \notin DOMAIN links
    <3>1. proposals'[p] = proposals[p]
      BY <1>6, <2>2
    <3>2. Standing(p)' = Standing(p)
      BY <1>5, <1>c, <2>2 DEF Standing
    <3>3. \A m \in DOMAIN changes : changes'[m].links = changes[m].links
      BY <1>5, <1>c
    <3> QED
      BY <1>5, <3>1, <3>2, <3>3 DEF IInv, AcceptedByOneChange
  <2> QED
    BY <2>1, <2>2
<1>12. OneResult'
  <2>1. \A a \in actions : a.request.kind = handlers[h].request.kind => a.change # n
    BY <1>1, <1>2 DEF IInv, Ledger
  <2>2. FirstTime(h) /\ n \in Nat \ {0} /\ changed \in BOOLEAN
    BY <1>1, <1>2
  <2> QED
    BY <1>4, <2>1, <2>2, RecordResult
<1>13. ProjectionHonest'
  BY <1>4 DEF ProjectionHonest
<1> QED
  BY <1>4, <1>7, <1>8, <1>10, <1>11, <1>12, <1>13 DEF IInv

-----------------------------------------------------------------------------
(* Everything that is not a commit.                                        *)

LedgerUntouched ==
    UNCHANGED <<receipts, actions, changes, deliveries, handlers, answers>>

ProposalRow ==
    [status : {"none", "pending", "accepted", "rejected"}, mode : Modes \cup {"none"},
     generation : Nat]

\* Rows of proposals that neither become nor cease to be accepted.
LEMMA ProposalsStep ==
    ASSUME IInv, LedgerUntouched, UNCHANGED <<collaboration, body, document>>,
           proposals' \in [Proposals ->
             [status : {"none", "pending", "accepted", "rejected"},
              mode : Modes \cup {"none"}, generation : Nat]],
           \A p \in Proposals : proposals'[p] = proposals[p] \/
             (proposals[p].status # "accepted" /\ proposals'[p].status # "accepted")
    PROVE  IInv'
<1> USE DEF LedgerUntouched
<1>1. TypeOK'
  BY DEF IInv, TypeOK
<1>2. Finite' /\ Ledger' /\ Behind'
  BY DEF IInv, Finite, Ledger, Behind
<1>3. OneResult' /\ ProjectionHonest'
  BY DEF IInv, OneResult, ProjectionHonest
<1>4. AcceptedByOneChange'
  BY DEF IInv, AcceptedByOneChange, Standing
<1> QED
  BY <1>1, <1>2, <1>3, <1>4 DEF IInv

LEMMA ProposeStep ==
    ASSUME IInv, NEW p \in Proposals, Propose(p)
    PROVE  IInv'
<1>1. collaboration.generation \in Nat
  BY DEF IInv, TypeOK
<1>2. /\ proposals' \in [Proposals ->
           [status : {"none", "pending", "accepted", "rejected"},
            mode : Modes \cup {"none"}, generation : Nat]]
      /\ \A q \in Proposals : proposals'[q] = proposals[q] \/
           (proposals[q].status # "accepted" /\ proposals'[q].status # "accepted")
  <2>1. /\ proposals \in [Proposals -> ProposalRow]
        /\ proposals[p].status = "none"
        /\ proposals' = [proposals EXCEPT ![p] =
              [proposals[p] EXCEPT !.status = "pending", !.generation = collaboration.generation]]
    BY DEF Propose, IInv, TypeOK, ProposalRow
  <2>2. [proposals[p] EXCEPT !.status = "pending", !.generation = collaboration.generation]
          \in ProposalRow
    BY <1>1, <2>1 DEF ProposalRow
  <2>3. \A q \in Proposals : q # p => proposals'[q] = proposals[q]
    BY <2>1
  <2>4. proposals'[p].status = "pending"
    BY <2>1, <2>2 DEF ProposalRow
  <2>5. proposals' \in [Proposals -> ProposalRow]
    BY <2>1, <2>2
  <2> QED BY <2>1, <2>3, <2>4, <2>5 DEF ProposalRow
<1> QED
  BY <1>2, ProposalsStep DEF Propose, LedgerUntouched

LEMMA StatusStep ==
    ASSUME IInv, NEW p \in Proposals, NEW status \in {"pending", "rejected"},
           UpdateProposalStatus(p, status)
    PROVE  IInv'
<1>1. /\ proposals' \in [Proposals ->
           [status : {"none", "pending", "accepted", "rejected"},
            mode : Modes \cup {"none"}, generation : Nat]]
      /\ \A q \in Proposals : proposals'[q] = proposals[q] \/
           (proposals[q].status # "accepted" /\ proposals'[q].status # "accepted")
  <2>1. /\ proposals \in [Proposals -> ProposalRow]
        /\ proposals[p].status \in {"pending", "rejected"}
        /\ proposals' = [proposals EXCEPT ![p] = [proposals[p] EXCEPT !.status = status]]
    BY DEF UpdateProposalStatus, IInv, TypeOK, ProposalRow
  <2>2. [proposals[p] EXCEPT !.status = status] \in ProposalRow
    BY <2>1 DEF ProposalRow
  <2>3. \A q \in Proposals : q # p => proposals'[q] = proposals[q]
    BY <2>1
  <2>4. proposals'[p].status = status
    BY <2>1, <2>2 DEF ProposalRow
  <2>5. proposals' \in [Proposals -> ProposalRow]
    BY <2>1, <2>2
  <2> QED BY <2>1, <2>3, <2>4, <2>5 DEF ProposalRow
<1> QED
  BY <1>1, ProposalsStep DEF UpdateProposalStatus, LedgerUntouched

\* Edits, checkpoints and approvals.
LEMMA DocumentStep ==
    ASSUME IInv, LedgerUntouched, UNCHANGED proposals,
           collaboration' \in [generation : Nat, headSeq : Nat, projectedSeq : Nat],
           body' \subseteq Item, IsFiniteSet(body'),
           document' \in [approved : BOOLEAN, revision : Nat, content : SUBSET Item],
           Behind', ProjectionHonest'
    PROVE  IInv'
<1> USE DEF LedgerUntouched
<1>1. TypeOK'
  BY DEF IInv, TypeOK
<1>2. Finite' /\ Ledger'
  BY DEF IInv, Finite, Ledger
<1>3. OneResult' /\ AcceptedByOneChange'
  BY DEF IInv, OneResult, AcceptedByOneChange, Standing
<1> QED
  BY <1>1, <1>2, <1>3 DEF IInv

LEMMA PeerStep ==
    ASSUME IInv, NEW slot \in Slots, NEW kept, NEW text \in Texts \cup {NoText},
           NEW rotates \in BOOLEAN, PeerEdit(slot, kept, text, rotates)
    PROVE  IInv'
<1>1. collaboration \in [generation : Nat, headSeq : Nat, projectedSeq : Nat]
      /\ document \in [approved : BOOLEAN, revision : Nat, content : SUBSET Item]
      /\ body \subseteq Item /\ IsFiniteSet(body) /\ Behind
  BY DEF IInv, TypeOK, Finite
<1> DEFINE left == {i \in body : i.slot # slot \/ i \in kept}
           typed == IF text = NoText THEN {}
                    ELSE {[slot |-> slot, text |-> text,
                           seq |-> collaboration.headSeq + 1]}
           projected == IF rotates THEN collaboration.headSeq
                        ELSE collaboration.projectedSeq
<1>2. body' = left \cup typed
  BY DEF PeerEdit
<1>3. typed \subseteq Item /\ IsFiniteSet(typed)
  <2> DEFINE item == [slot |-> slot, text |-> text, seq |-> collaboration.headSeq + 1]
  <2>1. CASE text = NoText
    BY <2>1, FS_EmptySet
  <2>2. CASE text # NoText
    <3>1. item \in Item
      BY <1>1, <2>2 DEF Item
    <3>2. typed = {item}
      BY <2>2
    <3> HIDE DEF item, typed
    <3> QED
      BY <3>1, <3>2, FS_Singleton
  <2> QED
    BY <2>1, <2>2
<1>4. left \subseteq Item /\ IsFiniteSet(left)
  BY <1>1, FS_Subset
<1>5. body' \subseteq Item /\ IsFiniteSet(body')
  <2> HIDE DEF left, typed
  <2> QED
    BY <1>2, <1>3, <1>4, FS_Union
<1>6. AppendUpdate(rotates, projected)
  BY DEF PeerEdit
<1>7. /\ collaboration' \in [generation : Nat, headSeq : Nat, projectedSeq : Nat]
      /\ collaboration'.projectedSeq < collaboration'.headSeq
  BY <1>1, <1>6 DEF AppendUpdate, Behind
<1>8. document' \in [approved : BOOLEAN, revision : Nat, content : SUBSET Item]
  <2> DEFINE content == IF rotates THEN body ELSE document.content
             revision == Advance(document.revision, RevisionAdvanced(rotates))
  <2>1. document' = [document EXCEPT !.content = content, !.revision = revision,
                                     !.approved = FALSE]
    BY DEF PeerEdit
  <2>2. content \in SUBSET Item
    BY <1>1
  <2>3. revision \in Nat
    BY <1>1 DEF Advance
  <2> HIDE DEF content, revision
  <2> QED
    BY <1>1, <2>1, <2>2, <2>3
<1> QED
  BY <1>5, <1>7, <1>8, DocumentStep
     DEF PeerEdit, LedgerUntouched, Behind, ProjectionHonest

LEMMA CheckpointStep ==
    ASSUME IInv, Checkpoint
    PROVE  IInv'
<1>1. collaboration \in [generation : Nat, headSeq : Nat, projectedSeq : Nat]
      /\ document \in [approved : BOOLEAN, revision : Nat, content : SUBSET Item]
      /\ body \subseteq Item /\ IsFiniteSet(body)
  BY DEF IInv, TypeOK, Finite
<1>2. /\ collaboration' \in [generation : Nat, headSeq : Nat, projectedSeq : Nat]
      /\ Behind'
  BY <1>1 DEF Checkpoint, Behind
<1>3. document' \in [approved : BOOLEAN, revision : Nat, content : SUBSET Item]
      /\ document'.content = body'
  <2>1. document' = [document EXCEPT !.content = body, !.revision = document.revision + 1]
        /\ body' = body
    BY DEF Checkpoint
  <2> DEFINE revision == document.revision + 1
  <2>2. revision \in Nat
    BY <1>1
  <2>3. document' = [approved |-> document.approved, revision |-> revision, content |-> body]
    BY <1>1, <2>1
  <2> HIDE DEF revision
  <2> QED
    BY <1>1, <2>1, <2>2, <2>3
<1> QED
  BY <1>1, <1>2, <1>3, DocumentStep DEF Checkpoint, LedgerUntouched, ProjectionHonest

LEMMA ApproveStep ==
    ASSUME IInv, Approve
    PROVE  IInv'
<1>1. document \in [approved : BOOLEAN, revision : Nat, content : SUBSET Item]
      /\ body \subseteq Item /\ IsFiniteSet(body)
  BY DEF IInv, TypeOK, Finite
<1>2. document' \in [approved : BOOLEAN, revision : Nat, content : SUBSET Item]
      /\ document'.content = document.content
  <2> DEFINE revision == document.revision + 1
  <2>1. revision \in Nat
    BY <1>1
  <2>2. document' = [approved |-> TRUE, revision |-> revision, content |-> document.content]
    BY <1>1 DEF Approve
  <2> HIDE DEF revision
  <2> QED
    BY <1>1, <2>1, <2>2
<1>3. /\ collaboration' \in [generation : Nat, headSeq : Nat, projectedSeq : Nat]
      /\ Behind' /\ ProjectionHonest'
  BY <1>2 DEF Approve, IInv, TypeOK, Behind, ProjectionHonest
<1> QED
  BY <1>1, <1>2, <1>3, DocumentStep DEF Approve, LedgerUntouched

LEMMA StutterStep ==
    ASSUME IInv, UNCHANGED vars
    PROVE  IInv'
<1>1. handlers' \in [Handlers -> Handler \cup {Idle}]
  BY DEF vars, IInv, TypeOK
<1> QED
  BY <1>1, HandlerStep DEF vars

-----------------------------------------------------------------------------
(* The theorems.                                                           *)

LEMMA InitInv == Init => IInv
<1> SUFFICES ASSUME Init PROVE IInv
  OBVIOUS
<1> USE DEF Init
<1>1. FirstBody \subseteq Item /\ IsFiniteSet(FirstBody)
  <2> DEFINE f == [r \in Regions |-> [slot |-> <<r, "text">>, text |-> Original[r],
                                      seq |-> 0]]
  <2>1. f \in Surjection(Regions, FirstBody)
    BY DEF Surjection, FirstBody
  <2>2. IsFiniteSet(FirstBody)
    BY <2>1, ProposalsAssumption, FS_Surjection
  <2> QED
    BY <2>2, ProposalsAssumption DEF FirstBody, Item, Slots
<1>2. TypeOK
  BY <1>1 DEF TypeOK
<1>3. Finite /\ Ledger /\ Behind
  BY <1>1 DEF Finite, Ledger, Behind
<1>4. AcceptedByOneChange /\ OneResult /\ ProjectionHonest
  BY DEF AcceptedByOneChange, OneResult, ProjectionHonest, Standing
<1> QED
  BY <1>2, <1>3, <1>4 DEF IInv

\* What browsers send are requests.
LEMMA SentType ==
    ASSUME IInv
    PROVE  /\ Sent \subseteq Request
           /\ \A c \in Commands, p \in Principals, n \in DOMAIN changes :
                [kind |-> "undo", command |-> c, principal |-> p, change |-> n] \in Request
BY BoundAssumption DEF IInv, TypeOK, Request, UndoRequest

LEMMA NextInv == IInv /\ [Next]_vars => IInv'
<1> SUFFICES ASSUME IInv, [Next]_vars PROVE IInv'
  OBVIOUS
<1>1. ASSUME NEW h \in Handlers, ServiceNext(h) PROVE IInv'
  <2>1. CASE \E r \in Sent : Resolve(h, r)
    BY <2>1, SentType, ResolveStep
  <2>2. ASSUME NEW c \in Commands, NEW p \in Principals, NEW n \in DOMAIN changes,
               Resolve(h, [kind |-> "undo", command |-> c, principal |-> p, change |-> n])
        PROVE  IInv'
    <3> DEFINE r == [kind |-> "undo", command |-> c, principal |-> p, change |-> n]
    <3>1. r \in Request
      BY SentType
    <3>2. Resolve(h, r)
      BY <2>2
    <3> HIDE DEF r
    <3> QED
      BY <3>1, <3>2, ResolveStep
  <2>3. ASSUME NEW rotates \in BOOLEAN, CommitApply(h, rotates) \/ CommitUndo(h, rotates)
        PROVE  IInv'
    BY <2>3, ApplyStep, UndoStep
  <2> QED
    BY <1>1, <2>1, <2>2, <2>3, ClassifyStep, ReplayStep, FailStep, ReclassifyStep,
       AbandonStep DEF ServiceNext
<1>2. ASSUME NEW typed \in Typed, NEW rotates \in BOOLEAN,
             NEW kept \in SUBSET {i \in body : i.slot = typed[1]},
             PeerEdit(typed[1], kept, typed[2], rotates)
      PROVE  IInv'
  <2>1. typed[1] \in Slots /\ typed[2] \in Texts \cup {NoText}
    BY BoundAssumption
  <2>2. PICK slot, text : slot = typed[1] /\ text = typed[2]
    OBVIOUS
  <2>3. PICK k : k = kept
    OBVIOUS
  <2>4. PeerEdit(slot, k, text, rotates)
    BY <1>2, <2>2, <2>3
  <2> QED
    BY <2>1, <2>2, <2>4, PeerStep
<1> QED
  BY <1>1, <1>2, ProposeStep, StatusStep, CheckpointStep, ApproveStep, StutterStep
     DEF Next

LEMMA Invariance == Spec => []IInv
BY InitInv, NextInv, PTL DEF Spec

\* Every row, request and answer is of its type.
THEOREM TypeCorrect == Spec => []TypeOK
<1>1. IInv => TypeOK
  BY DEF IInv
<1> QED
  BY <1>1, Invariance, PTL

\* A proposal is accepted exactly while one change that stands links it, however
\* applies, undos, rejections and resets interleave.
THEOREM AcceptedOnce == Spec => []AcceptedByOneChange
<1>1. IInv => AcceptedByOneChange
  BY DEF IInv
<1> QED
  BY <1>1, Invariance, PTL

\* A command id has one action, one receipt and one answer, through retries,
\* twins, crashes and lost outcomes.
THEOREM CommandsAnswerOnce == Spec => []OneResult
<1>1. IInv => OneResult
  BY DEF IInv
<1> QED
  BY <1>1, Invariance, PTL

\* Steps that are no commit.
LEMMA OtherSteps ==
    ASSUME [Next]_vars,
           \A h \in Handlers, rotates \in BOOLEAN :
               ~CommitApply(h, rotates) /\ ~CommitUndo(h, rotates)
    PROVE  UNCHANGED <<actions, changes>>
<1>1. ASSUME NEW h \in Handlers, ServiceNext(h) PROVE UNCHANGED <<actions, changes>>
  BY <1>1 DEF ServiceNext, Resolve, Classify, CommitReplay, CommitFails, Reclassify,
     Abandon, storeVars
<1>2. ASSUME ~\E h \in Handlers : ServiceNext(h) PROVE UNCHANGED <<actions, changes>>
  BY <1>2 DEF Next, Propose, UpdateProposalStatus, PeerEdit, Checkpoint, Approve,
     vars, storeVars
<1> QED
  BY <1>1, <1>2

\* A commit that appends an action counts one revision and publishes the head,
\* and the documents row shows the head whenever projectedSeq says so.
THEOREM CommandsPublish == Spec => CommandPublishes
<1> DEFINE Publishes == actions' # actions =>
                          /\ document'.revision = document.revision + 1
                          /\ document'.content = body'
<1>1. ASSUME IInv, NEW h \in Handlers, NEW rotates \in BOOLEAN, CommitApply(h, rotates)
      PROVE  Publishes
  <2>a. PICK items : items = handlers[h].request.items
    OBVIOUS
  <2> DEFINE newBody == (body \ Removed(items)) \cup
                          Inserted(items, collaboration.headSeq + 1)
             changed == Effective(items) # {}
             n == Len(changes) + 1
  <2>1. Record(h, changed, rotates, newBody, n)
    BY <1>1, <2>a DEF CommitApply
  <2>2. changed \in BOOLEAN
    OBVIOUS
  <2> HIDE DEF changed, newBody, n
  <2>3. /\ document'.content = newBody /\ body' = newBody
        /\ document'.revision = CommandRevision(rotates, changed)
    <3> DEFINE approved == document.approved /\ ~changed
               revision == CommandRevision(rotates, changed)
    <3>1. document' = [document EXCEPT !.content = newBody, !.revision = revision,
                                       !.approved = approved]
          /\ body' = newBody
      BY <2>1, Zenon DEF Record
    <3> HIDE DEF approved, revision
    <3>2. document \in [approved : BOOLEAN, revision : Nat, content : SUBSET Item]
      BY <1>1 DEF IInv, TypeOK
    <3> QED
      BY <3>1, <3>2 DEF revision
  <2> QED
    BY <1>1, <2>2, <2>3, RevisionType DEF IInv
<1>2. ASSUME IInv, NEW h \in Handlers, NEW rotates \in BOOLEAN, CommitUndo(h, rotates)
      PROVE  Publishes
  <2>a. PICK n : n = handlers[h].request.change
    OBVIOUS
  <2>b. PICK newBody : newBody = Undone(changes[n].inverse, collaboration.headSeq + 1)
    OBVIOUS
  <2>1. n \in Nat \ {0} /\ newBody \subseteq Item
    BY <1>2, <2>a, <2>b, UndoFacts
  <2>2. PICK changed \in BOOLEAN : Record(h, changed, rotates, newBody, n)
    BY <1>2, <2>a, <2>b, UndoFacts
  <2>3. Committing(h)
    BY <1>2 DEF CommitUndo, FirstTime
  <2>4. PICK g \in Nat, s \in Nat : Recorded(h, changed, newBody, n, g, s)
    BY <1>2, <2>1, <2>2, <2>3, RecordType
  <2> QED
    BY <2>4 DEF Recorded
<1>3. IInv /\ [Next]_vars => Publishes
  <2> SUFFICES ASSUME IInv, [Next]_vars PROVE Publishes
    OBVIOUS
  <2>1. CASE \E h \in Handlers, rotates \in BOOLEAN :
               CommitApply(h, rotates) \/ CommitUndo(h, rotates)
    BY <1>1, <1>2, <2>1
  <2>2. CASE \A h \in Handlers, rotates \in BOOLEAN :
               ~CommitApply(h, rotates) /\ ~CommitUndo(h, rotates)
    BY <2>2, OtherSteps
  <2> QED
    BY <2>1, <2>2
<1>4. IInv /\ IInv' /\ [Next]_vars => [ProjectionHonest' /\ Publishes]_vars
  BY <1>3 DEF IInv
<1> QED
  BY <1>4, Invariance, PTL DEF Spec, CommandPublishes

=============================================================================
