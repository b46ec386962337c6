----------------------- MODULE DocumentWorkflow_proofs -----------------------
(***************************************************************************)
(* Proofs about the durable store, and about the review workflow and       *)
(* archival that it carries, for every value of the constants.  The first  *)
(* part is about CollaborationPersistence alone.  In the second, the       *)
(* store's invariant IInv is part of the one used there, and a step of the *)
(* store is seen only by its effects on approvals, readiness, history and  *)
(* generations.                                                            *)
(***************************************************************************)
EXTENDS DocumentWorkflow, FiniteSetTheorems, TLAPS

-----------------------------------------------------------------------------
(*                                                                         *)
(* The durable store.                                                      *)
(*                                                                         *)
-----------------------------------------------------------------------------
(* Sequences.                                                              *)

\* Replacing one element of a sequence.
LEMMA ReplaceAt ==
    ASSUME NEW S, NEW s \in Seq(S), NEW i \in 1 .. Len(s), NEW e \in S
    PROVE  LET t == [s EXCEPT ![i] = e] IN
           /\ t \in Seq(S)
           /\ Len(t) = Len(s)
           /\ DOMAIN t = 1 .. Len(s)
           /\ \A j \in 1 .. Len(s) : t[j] = IF j = i THEN e ELSE s[j]
  <1> DEFINE t == [s EXCEPT ![i] = e]
  <1>1. /\ Len(s) \in Nat
        /\ DOMAIN s = 1 .. Len(s)
        /\ \A j \in 1 .. Len(s) : s[j] \in S
    OBVIOUS
  <1>2. t = [j \in 1 .. Len(s) |-> IF j = i THEN e ELSE s[j]]
    BY <1>1
  <1>3. t \in [1 .. Len(s) -> S]
    BY <1>1, <1>2
  <1> HIDE DEF t
  <1>4. t \in Seq(S) /\ Len(t) = Len(s)
    BY <1>1, <1>3
  <1>5. \A j \in 1 .. Len(s) : t[j] = IF j = i THEN e ELSE s[j]
    BY <1>1, <1>2
  <1> QED BY <1>1, <1>2, <1>4, <1>5 DEF t

\* Adding one element at the end of a sequence.
LEMMA AppendAt ==
    ASSUME NEW S, NEW s \in Seq(S), NEW e \in S
    PROVE  /\ Append(s, e) \in Seq(S)
           /\ Append(s, e) # <<>>
           /\ Len(Append(s, e)) = Len(s) + 1
           /\ DOMAIN Append(s, e) = 1 .. Len(s) + 1
           /\ Append(s, e)[Len(s) + 1] = e
           /\ \A j \in 1 .. Len(s) : Append(s, e)[j] = s[j]
  OBVIOUS

-----------------------------------------------------------------------------
(* The inductive invariant.                                                *)

\* Rows of which exactly the newest is current.
Chained(rows) ==
    /\ rows \in Seq(Generation)
    /\ rows # <<>>
    /\ \A g \in DOMAIN rows : rows[g].isCurrent <=> g = Len(rows)

Fenced(rows) ==
    /\ \A g \in DOMAIN rows : /\ rows[g].checkpointSeq <= rows[g].projectedSeq
                              /\ rows[g].projectedSeq <= rows[g].headSeq
    /\ \A g, h \in DOMAIN rows :
         g < h => /\ rows[g].projectedSeq = rows[g].headSeq
                  /\ rows[g].headSeq <= rows[h].checkpointSeq

\* Every update sits in its generation, above all the earlier generations.
Placed(rows, entries) ==
    \A u \in entries :
        /\ u.generation \in DOMAIN rows
        /\ 1 <= u.seq
        /\ u.seq <= rows[u.generation].headSeq
        /\ \A h \in DOMAIN rows : h < u.generation => rows[h].headSeq < u.seq

Numbered(rows, entries) ==
    /\ \A n \in 1 .. rows[Len(rows)].headSeq : \E u \in entries : u.seq = n
    /\ \A u, v \in entries : u.seq = v.seq => u = v

\* The operations of a base and of the entries up to a sequence number.
Through(base, entries, seq) ==
    base \cup UNION {u.payload : u \in {v \in entries : v.seq <= seq}}

Checkpointed(rows, entries, base) ==
    \A g \in DOMAIN rows :
        rows[g].checkpoint = Through(base, entries, rows[g].checkpointSeq)

Consistent(rows, entries, base) ==
    /\ Chained(rows)
    /\ Fenced(rows)
    /\ Placed(rows, entries)
    /\ Numbered(rows, entries)
    /\ Checkpointed(rows, entries, base)

StoreConsistent ==
    IF Initialized
    THEN Consistent(generations, updates, bootstrap)
    ELSE updates = {} /\ noopReceipts = {} /\ answers = {}

\* Every stored receipt stays covered by its generation, so that a retry is
\* answered and never reported as corruption.
ReceiptsFenced == \A r \in updates \cup noopReceipts : ReceiptFenced(r)

IInv ==
    /\ TypeOK
    /\ StoreConsistent
    /\ ProjectionExact
    /\ KeysSpentOnce
    /\ ReceiptsFenced

-----------------------------------------------------------------------------
(* The rows a transaction works on.                                        *)

\* The row that load picks is the newest one.
LEMMA CurrentIsLast ==
    ASSUME NEW rows, Chained(rows)
    PROVE  /\ Len(rows) \in Nat \ {0}
           /\ DOMAIN rows = 1 .. Len(rows)
           /\ CurrentGeneration(rows) = Len(rows)
           /\ \A g \in 1 .. Len(rows) : rows[g] \in Generation
           /\ CurrentGenerations(rows) = {Len(rows)}
  BY DEF Chained, CurrentGeneration, CurrentGenerations

\* What collaboration starts from, or has started from.
EnsuredBootstrap == IF Initialized THEN bootstrap ELSE document.content

\* Initialization keeps consistent rows, or starts generation 1 from the
\* content of the plain document.
LEMMA EnsuredConsistent ==
    ASSUME TypeOK, StoreConsistent
    PROVE  /\ Consistent(EnsuredGenerations, updates, EnsuredBootstrap)
           /\ EnsuredBootstrap \in SUBSET Ops
  <1>1. CASE Initialized
    BY <1>1 DEF EnsuredGenerations, EnsuredBootstrap, StoreConsistent, TypeOK
  <1>2. CASE ~Initialized
    <2> DEFINE first == [isCurrent |-> TRUE, headSeq |-> 0, checkpointSeq |-> 0,
                         projectedSeq |-> 0, checkpoint |-> document.content]
    <2>1. first \in Generation /\ document.content \in SUBSET Ops
      BY DEF TypeOK, Document, Generation
    <2>2. EnsuredGenerations = <<first>> /\ EnsuredBootstrap = document.content
      BY <1>2 DEF EnsuredGenerations, EnsuredBootstrap
    <2>3. updates = {}
      BY <1>2 DEF StoreConsistent
    <2>4. Chained(<<first>>) /\ Fenced(<<first>>)
      BY <2>1 DEF Chained, Fenced
    <2>5. Placed(<<first>>, {}) /\ Numbered(<<first>>, {})
      BY DEF Placed, Numbered
    <2>6. Checkpointed(<<first>>, {}, document.content)
      BY DEF Checkpointed, Through
    <2> QED BY <2>1, <2>2, <2>3, <2>4, <2>5, <2>6 DEF Consistent
  <1> QED BY <1>1, <1>2

\* A loaded document is a set of operations.
LEMMA LoadedType ==
    ASSUME TypeOK, NEW rows, Chained(rows), NEW n
    PROVE  LoadSnapshot(rows, n) \in SUBSET Ops
  <1>1. rows[CurrentGeneration(rows)].checkpoint \in SUBSET Ops
    BY CurrentIsLast DEF Generation
  <1>2. \A u \in updates : u.payload \in SUBSET Ops
    BY DEF TypeOK, Receipt
  <1> QED BY <1>1, <1>2 DEF LoadSnapshot, DurableTail

\* Loading rebuilds the bootstrapped content and every update up to n.
LEMMA LoadExact ==
    ASSUME TypeOK, NEW rows, NEW base, Consistent(rows, updates, base),
           NEW n \in rows[Len(rows)].checkpointSeq .. rows[Len(rows)].headSeq
    PROVE  /\ LoadSnapshot(rows, n) = Through(base, updates, n)
           /\ {u.seq : u \in DurableTail(rows, Len(rows), n)}
                = (rows[Len(rows)].checkpointSeq + 1) .. n
  <1> DEFINE g == Len(rows)
             tail == DurableTail(rows, g, n)
  <1>1. /\ g \in Nat \ {0}
        /\ DOMAIN rows = 1 .. g
        /\ CurrentGeneration(rows) = g
        /\ \A h \in 1 .. g : rows[h] \in Generation
    BY CurrentIsLast DEF Consistent
  <1>2. n \in Nat /\ rows[g].checkpointSeq \in Nat
    BY <1>1 DEF Generation
  <1>3. tail = {u \in updates : rows[g].checkpointSeq < u.seq /\ u.seq <= n}
    <2>1. ASSUME NEW u \in updates, rows[g].checkpointSeq < u.seq
          PROVE  u.generation = g
      <3>1. u.generation \in 1 .. g /\ u.seq \in Nat
        BY <1>1 DEF Consistent, Placed, TypeOK, Receipt
      <3>2. u.generation < g => rows[u.generation].headSeq <= rows[g].checkpointSeq
        BY <1>1, <3>1 DEF Consistent, Fenced
      <3>3. u.seq <= rows[u.generation].headSeq
        BY DEF Consistent, Placed
      <3>4. rows[u.generation].headSeq \in Nat
        BY <1>1, <3>1 DEF Generation
      <3> QED BY <1>1, <1>2, <2>1, <3>1, <3>2, <3>3, <3>4
    <2>2. \A u \in updates : u.seq \in Nat
      BY DEF TypeOK, Receipt
    <2> QED BY <1>2, <2>1, <2>2 DEF DurableTail
  <1>4. {u.seq : u \in tail} = (rows[g].checkpointSeq + 1) .. n
    <2>1. \A u \in updates : u.seq \in Nat
      BY DEF TypeOK, Receipt
    <2>2. \A m \in 1 .. rows[g].headSeq : \E u \in updates : u.seq = m
      BY DEF Consistent, Numbered
    <2>3. rows[g].headSeq \in Nat
      BY <1>1 DEF Generation
    <2> QED BY <1>2, <1>3, <2>1, <2>2, <2>3
  <1>5. LoadSnapshot(rows, n) = Through(base, updates, n)
    <2>1. LoadSnapshot(rows, n) = rows[g].checkpoint \cup UNION {u.payload : u \in tail}
      BY <1>1 DEF LoadSnapshot
    <2>2. rows[g].checkpoint = Through(base, updates, rows[g].checkpointSeq)
      BY <1>1 DEF Consistent, Checkpointed
    <2>3. \A u \in updates : u.seq \in Nat
      BY DEF TypeOK, Receipt
    <2>4. {u \in updates : u.seq <= n}
            = {u \in updates : u.seq <= rows[g].checkpointSeq} \cup tail
      BY <1>2, <1>3, <2>3
    <2> HIDE DEF tail
    <2> QED BY <2>1, <2>2, <2>4 DEF Through
  <1> QED BY <1>4, <1>5

-----------------------------------------------------------------------------
(* What the writes do to consistent rows.                                  *)

\* Rotation: the newest row retires fully projected, and a row that starts
\* from its whole state becomes current.
LEMMA RotateConsistent ==
    ASSUME TypeOK, NEW rows, NEW base, Consistent(rows, updates, base)
    PROVE  /\ Consistent(Rotate(rows), updates, base)
           /\ Len(Rotate(rows)) = Len(rows) + 1
           /\ \A g \in 1 .. Len(rows) : Rotate(rows)[g].headSeq = rows[g].headSeq
           /\ LET new == Rotate(rows)[Len(rows) + 1] IN
                /\ new.headSeq = rows[Len(rows)].headSeq
                /\ new.projectedSeq = rows[Len(rows)].headSeq
                /\ new.checkpointSeq = rows[Len(rows)].headSeq
                /\ new.checkpoint = LoadSnapshot(rows, rows[Len(rows)].headSeq)
  <1> DEFINE g == Len(rows)
             head == rows[g].headSeq
             last == [rows[g] EXCEPT !.isCurrent = FALSE, !.projectedSeq = head]
             next == [isCurrent |-> TRUE, headSeq |-> head,
                      checkpointSeq |-> head, projectedSeq |-> head,
                      checkpoint |-> LoadSnapshot(rows, head)]
             retired == [rows EXCEPT ![g] = last]
  <1>1. /\ g \in Nat \ {0}
        /\ DOMAIN rows = 1 .. g
        /\ CurrentGeneration(rows) = g
        /\ \A h \in 1 .. g : rows[h] \in Generation
        /\ rows[g] \in Generation
        /\ Chained(rows)
        /\ rows \in Seq(Generation)
    BY CurrentIsLast DEF Consistent, Chained
  <1>2. next \in Generation
    BY <1>1, LoadedType DEF Generation
  <1>3. last \in Generation
    BY <1>1 DEF Generation
  <1>4. /\ next.isCurrent
        /\ next.headSeq = head
        /\ next.checkpointSeq = head
        /\ next.projectedSeq = head
        /\ next.checkpoint = LoadSnapshot(rows, head)
    OBVIOUS
  <1>5. /\ ~last.isCurrent
        /\ last.headSeq = head
        /\ last.checkpointSeq = rows[g].checkpointSeq
        /\ last.projectedSeq = head
        /\ last.checkpoint = rows[g].checkpoint
    BY <1>1 DEF Generation
  <1>6. Rotate(rows) = Append(retired, next)
    BY <1>1 DEF Rotate
  <1> HIDE DEF next, last
  <1>7. /\ retired \in Seq(Generation)
        /\ Len(retired) = g
        /\ \A h \in 1 .. g : retired[h] = IF h = g THEN last ELSE rows[h]
    BY <1>1, <1>3, ReplaceAt
  <1> HIDE DEF retired
  <1> DEFINE new == Append(retired, next)
  <1>8. /\ new \in Seq(Generation)
        /\ new # <<>>
        /\ Len(new) = g + 1
        /\ DOMAIN new = 1 .. g + 1
        /\ new[g + 1] = next
        /\ \A h \in 1 .. g : new[h] = IF h = g THEN last ELSE rows[h]
    BY <1>2, <1>7, AppendAt
  <1> HIDE DEF new, g, head
  <1>9. \A h \in 1 .. g + 1 : h \in 1 .. g \/ h = g + 1
    BY <1>1
  <1>10. \A h \in 1 .. g : new[h].headSeq = rows[h].headSeq
    BY <1>5, <1>8 DEF head
  <1>11. head \in Nat /\ rows[g].checkpointSeq \in Nat /\ rows[g].projectedSeq \in Nat
    BY <1>1 DEF Generation, head
  <1>12. /\ rows[g].checkpointSeq <= head
         /\ \A h \in 1 .. g - 1 : rows[h].headSeq <= rows[g].checkpointSeq
    <2>1. \A h \in 1 .. g - 1 : h \in 1 .. g /\ h < g
      BY <1>1
    <2> QED BY <1>1, <1>11, <2>1 DEF Consistent, Fenced, head
  <1>13. Chained(new)
    <2>1. \A h \in 1 .. g : ~rows[h].isCurrent \/ h = g
      BY <1>1 DEF Chained, g
    <2>2. \A h \in 1 .. g : h # g + 1
      BY <1>1
    <2>3. \A h \in 1 .. g : new[h] = last \/ (new[h] = rows[h] /\ h # g)
      BY <1>8
    <2>4. \A h \in 1 .. g : ~new[h].isCurrent
      BY <1>5, <2>1, <2>3
    <2>5. \A h \in 1 .. g + 1 : new[h].isCurrent <=> h = g + 1
      BY <1>4, <1>8, <1>9, <2>2, <2>4
    <2> QED BY <1>8, <2>5 DEF Chained
  <1>14. Fenced(new)
    <2>1. ASSUME NEW h \in 1 .. g + 1
          PROVE  /\ new[h].checkpointSeq <= new[h].projectedSeq
                 /\ new[h].projectedSeq <= new[h].headSeq
      <3>1. CASE h \in 1 .. g /\ h # g
        BY <1>1, <1>8, <3>1 DEF Consistent, Fenced
      <3>2. CASE h = g
        BY <1>1, <1>5, <1>8, <1>11, <1>12, <3>2
      <3>3. CASE h = g + 1
        BY <1>4, <1>8, <1>11, <3>3
      <3> QED BY <1>9, <3>1, <3>2, <3>3
    <2>2. ASSUME NEW h \in 1 .. g + 1, NEW k \in 1 .. g + 1, h < k
          PROVE  /\ new[h].projectedSeq = new[h].headSeq
                 /\ new[h].headSeq <= new[k].checkpointSeq
      <3>1. h \in 1 .. g
        BY <1>1, <2>2
      <3>2. CASE h = g
        <4>1. k = g + 1
          BY <1>1, <2>2, <3>2
        <4> QED BY <1>4, <1>5, <1>8, <1>11, <3>1, <3>2, <4>1
      <3>3. CASE h # g /\ k # g + 1
        <4>1. k \in 1 .. g /\ new[h] = rows[h]
          BY <1>8, <1>9, <3>1, <3>3
        <4>2. new[k].checkpointSeq = rows[k].checkpointSeq
          BY <1>5, <1>8, <4>1
        <4>3. rows[h].projectedSeq = rows[h].headSeq
              /\ rows[h].headSeq <= rows[k].checkpointSeq
          BY <1>1, <2>2, <3>1, <4>1 DEF Consistent, Fenced
        <4> QED BY <4>1, <4>2, <4>3
      <3>4. CASE h # g /\ k = g + 1
        <4>1. h \in 1 .. g - 1 /\ new[h] = rows[h]
          BY <1>1, <1>8, <3>1, <3>4
        <4>2. rows[h].projectedSeq = rows[h].headSeq /\ rows[h].headSeq \in Nat
          <5>1. h \in 1 .. g /\ g \in 1 .. g /\ h < g
            BY <1>1, <4>1
          <5>2. rows[h].headSeq \in Nat
            BY <1>1, <5>1 DEF Generation
          <5> QED BY <1>1, <5>1, <5>2 DEF Consistent, Fenced
        <4>3. rows[h].headSeq <= rows[g].checkpointSeq
          BY <1>12, <4>1
        <4> QED BY <1>4, <1>8, <1>11, <1>12, <3>4, <4>1, <4>2, <4>3
      <3> QED BY <3>2, <3>3, <3>4
    <2> QED BY <1>8, <2>1, <2>2 DEF Fenced
  <1>15. Placed(new, updates)
    <2> SUFFICES ASSUME NEW u \in updates
                 PROVE  /\ u.generation \in 1 .. g + 1
                        /\ 1 <= u.seq
                        /\ u.seq <= new[u.generation].headSeq
                        /\ \A h \in 1 .. g + 1 :
                             h < u.generation => new[h].headSeq < u.seq
      BY <1>8 DEF Placed
    <2>1. /\ u.generation \in 1 .. g
          /\ 1 <= u.seq
          /\ u.seq <= rows[u.generation].headSeq
          /\ \A h \in 1 .. g : h < u.generation => rows[h].headSeq < u.seq
      BY <1>1 DEF Consistent, Placed
    <2>2. \A h \in 1 .. g + 1 : h < u.generation => h \in 1 .. g
      BY <1>1, <2>1
    <2> QED BY <1>1, <1>10, <2>1, <2>2
  <1>16. Numbered(new, updates)
    BY <1>4, <1>8 DEF Consistent, Numbered, g, head
  <1>17. Checkpointed(new, updates, base)
    <2>1. LoadSnapshot(rows, head) = Through(base, updates, head)
      <3>1. head \in rows[g].checkpointSeq .. head
        BY <1>11, <1>12
      <3> QED BY <3>1, LoadExact DEF g, head
    <2>2. \A h \in 1 .. g :
            rows[h].checkpoint = Through(base, updates, rows[h].checkpointSeq)
      BY <1>1 DEF Consistent, Checkpointed
    <2>3. \A h \in 1 .. g : /\ new[h].checkpoint = rows[h].checkpoint
                            /\ new[h].checkpointSeq = rows[h].checkpointSeq
      BY <1>5, <1>8
    <2>4. new[g + 1].checkpoint = Through(base, updates, new[g + 1].checkpointSeq)
      BY <1>4, <1>8, <2>1
    <2> QED BY <1>8, <1>9, <2>2, <2>3, <2>4 DEF Checkpointed
  <1>18. Consistent(new, updates, base)
    BY <1>13, <1>14, <1>15, <1>16, <1>17 DEF Consistent
  <1>19. Rotate(rows) = new
    BY <1>6 DEF new
  <1> QED BY <1>4, <1>8, <1>10, <1>18, <1>19 DEF g, head

\* No stored update lies beyond the head.
LEMMA NoneBeyond ==
    ASSUME TypeOK, NEW rows, NEW base, Consistent(rows, updates, base)
    PROVE  \A u \in updates : u.seq \in Nat /\ u.seq <= rows[Len(rows)].headSeq
  <1> DEFINE g == Len(rows)
             head == rows[g].headSeq
  <1> SUFFICES ASSUME NEW u \in updates
               PROVE  u.seq \in Nat /\ u.seq <= head
    OBVIOUS
  <1>1. /\ g \in Nat \ {0}
        /\ DOMAIN rows = 1 .. g
        /\ \A h \in 1 .. g : rows[h] \in Generation
        /\ g \in 1 .. g
    BY CurrentIsLast DEF Consistent, Chained
  <1>2. /\ u.generation \in 1 .. g
        /\ u.seq \in Nat
        /\ u.seq <= rows[u.generation].headSeq
    BY <1>1 DEF Consistent, Placed, TypeOK, Receipt
  <1>3. head \in Nat
    BY <1>1 DEF Generation
  <1> HIDE DEF g
  <1>4. CASE u.generation = g
    BY <1>2, <1>4 DEF head
  <1>5. CASE u.generation < g
    <2>1. /\ rows[u.generation].headSeq <= rows[g].checkpointSeq
          /\ rows[g].checkpointSeq <= rows[g].projectedSeq
          /\ rows[g].projectedSeq <= head
      BY <1>1, <1>2, <1>5 DEF Consistent, Fenced, head
    <2>2. /\ rows[u.generation].headSeq \in Nat
          /\ rows[g].checkpointSeq \in Nat
          /\ rows[g].projectedSeq \in Nat
      BY <1>1, <1>2 DEF Generation
    <2> HIDE DEF head
    <2>3. rows[u.generation].headSeq <= head
      BY <1>3, <2>1, <2>2
    <2> QED BY <1>2, <1>3, <2>2, <2>3
  <1> QED BY <1>1, <1>2, <1>4, <1>5

\* Numbering one more update at the end of the current generation, published
\* with it or not.
LEMMA ExtendConsistent ==
    ASSUME TypeOK, NEW rows, NEW base, Consistent(rows, updates, base),
           NEW r \in Receipt, r.generation = Len(rows),
           r.seq = rows[Len(rows)].headSeq + 1,
           NEW last \in Generation,
           last.isCurrent = rows[Len(rows)].isCurrent,
           last.headSeq = r.seq,
           last.projectedSeq \in {rows[Len(rows)].projectedSeq, r.seq},
           last.checkpointSeq = rows[Len(rows)].checkpointSeq,
           last.checkpoint = rows[Len(rows)].checkpoint
    PROVE  LET new == [rows EXCEPT ![Len(rows)] = last] IN
           /\ Consistent(new, updates \cup {r}, base)
           /\ Len(new) = Len(rows)
           /\ \A g \in 1 .. Len(rows) : rows[g].headSeq <= new[g].headSeq
           /\ new[Len(rows)] = last
  <1> DEFINE g == Len(rows)
             head == rows[g].headSeq
             projected == last.projectedSeq
             new == [rows EXCEPT ![g] = last]
             entries == updates \cup {r}
  <1>1. /\ g \in Nat \ {0}
        /\ DOMAIN rows = 1 .. g
        /\ \A h \in 1 .. g : rows[h] \in Generation
        /\ g \in 1 .. g
        /\ rows[g] \in Generation
        /\ rows \in Seq(Generation)
        /\ r.generation = g
        /\ r.seq = head + 1
    BY CurrentIsLast DEF Consistent, Chained
  <1>2. head \in Nat /\ r.seq \in Nat
    BY <1>1 DEF Generation
  <1>3. /\ last \in Generation
        /\ last.isCurrent = rows[g].isCurrent
        /\ last.headSeq = head + 1
        /\ last.checkpointSeq = rows[g].checkpointSeq
        /\ last.projectedSeq = projected
        /\ last.checkpoint = rows[g].checkpoint
        /\ rows[g].projectedSeq <= projected
        /\ projected <= head + 1
    <2>1. /\ rows[g].projectedSeq \in Nat
          /\ rows[g].projectedSeq <= head
      BY <1>1 DEF Generation, Consistent, Fenced
    <2>2. /\ projected \in Nat
          /\ rows[g].projectedSeq <= projected
          /\ projected <= head + 1
      BY <1>1, <1>2, <2>1
    <2> HIDE DEF projected
    <2> QED BY <1>1, <2>2 DEF projected
  <1>4. /\ new \in Seq(Generation)
        /\ Len(new) = g
        /\ DOMAIN new = 1 .. g
        /\ new # <<>>
        /\ \A h \in 1 .. g : new[h] = IF h = g THEN last ELSE rows[h]
    BY <1>1, <1>3, ReplaceAt
  <1> HIDE DEF new
  <1>5. \A h \in 1 .. g : /\ rows[h].headSeq <= new[h].headSeq
                          /\ h # g => new[h] = rows[h]
    <2>1. \A h \in 1 .. g : h # g => new[h] = rows[h]
      BY <1>4
    <2>2. new[g].headSeq = head + 1
      BY <1>1, <1>3, <1>4
    <2>3. \A h \in 1 .. g : rows[h].headSeq \in Nat
      BY <1>1 DEF Generation
    <2>4. \A h \in 1 .. g : h # g => rows[h].headSeq <= new[h].headSeq
      BY <2>1, <2>3
    <2>5. rows[g].headSeq <= new[g].headSeq
      BY <1>2, <2>2
    <2> QED BY <2>1, <2>4, <2>5
  <1>6. \A h \in 1 .. g : /\ new[h].isCurrent = rows[h].isCurrent
                          /\ new[h].checkpointSeq = rows[h].checkpointSeq
                          /\ new[h].checkpoint = rows[h].checkpoint
    BY <1>3, <1>4
  <1>7. Chained(new)
    <2>1. \A h \in 1 .. g : rows[h].isCurrent <=> h = g
      BY <1>1 DEF Consistent, Chained
    <2> QED BY <1>4, <1>6, <2>1 DEF Chained
  <1> HIDE DEF g, head
  <1>8. Fenced(new)
    <2>1. ASSUME NEW h \in 1 .. g
          PROVE  /\ new[h].checkpointSeq <= new[h].projectedSeq
                 /\ new[h].projectedSeq <= new[h].headSeq
      <3>1. /\ rows[h].checkpointSeq \in Nat
            /\ rows[h].projectedSeq \in Nat
            /\ rows[h].checkpointSeq <= rows[h].projectedSeq
            /\ rows[h].projectedSeq <= rows[h].headSeq
        BY <1>1 DEF Generation, Consistent, Fenced
      <3>2. CASE h = g
        <4>1. /\ new[h].checkpointSeq = rows[h].checkpointSeq
              /\ new[h].projectedSeq = projected
              /\ new[h].headSeq = head + 1
              /\ rows[h].projectedSeq <= projected
              /\ projected <= head + 1
              /\ projected \in Nat
          BY <1>3, <1>4, <3>2 DEF Generation
        <4> QED BY <3>1, <4>1
      <3>3. CASE h # g
        BY <1>5, <3>1, <3>3
      <3> QED BY <3>2, <3>3
    <2>2. ASSUME NEW h \in 1 .. g, NEW k \in 1 .. g, h < k
          PROVE  /\ new[h].projectedSeq = new[h].headSeq
                 /\ new[h].headSeq <= new[k].checkpointSeq
      <3>1. new[h] = rows[h]
        BY <1>1, <1>5, <2>2
      <3> QED BY <1>1, <1>6, <2>2, <3>1 DEF Consistent, Fenced
    <2> QED BY <1>4, <2>1, <2>2 DEF Fenced
  <1>9. Placed(new, entries)
    <2>1. ASSUME NEW u \in updates
          PROVE  /\ u.generation \in 1 .. g
                 /\ 1 <= u.seq
                 /\ u.seq <= new[u.generation].headSeq
                 /\ \A h \in 1 .. g : h < u.generation => new[h].headSeq < u.seq
      <3>1. /\ u.generation \in 1 .. g
            /\ 1 <= u.seq
            /\ u.seq <= rows[u.generation].headSeq
            /\ \A h \in 1 .. g : h < u.generation => rows[h].headSeq < u.seq
        BY <1>1 DEF Consistent, Placed
      <3>2. /\ u.seq \in Nat
            /\ rows[u.generation].headSeq \in Nat
            /\ new[u.generation].headSeq \in Nat
        BY <1>1, <1>3, <1>4, <3>1 DEF TypeOK, Receipt, Generation
      <3>3. \A h \in 1 .. g : h < u.generation => new[h] = rows[h]
        BY <1>1, <1>5, <3>1
      <3>4. u.seq <= new[u.generation].headSeq
        <4>1. rows[u.generation].headSeq <= new[u.generation].headSeq
          BY <1>1, <1>4, <1>5, <3>1, <3>2
        <4> QED BY <3>1, <3>2, <4>1
      <3> QED BY <3>1, <3>3, <3>4
    <2>2. /\ 1 <= r.seq
          /\ r.seq <= new[g].headSeq
          /\ \A h \in 1 .. g : h < g => new[h].headSeq < r.seq
      <3>1. 1 <= r.seq /\ r.seq <= new[g].headSeq
        <4>1. new[g].headSeq = head + 1 /\ r.seq = head + 1
          BY <1>1, <1>3, <1>4
        <4> QED BY <1>2, <4>1
      <3>2. ASSUME NEW h \in 1 .. g, h < g
            PROVE  new[h].headSeq < r.seq
        <4>1. new[h] = rows[h] /\ rows[h].headSeq \in Nat
          BY <1>1, <1>5, <3>2 DEF Generation
        <4>2. /\ rows[h].headSeq <= rows[g].checkpointSeq
              /\ rows[g].checkpointSeq <= rows[g].projectedSeq
              /\ rows[g].projectedSeq <= rows[g].headSeq
          BY <1>1, <3>2 DEF Consistent, Fenced
        <4>3. rows[g].checkpointSeq \in Nat /\ rows[g].projectedSeq \in Nat
          BY <1>1 DEF Generation
        <4> QED BY <1>1, <1>2, <4>1, <4>2, <4>3 DEF head
      <3> QED BY <3>1, <3>2
    <2> QED BY <1>1, <1>4, <2>1, <2>2 DEF Placed
  <1>10. \A u \in updates : u.seq \in Nat /\ u.seq <= head
    BY NoneBeyond DEF head, g
  <1>11. Numbered(new, entries)
    <2>1. \A n \in 1 .. head : \E u \in updates : u.seq = n
      BY DEF Consistent, Numbered, g, head
    <2>2. ASSUME NEW n \in 1 .. head + 1
          PROVE  \E u \in entries : u.seq = n
      <3>1. n \in 1 .. head \/ n = r.seq
        BY <1>1, <1>2
      <3> QED BY <2>1, <3>1
    <2>3. ASSUME NEW u \in entries, NEW v \in entries, u.seq = v.seq
          PROVE  u = v
      <3>1. CASE u \in updates /\ v \in updates
        BY <2>3, <3>1 DEF Consistent, Numbered
      <3>2. CASE u = r /\ v = r
        BY <3>2
      <3>3. CASE u \in updates /\ v = r
        BY <1>1, <1>2, <1>10, <2>3, <3>3
      <3>4. CASE u = r /\ v \in updates
        BY <1>1, <1>2, <1>10, <2>3, <3>4
      <3> QED BY <3>1, <3>2, <3>3, <3>4
    <2>4. new[Len(new)].headSeq = head + 1
      BY <1>1, <1>3, <1>4
    <2> QED BY <2>2, <2>3, <2>4 DEF Numbered
  <1>12. Checkpointed(new, entries, base)
    <2> SUFFICES ASSUME NEW h \in 1 .. g
                 PROVE  rows[h].checkpoint
                          = Through(base, entries, rows[h].checkpointSeq)
      BY <1>4, <1>6 DEF Checkpointed
    <2>1. rows[h].checkpoint = Through(base, updates, rows[h].checkpointSeq)
      BY <1>1 DEF Consistent, Checkpointed
    <2>2. rows[h].checkpointSeq \in Nat /\ rows[h].checkpointSeq <= head
      <3>1. /\ rows[h].checkpointSeq \in Nat
            /\ rows[h].projectedSeq \in Nat
            /\ rows[h].headSeq \in Nat
            /\ rows[g].checkpointSeq \in Nat
            /\ rows[g].projectedSeq \in Nat
        BY <1>1 DEF Generation
      <3>2. /\ rows[h].checkpointSeq <= rows[h].projectedSeq
            /\ rows[h].projectedSeq <= rows[h].headSeq
            /\ rows[g].checkpointSeq <= rows[g].projectedSeq
            /\ rows[g].projectedSeq <= rows[g].headSeq
            /\ h < g => rows[h].headSeq <= rows[g].checkpointSeq
        BY <1>1 DEF Consistent, Fenced
      <3>3. h = g \/ h < g
        BY <1>1
      <3>4. CASE h = g
        BY <3>1, <3>2, <3>4 DEF head
      <3>5. CASE h < g
        <4>1. rows[h].checkpointSeq <= rows[g].checkpointSeq
          BY <3>1, <3>2, <3>5
        <4>2. rows[g].checkpointSeq <= head
          BY <1>2, <3>1, <3>2 DEF head
        <4> QED BY <1>2, <3>1, <4>1, <4>2
      <3> QED BY <3>3, <3>4, <3>5
    <2>3. ~(r.seq <= rows[h].checkpointSeq)
      BY <1>1, <1>2, <2>2
    <2>4. {v \in entries : v.seq <= rows[h].checkpointSeq}
            = {v \in updates : v.seq <= rows[h].checkpointSeq}
      BY <2>3
    <2> QED BY <2>1, <2>4 DEF Through
  <1>13. Consistent(new, entries, base)
    BY <1>7, <1>8, <1>9, <1>11, <1>12 DEF Consistent
  <1>14. g \in 1 .. g
    BY <1>1
  <1> QED BY <1>1, <1>3, <1>4, <1>5, <1>6, <1>13, <1>14 DEF new, g, head

\* Moving the checkpoint or the projection of the current generation forward.
LEMMA PublishConsistent ==
    ASSUME TypeOK, NEW rows, NEW base, Consistent(rows, updates, base),
           NEW row \in Generation,
           row.isCurrent = rows[Len(rows)].isCurrent,
           row.headSeq = rows[Len(rows)].headSeq,
           rows[Len(rows)].checkpointSeq <= row.checkpointSeq,
           row.checkpointSeq <= row.projectedSeq,
           row.projectedSeq <= row.headSeq,
           row.checkpoint = Through(base, updates, row.checkpointSeq)
    PROVE  LET new == [rows EXCEPT ![Len(rows)] = row] IN
           /\ Consistent(new, updates, base)
           /\ Len(new) = Len(rows)
           /\ new[Len(rows)] = row
           /\ \A g \in 1 .. Len(rows) : rows[g].headSeq = new[g].headSeq
  <1> DEFINE g == Len(rows)
             new == [rows EXCEPT ![g] = row]
  <1>1. /\ g \in Nat \ {0}
        /\ DOMAIN rows = 1 .. g
        /\ \A h \in 1 .. g : rows[h] \in Generation
        /\ g \in 1 .. g
        /\ rows \in Seq(Generation)
    BY CurrentIsLast DEF Consistent, Chained
  <1>2. /\ new \in Seq(Generation)
        /\ Len(new) = g
        /\ DOMAIN new = 1 .. g
        /\ new # <<>>
        /\ \A h \in 1 .. g : new[h] = IF h = g THEN row ELSE rows[h]
    BY <1>1, ReplaceAt
  <1> HIDE DEF new
  <1>3. \A h \in 1 .. g : /\ new[h].isCurrent = rows[h].isCurrent
                          /\ new[h].headSeq = rows[h].headSeq
    BY <1>2
  <1>4. Chained(new)
    <2>1. \A h \in 1 .. g : rows[h].isCurrent <=> h = g
      BY <1>1 DEF Consistent, Chained
    <2> QED BY <1>2, <1>3, <2>1 DEF Chained
  <1>5. rows[g].checkpointSeq <= row.checkpointSeq
    OBVIOUS
  <1>6. Numbered(new, updates)
    BY <1>1, <1>2, <1>3 DEF Consistent, Numbered
  <1> HIDE DEF g
  <1>7. Fenced(new)
    <2>1. ASSUME NEW h \in 1 .. g
          PROVE  /\ new[h].checkpointSeq <= new[h].projectedSeq
                 /\ new[h].projectedSeq <= new[h].headSeq
      <3>1. CASE h = g
        BY <1>2, <3>1
      <3>2. CASE h # g
        BY <1>1, <1>2, <3>2 DEF Consistent, Fenced
      <3> QED BY <3>1, <3>2
    <2>2. ASSUME NEW h \in 1 .. g, NEW k \in 1 .. g, h < k
          PROVE  /\ new[h].projectedSeq = new[h].headSeq
                 /\ new[h].headSeq <= new[k].checkpointSeq
      <3>1. new[h] = rows[h]
        BY <1>1, <1>2, <2>2
      <3>2. /\ rows[h].projectedSeq = rows[h].headSeq
            /\ rows[h].headSeq <= rows[k].checkpointSeq
        BY <1>1, <2>2 DEF Consistent, Fenced
      <3>3. /\ rows[h].headSeq \in Nat
            /\ rows[k].checkpointSeq \in Nat
            /\ row.checkpointSeq \in Nat
        BY <1>1 DEF Generation
      <3>4. rows[k].checkpointSeq <= new[k].checkpointSeq
        BY <1>2, <1>5, <3>3
      <3>5. new[k].checkpointSeq \in Nat
        BY <1>2, <3>3
      <3> QED BY <3>1, <3>2, <3>3, <3>4, <3>5
    <2> QED BY <1>2, <2>1, <2>2 DEF Fenced
  <1>8. Placed(new, updates)
    BY <1>1, <1>2, <1>3 DEF Consistent, Placed
  <1>9. Checkpointed(new, updates, base)
    <2> SUFFICES ASSUME NEW h \in 1 .. g
                 PROVE  new[h].checkpoint = Through(base, updates, new[h].checkpointSeq)
      BY <1>2 DEF Checkpointed
    <2>1. CASE h = g
      BY <1>2, <2>1
    <2>2. CASE h # g
      BY <1>1, <1>2, <2>2 DEF Consistent, Checkpointed
    <2> QED BY <2>1, <2>2
  <1>10. Consistent(new, updates, base)
    BY <1>4, <1>6, <1>7, <1>8, <1>9 DEF Consistent
  <1> QED BY <1>1, <1>2, <1>3, <1>10 DEF new, g

\* A later update is not part of an earlier prefix.
LEMMA ThroughBelow ==
    ASSUME NEW base, NEW entries, NEW r, NEW n \in Nat, r.seq \in Nat, n < r.seq
    PROVE  Through(base, entries \cup {r}, n) = Through(base, entries, n)
  <1>1. {v \in entries \cup {r} : v.seq <= n} = {v \in entries : v.seq <= n}
    OBVIOUS
  <1> QED BY <1>1 DEF Through

-----------------------------------------------------------------------------
(* Receipts.                                                               *)

\* No generation that holds a receipt disappears or moves back.
Grown ==
    \A g \in DOMAIN generations :
        /\ g \in DOMAIN generations'
        /\ generations[g].headSeq <= generations'[g].headSeq

\* A receipt stays covered while its generation only grows.
LEMMA FencedGrown ==
    ASSUME TypeOK, TypeOK', Grown, NEW r, r.seq \in Nat, ReceiptFenced(r)
    PROVE  ReceiptFenced(r)'
  <1>1. /\ r.generation \in DOMAIN generations
        /\ r.seq <= generations[r.generation].headSeq
    BY DEF ReceiptFenced
  <1>2. /\ r.generation \in DOMAIN generations'
        /\ generations[r.generation].headSeq <= generations'[r.generation].headSeq
    BY <1>1 DEF Grown
  <1>3. /\ generations[r.generation].headSeq \in Nat
        /\ generations'[r.generation].headSeq \in Nat
    <2>1. generations \in Seq(Generation) /\ generations' \in Seq(Generation)
      BY DEF TypeOK
    <2>2. /\ generations[r.generation] \in Generation
          /\ generations'[r.generation] \in Generation
      BY <1>1, <1>2, <2>1
    <2> QED BY <2>2 DEF Generation
  <1> QED BY <1>1, <1>2, <1>3 DEF ReceiptFenced

\* A step that stores no receipt answers from those that are stored.
LEMMA ReceiptsKept ==
    ASSUME IInv, TypeOK', Grown,
           updates' = updates, noopReceipts' = noopReceipts,
           \/ answers' = answers
           \/ \E r \in updates \cup noopReceipts :
                answers' = answers \cup {AnswerFor(r, r.sender)}
    PROVE  KeysSpentOnce' /\ ReceiptsFenced'
  <1>1. \A r \in updates \cup noopReceipts : ReceiptFenced(r) /\ r.seq \in Nat
    BY DEF IInv, ReceiptsFenced, TypeOK, Receipt
  <1>2. \A r \in updates \cup noopReceipts : ReceiptFenced(r)'
    BY <1>1, FencedGrown DEF IInv
  <1>3. ReceiptsFenced'
    BY <1>2 DEF ReceiptsFenced
  <1>4. \A a \in answers' : \E r \in updates \cup noopReceipts :
          AnswerFor(r, r.sender) = a
    BY DEF IInv, KeysSpentOnce
  <1>5. KeysSpentOnce'
    BY <1>2, <1>4 DEF IInv, KeysSpentOnce, AnswerFor
  <1> QED BY <1>3, <1>5

\* A step that stores one receipt stores it under a key nobody has spent.
LEMMA ReceiptAdded ==
    ASSUME IInv, TypeOK', Grown,
           NEW r \in Receipt, FindIdempotentReceipt(r.key) = {}, ReceiptFenced(r)',
           \/ updates' = updates \cup {r} /\ noopReceipts' = noopReceipts
           \/ updates' = updates /\ noopReceipts' = noopReceipts \cup {r},
           answers' \in {answers, answers \cup {AnswerFor(r, r.sender)}}
    PROVE  KeysSpentOnce' /\ ReceiptsFenced'
  <1>1. \A s \in updates \cup noopReceipts : /\ s.key # r.key
                                             /\ ReceiptFenced(s)
                                             /\ s.seq \in Nat
    BY DEF FindIdempotentReceipt, IInv, ReceiptsFenced, TypeOK, Receipt
  <1>2. \A s \in updates \cup noopReceipts : ReceiptFenced(s)'
    BY <1>1, FencedGrown DEF IInv
  <1>3. \A s \in updates' \cup noopReceipts' :
          s \in updates \cup noopReceipts \/ s = r
    OBVIOUS
  <1>4. ReceiptsFenced'
    BY <1>2, <1>3 DEF ReceiptsFenced
  <1>5. \A s, t \in updates' \cup noopReceipts' : s.key = t.key => s = t
    <2>1. \A s, t \in updates \cup noopReceipts : s.key = t.key => s = t
      BY DEF IInv, KeysSpentOnce
    <2> QED BY <1>1, <1>3, <2>1
  <1>6. updates' \cap noopReceipts' = {}
    <2>1. updates \cap noopReceipts = {}
      BY DEF IInv, KeysSpentOnce
    <2>2. r \notin updates /\ r \notin noopReceipts
      BY <1>1
    <2> QED BY <2>1, <2>2
  <1>7. \A a \in answers' : \E s \in updates' \cup noopReceipts' :
          AnswerFor(s, s.sender) = a
    <2>1. \A a \in answers : \E s \in updates \cup noopReceipts :
            AnswerFor(s, s.sender) = a
      BY DEF IInv, KeysSpentOnce
    <2> QED BY <2>1
  <1>8. \A s \in updates' \cup noopReceipts' : ReceiptFenced(s)'
    BY <1>2, <1>3
  <1>9. KeysSpentOnce'
    BY <1>5, <1>6, <1>7, <1>8 DEF KeysSpentOnce, AnswerFor
  <1> QED BY <1>4, <1>9

-----------------------------------------------------------------------------
(* The steps.                                                              *)

\* A state of the history that is not older than the newest row records.
ShownBy(content, rows, entries, base) ==
    \E seq \in rows[Len(rows)].projectedSeq .. rows[Len(rows)].headSeq :
        content = Through(base, entries, seq)

\* The documents row shows the recorded prefix or a longer one, or the content
\* that initialization starts from.
LEMMA EnsuredProjection ==
    ASSUME IInv
    PROVE  ShownBy(document.content, EnsuredGenerations, updates, EnsuredBootstrap)
  <1>1. CASE Initialized
    <2>1. EnsuredGenerations = generations /\ EnsuredBootstrap = bootstrap
      BY <1>1 DEF EnsuredGenerations, EnsuredBootstrap
    <2>2. CurrentGeneration(generations) = Len(generations)
      BY <1>1, CurrentIsLast DEF IInv, StoreConsistent, Consistent
    <2> QED BY <1>1, <2>1, <2>2 DEF IInv, ProjectionExact, HeadSeq, HistoryThrough,
                                    Through, ShownBy
  <1>2. CASE ~Initialized
    <2>1. /\ EnsuredBootstrap = document.content
          /\ updates = {}
          /\ Len(EnsuredGenerations) = 1
          /\ EnsuredGenerations[1].projectedSeq = 0
          /\ EnsuredGenerations[1].headSeq = 0
      BY <1>2 DEF IInv, StoreConsistent, EnsuredBootstrap, EnsuredGenerations
    <2>2. document.content = Through(EnsuredBootstrap, updates, 0)
      BY <2>1 DEF Through
    <2> QED BY <2>1, <2>2 DEF ShownBy
  <1> QED BY <1>1, <1>2

\* Rows that only grew out of the ensured ones.
LEMMA EnsuredGrown ==
    ASSUME IInv,
           \A g \in 1 .. Len(EnsuredGenerations) :
             /\ g \in DOMAIN generations'
             /\ EnsuredGenerations[g].headSeq <= generations'[g].headSeq
    PROVE  Grown
  <1>1. CASE Initialized
    <2>1. EnsuredGenerations = generations
      BY <1>1 DEF EnsuredGenerations
    <2>2. DOMAIN generations = 1 .. Len(generations)
      BY DEF IInv, TypeOK
    <2> QED BY <2>1, <2>2 DEF Grown
  <1>2. CASE ~Initialized
    BY <1>2 DEF Grown, Initialized
  <1> QED BY <1>1, <1>2

\* What makes the store part of the invariant hold after a step.
LEMMA Reestablished ==
    ASSUME TypeOK', Consistent(generations', updates', bootstrap'),
           ShownBy(document'.content, generations', updates', bootstrap')
    PROVE  /\ StoreConsistent'
           /\ ProjectionExact'
  <1>1. /\ generations' # <<>>
        /\ CurrentGeneration(generations') = Len(generations')
    BY CurrentIsLast DEF Consistent, Chained
  <1> QED BY <1>1 DEF StoreConsistent, ProjectionExact, Initialized, HeadSeq,
                      HistoryThrough, Through, ShownBy, CurrentGeneration

\* Initialization is idempotent and starts from what readers saw.
LEMMA InitializeStep ==
    ASSUME IInv, Initialize
    PROVE  IInv'
  <1>1. /\ Consistent(EnsuredGenerations, updates, EnsuredBootstrap)
        /\ EnsuredBootstrap \in SUBSET Ops
    BY EnsuredConsistent DEF IInv
  <1>2. /\ generations' = EnsuredGenerations
        /\ bootstrap' = EnsuredBootstrap
        /\ UNCHANGED <<document, updates, noopReceipts, approvals, epochs, answers>>
    BY DEF Initialize, EnsureInitialized, EnsuredBootstrap
  <1>3. TypeOK'
    <2>1. generations' \in Seq(Generation)
      BY <1>1, <1>2 DEF Consistent, Chained
    <2>2. proposals' \in [Proposals -> {"pending", "accepted", "rejected"}]
      BY DEF Initialize, EnsureInitialized, IInv, TypeOK
    <2> QED BY <1>1, <1>2, <2>1, <2>2 DEF IInv, TypeOK
  <1>4. StoreConsistent' /\ ProjectionExact'
    BY <1>1, <1>2, <1>3, EnsuredProjection, Reestablished
  <1>5. Grown
    <2>1. Chained(EnsuredGenerations)
      BY <1>1 DEF Consistent
    <2>2. \A g \in 1 .. Len(EnsuredGenerations) :
            g \in DOMAIN EnsuredGenerations
              /\ EnsuredGenerations[g].headSeq <= EnsuredGenerations[g].headSeq
      BY <2>1, CurrentIsLast DEF Generation
    <2> QED BY <1>2, <2>2, EnsuredGrown
  <1>6. KeysSpentOnce' /\ ReceiptsFenced'
    BY <1>2, <1>3, <1>5, ReceiptsKept
  <1> QED BY <1>3, <1>4, <1>6 DEF IInv

\* What AppendUpdate has established before it stores anything.
LEMMA Ensuring ==
    ASSUME IInv, EnsureInitialized
    PROVE  LET rows == EnsuredGenerations IN
           /\ Consistent(rows, updates, EnsuredBootstrap)
           /\ bootstrap' = EnsuredBootstrap
           /\ bootstrap' \in SUBSET Ops
           /\ proposals' \in [Proposals -> {"pending", "accepted", "rejected"}]
           /\ Len(rows) \in Nat \ {0}
           /\ DOMAIN rows = 1 .. Len(rows)
           /\ CurrentGeneration(rows) = Len(rows)
           /\ \A g \in 1 .. Len(rows) : rows[g] \in Generation
           /\ HeadSeq(rows) = rows[Len(rows)].headSeq
           /\ HeadSeq(rows) \in Nat
           /\ LoadSnapshot(rows, HeadSeq(rows))
                = Through(bootstrap', updates, HeadSeq(rows))
  <1> DEFINE rows == EnsuredGenerations
  <1>1. /\ Consistent(rows, updates, EnsuredBootstrap)
        /\ EnsuredBootstrap \in SUBSET Ops
    BY EnsuredConsistent DEF IInv
  <1>2. /\ bootstrap' = EnsuredBootstrap
        /\ proposals' \in [Proposals -> {"pending", "accepted", "rejected"}]
    BY DEF EnsureInitialized, EnsuredBootstrap, IInv, TypeOK
  <1> HIDE DEF rows
  <1>3. /\ Len(rows) \in Nat \ {0}
        /\ DOMAIN rows = 1 .. Len(rows)
        /\ CurrentGeneration(rows) = Len(rows)
        /\ \A g \in 1 .. Len(rows) : rows[g] \in Generation
    BY <1>1, CurrentIsLast DEF Consistent
  <1>4. Len(rows) \in 1 .. Len(rows)
    BY <1>3
  <1>5. HeadSeq(rows) = rows[Len(rows)].headSeq
    BY <1>3 DEF HeadSeq
  <1>6. /\ rows[Len(rows)].headSeq \in Nat
        /\ rows[Len(rows)].checkpointSeq \in Nat
        /\ rows[Len(rows)].projectedSeq \in Nat
    BY <1>3, <1>4 DEF Generation
  <1>7. rows[Len(rows)].checkpointSeq <= rows[Len(rows)].headSeq
    BY <1>1, <1>3, <1>4, <1>6 DEF Consistent, Fenced
  <1>8. HeadSeq(rows) \in rows[Len(rows)].checkpointSeq .. rows[Len(rows)].headSeq
    BY <1>5, <1>6, <1>7
  <1>9. LoadSnapshot(rows, HeadSeq(rows))
          = Through(EnsuredBootstrap, updates, HeadSeq(rows))
    BY <1>1, <1>8, LoadExact DEF IInv
  <1> QED BY <1>1, <1>2, <1>3, <1>5, <1>6, <1>9 DEF rows

\* A published head is a content and a revision of the same types.
LEMMA MaterializedType ==
    ASSUME document \in Document, NEW content \in SUBSET Ops,
           WriteMaterializedDocument(content)
    PROVE  /\ document' \in Document
           /\ document'.content = content
           /\ document'.status = document.status
           /\ document'.readiness = document.readiness
           /\ document'.revision = document.revision + 1
  <1>1. document' = [status |-> document.status, readiness |-> document.readiness,
                     revision |-> document.revision + 1, content |-> content]
    BY DEF WriteMaterializedDocument, Document
  <1>2. /\ document.status \in {"draft", "archived"}
        /\ document.readiness \in Readiness
        /\ document.revision + 1 \in Nat
    BY DEF Document
  <1> QED BY <1>1, <1>2 DEF Document

\* A no-op stores a receipt at the head and moves nothing but, for a command,
\* the documents row to the head.
LEMMA NoopStep ==
    ASSUME IInv, EnsureInitialized, UNCHANGED epochs,
           NEW key \in Keys, NEW sender \in Senders, NEW payload \in SUBSET Ops,
           NEW publishes, FindIdempotentReceipt(key) = {},
           CommitNoopAppend(EnsuredGenerations, key, sender, payload, publishes)
    PROVE  IInv'
  <1> DEFINE rows == EnsuredGenerations
  <1>1. /\ Consistent(rows, updates, EnsuredBootstrap)
        /\ bootstrap' = EnsuredBootstrap
        /\ bootstrap' \in SUBSET Ops
        /\ proposals' \in [Proposals -> {"pending", "accepted", "rejected"}]
        /\ Len(rows) \in Nat \ {0}
        /\ DOMAIN rows = 1 .. Len(rows)
        /\ CurrentGeneration(rows) = Len(rows)
        /\ \A g \in 1 .. Len(rows) : rows[g] \in Generation
        /\ HeadSeq(rows) = rows[Len(rows)].headSeq
        /\ HeadSeq(rows) \in Nat
    BY Ensuring
  <1>2. PICK r : r = [generation |-> CurrentGeneration(rows),
                      seq |-> HeadSeq(rows), key |-> key, sender |-> sender,
                      payload |-> payload]
    OBVIOUS
  <1>3. /\ generations' = rows
        /\ noopReceipts' = noopReceipts \cup {r}
        /\ answers' \in {answers, answers \cup {AnswerFor(r, sender)}}
        /\ UNCHANGED <<updates, approvals, epochs>>
        /\ \/ WriteMaterializedDocument(LoadSnapshot(rows, HeadSeq(rows)))
           \/ UNCHANGED document
    BY <1>2 DEF CommitNoopAppend, MayAnswer
  <1>4. /\ r \in Receipt
        /\ r.key = key
        /\ r.sender = sender
        /\ r.generation = Len(rows)
        /\ r.seq = rows[Len(rows)].headSeq
    BY <1>1, <1>2 DEF Receipt
  <1>5. AnswerFor(r, sender) \in Answer
    BY <1>4 DEF AnswerFor, Answer, Receipt
  <1>6. LoadSnapshot(rows, HeadSeq(rows)) = Through(bootstrap', updates, HeadSeq(rows))
    BY Ensuring
  <1> HIDE DEF rows
  <1>7. /\ document' \in Document
         /\ \/ document'.content = Through(bootstrap', updates, HeadSeq(rows))
            \/ document'.content = document.content
    <2>1. LoadSnapshot(rows, HeadSeq(rows)) \in SUBSET Ops
      BY <1>1, LoadedType DEF IInv, Consistent
    <2> QED BY <1>3, <1>6, <2>1, MaterializedType DEF IInv, TypeOK
  <1>8. TypeOK'
    <2>1. generations' \in Seq(Generation)
      BY <1>1, <1>3 DEF Consistent, Chained
    <2>2. noopReceipts' \subseteq Receipt /\ answers' \subseteq Answer
      BY <1>3, <1>4, <1>5 DEF IInv, TypeOK
    <2> QED BY <1>1, <1>3, <1>7, <2>1, <2>2 DEF IInv, TypeOK
  <1>9. ShownBy(document'.content, rows, updates, bootstrap')
    <2>1. ShownBy(document.content, rows, updates, bootstrap')
      BY <1>1, EnsuredProjection DEF rows
    <2>2. HeadSeq(rows) \in rows[Len(rows)].projectedSeq .. rows[Len(rows)].headSeq
      <3>1. Len(rows) \in DOMAIN rows /\ rows[Len(rows)] \in Generation
        BY <1>1
      <3> QED BY <1>1, <3>1 DEF Generation, Consistent, Fenced
    <2> QED BY <1>7, <2>1, <2>2 DEF ShownBy
  <1>10. StoreConsistent' /\ ProjectionExact'
    BY <1>1, <1>3, <1>8, <1>9, Reestablished
  <1>11. Grown
    <2>1. \A g \in 1 .. Len(rows) :
            g \in DOMAIN rows /\ rows[g].headSeq <= rows[g].headSeq
      BY <1>1 DEF Generation
    <2> QED BY <1>3, <2>1, EnsuredGrown DEF rows
  <1>12. ReceiptFenced(r)'
    <2>1. Len(rows) \in DOMAIN rows
      BY <1>1
    <2>2. rows[Len(rows)].headSeq <= rows[Len(rows)].headSeq
      BY <1>1
    <2> QED BY <1>3, <1>4, <2>1, <2>2 DEF ReceiptFenced
  <1>13. KeysSpentOnce' /\ ReceiptsFenced'
    BY <1>3, <1>4, <1>8, <1>11, <1>12, ReceiptAdded
  <1> QED BY <1>8, <1>10, <1>13 DEF IInv

\* Invalidating an approval leaves a row of the same type.
LEMMA InvalidatedApproval ==
    ASSUME NEW n \in Nat, NEW a \in Approval
    PROVE  [a EXCEPT !.invalidatedSeq = n] \in Approval
<1>1. [a EXCEPT !.invalidatedSeq = n]
        = [generation |-> a.generation, headSeq |-> a.headSeq,
           content |-> a.content, invalidatedSeq |-> n, revoked |-> a.revoked]
  BY DEF Approval
<1> QED BY <1>1 DEF Approval

\* What a change leaves: one more update after the head, in the current
\* generation or, after a rotation, in the next one, which starts from
\* everything before it; a command records it as published.
ChangeStored(key, sender, payload, publishes) ==
    LET rows == EnsuredGenerations
        old == rows[Len(rows)]
        g == Len(generations')
        newest == generations'[g]
    IN  \E r \in Receipt :
          /\ r.key = key /\ r.payload = payload
          /\ r.seq = HeadSeq(rows) + 1 /\ r.generation = g
          /\ updates' = updates \cup {r}
          /\ noopReceipts' = noopReceipts
          /\ answers' \in {answers, answers \cup {AnswerFor(r, sender)}}
          /\ newest.headSeq = r.seq
          /\ newest.projectedSeq = IF publishes THEN r.seq
                                    ELSE IF ShouldRotateAppend(rows, payload)
                                    THEN HeadSeq(rows)
                                    ELSE old.projectedSeq
          /\ document'.content =
               IF newest.projectedSeq = old.projectedSeq THEN document.content
               ELSE Through(bootstrap', updates', newest.projectedSeq)
          /\ IF ShouldRotateAppend(rows, payload)
             THEN /\ newest.checkpointSeq = HeadSeq(rows)
                  /\ newest.checkpoint = LoadSnapshot(rows, HeadSeq(rows))
             ELSE /\ g = Len(rows)
                  /\ newest.checkpointSeq = old.checkpointSeq
                  /\ newest.checkpoint = old.checkpoint

\* A change is numbered after the head, in the current generation or, after a
\* rotation, in the next one.
LEMMA ChangedStep ==
    ASSUME IInv, EnsureInitialized, UNCHANGED epochs,
           NEW key \in Keys, NEW sender \in Senders, NEW payload \in SUBSET Ops,
           NEW publishes \in BOOLEAN, FindIdempotentReceipt(key) = {},
           CommitChangedAppend(EnsuredGenerations, key, sender, payload, publishes)
    PROVE  IInv' /\ ChangeStored(key, sender, payload, publishes)
  <1> DEFINE rows == EnsuredGenerations
             rotates == ShouldRotateAppend(rows, payload)
             basis == IF rotates THEN Rotate(rows) ELSE rows
             g == Len(basis)
             head == HeadSeq(rows)
             projects == rotates /\ ProjectsBeforeRotation(rows)
             projected == IF publishes THEN head + 1 ELSE basis[g].projectedSeq
  <1>1. /\ Consistent(rows, updates, EnsuredBootstrap)
        /\ bootstrap' = EnsuredBootstrap
        /\ bootstrap' \in SUBSET Ops
        /\ proposals' \in [Proposals -> {"pending", "accepted", "rejected"}]
        /\ Len(rows) \in Nat \ {0}
        /\ DOMAIN rows = 1 .. Len(rows)
        /\ CurrentGeneration(rows) = Len(rows)
        /\ \A h \in 1 .. Len(rows) : rows[h] \in Generation
        /\ head = rows[Len(rows)].headSeq
        /\ head \in Nat
        /\ LoadSnapshot(rows, head) = Through(bootstrap', updates, head)
    BY Ensuring
  <1>2. /\ Consistent(basis, updates, EnsuredBootstrap)
        /\ Len(rows) <= Len(basis)
        /\ \A h \in 1 .. Len(rows) : basis[h].headSeq = rows[h].headSeq
        /\ basis[g].headSeq = head
        /\ basis[g].projectedSeq = IF rotates THEN head
                                   ELSE rows[Len(rows)].projectedSeq
        /\ basis[g].checkpointSeq = IF rotates THEN head
                                    ELSE rows[Len(rows)].checkpointSeq
        /\ basis[g].checkpoint = IF rotates THEN LoadSnapshot(rows, head)
                                 ELSE rows[Len(rows)].checkpoint
        /\ ~rotates => g = Len(rows)
    <2>1. CASE rotates
      <3>1. basis = Rotate(rows)
        BY <2>1
      <3> HIDE DEF rows, rotates, basis
      <3>2. /\ Consistent(basis, updates, EnsuredBootstrap)
            /\ g = Len(rows) + 1
            /\ \A h \in 1 .. Len(rows) : basis[h].headSeq = rows[h].headSeq
            /\ basis[Len(rows) + 1].headSeq = rows[Len(rows)].headSeq
            /\ basis[Len(rows) + 1].projectedSeq = rows[Len(rows)].headSeq
            /\ basis[Len(rows) + 1].checkpointSeq = rows[Len(rows)].headSeq
            /\ basis[Len(rows) + 1].checkpoint = LoadSnapshot(rows, head)
        BY <1>1, <3>1, RotateConsistent DEF IInv
      <3> HIDE DEF g
      <3> QED BY <1>1, <2>1, <3>2 DEF g
    <2>2. CASE ~rotates
      <3>1. basis = rows
        BY <2>2
      <3> HIDE DEF rows, rotates, basis
      <3> QED BY <1>1, <2>2, <3>1
    <2> QED BY <2>1, <2>2
  <1>3. /\ g \in Nat \ {0}
        /\ DOMAIN basis = 1 .. g
        /\ CurrentGeneration(basis) = g
        /\ \A h \in 1 .. g : basis[h] \in Generation
    <2> HIDE DEF basis
    <2> QED BY <1>2, CurrentIsLast DEF Consistent
  <1>4. PICK r : r = [generation |-> CurrentGeneration(basis), seq |-> head + 1,
                      key |-> key, sender |-> sender, payload |-> payload]
    OBVIOUS
  <1>5. /\ generations' = [basis EXCEPT ![g] =
                             [@ EXCEPT !.headSeq = r.seq, !.projectedSeq = projected]]
        /\ updates' = updates \cup {r}
        /\ noopReceipts' = noopReceipts
        /\ answers' \in {answers, answers \cup {AnswerFor(r, sender)}}
        /\ approvals' = [i \in DOMAIN approvals |->
                           IF Active(approvals[i])
                           THEN [approvals[i] EXCEPT !.invalidatedSeq = head + 1]
                           ELSE approvals[i]]
        /\ document'.content = IF publishes
                               THEN LoadSnapshot(rows, head) \cup payload
                               ELSE IF projects THEN LoadSnapshot(rows, head)
                               ELSE document.content
        /\ document' \in Document
    <2> DEFINE unapproves == \/ \E i \in DOMAIN approvals : Active(approvals[i])
                             \/ document.readiness = "approved"
    <2>1. /\ generations' = [basis EXCEPT ![CurrentGeneration(basis)] =
               [basis[CurrentGeneration(basis)] EXCEPT
                  !.headSeq = basis[CurrentGeneration(basis)].headSeq + 1,
                  !.projectedSeq =
                    IF publishes THEN basis[CurrentGeneration(basis)].headSeq + 1
                    ELSE @]]
          /\ updates' = updates \cup
               {[generation |-> CurrentGeneration(basis),
                 seq |-> basis[CurrentGeneration(basis)].headSeq + 1,
                 key |-> key, sender |-> sender, payload |-> payload]}
          /\ noopReceipts' = noopReceipts
          /\ answers' \in {answers, answers \cup
               {AnswerFor([generation |-> CurrentGeneration(basis),
                           seq |-> basis[CurrentGeneration(basis)].headSeq + 1,
                           key |-> key, sender |-> sender, payload |-> payload],
                          sender)}}
          /\ approvals' = [i \in DOMAIN approvals |->
               IF Active(approvals[i])
               THEN [approvals[i] EXCEPT
                       !.invalidatedSeq = basis[CurrentGeneration(basis)].headSeq + 1]
               ELSE approvals[i]]
          /\ document' = [document EXCEPT
               !.content = IF publishes THEN LoadSnapshot(rows, head) \cup payload
                           ELSE IF projects THEN LoadSnapshot(rows, head) ELSE @,
               !.readiness = IF unapproves THEN "needs_review" ELSE @,
               !.revision = RevisionAfter(@, projects, unapproves, publishes)]
      BY DEF CommitChangedAppend, MayAnswer
    <2> HIDE DEF basis, rows, projects, unapproves, head
    <2>2. basis[CurrentGeneration(basis)].headSeq + 1 = head + 1
      BY <1>2, <1>3
    <2>3. document \in Document /\ document.revision \in Nat
      BY DEF IInv, TypeOK, Document
    <2>4. LoadSnapshot(rows, head) \in SUBSET Ops
      BY <1>1, LoadedType DEF IInv, Consistent
    <2>5. RevisionAfter(document.revision, projects, unapproves, publishes) \in Nat
      BY <2>3 DEF RevisionAfter
    <2>6. document' \in Document
      BY <2>1, <2>3, <2>4, <2>5 DEF Document, Readiness
    <2>7. document'.content = IF publishes
                              THEN LoadSnapshot(rows, head) \cup payload
                              ELSE IF projects THEN LoadSnapshot(rows, head)
                              ELSE document.content
      BY <2>1, <2>3 DEF Document
    <2>8. r = [generation |-> CurrentGeneration(basis),
               seq |-> basis[CurrentGeneration(basis)].headSeq + 1,
               key |-> key, sender |-> sender, payload |-> payload]
      BY <1>4, <2>2
    <2>9. r.seq = head + 1
      BY <1>4
    <2>10. projected = IF publishes THEN head + 1 ELSE basis[g].projectedSeq
      BY <2>9
    <2> HIDE DEF projected
    <2>11. generations' = [basis EXCEPT ![g] =
                             [@ EXCEPT !.headSeq = r.seq, !.projectedSeq = projected]]
      <3>1. generations' = [basis EXCEPT ![g] =
              [basis[g] EXCEPT !.headSeq = head + 1,
                               !.projectedSeq = IF publishes THEN head + 1
                                                ELSE basis[g].projectedSeq]]
        BY <1>3, <2>1, <2>2
      <3> QED BY <2>9, <2>10, <3>1
    <2> QED BY <1>3, <2>1, <2>2, <2>6, <2>7, <2>8, <2>9, <2>11
  <1> HIDE DEF rows, rotates, basis, head, projects, projected
  <1>6. /\ r \in Receipt
        /\ r.key = key
        /\ r.sender = sender
        /\ r.generation = g
        /\ r.seq = head + 1
        /\ r.payload = payload
        /\ AnswerFor(r, sender) \in Answer
    BY <1>1, <1>3, <1>4 DEF Receipt, AnswerFor, Answer
  <1>7. /\ Consistent(generations', updates', EnsuredBootstrap)
        /\ Len(generations') = g
        /\ \A h \in 1 .. g : basis[h].headSeq <= generations'[h].headSeq
        /\ generations'[g].headSeq = r.seq
        /\ generations'[g].projectedSeq = projected
        /\ generations'[g].checkpointSeq = basis[g].checkpointSeq
        /\ generations'[g].checkpoint = basis[g].checkpoint
    <2>1. projected \in {basis[Len(basis)].projectedSeq, r.seq}
      BY <1>6 DEF projected
    <2>2. Len(basis) = g /\ g \in DOMAIN basis /\ basis[g] \in Generation
      BY <1>3
    <2> HIDE DEF projected, g
    <2>3. PICK last : last = [basis[g] EXCEPT !.headSeq = r.seq,
                                              !.projectedSeq = projected]
      OBVIOUS
    <2>4. generations' = [basis EXCEPT ![g] = last]
      BY <1>5, <2>3
    <2>5. r.seq \in Nat /\ projected \in Nat
      BY <1>1, <1>6, <2>1, <2>2 DEF Generation
    <2>6. /\ last \in Generation
          /\ last.isCurrent = basis[g].isCurrent
          /\ last.headSeq = r.seq
          /\ last.projectedSeq = projected
          /\ last.checkpointSeq = basis[g].checkpointSeq
          /\ last.checkpoint = basis[g].checkpoint
      BY <2>2, <2>3, <2>5 DEF Generation
    <2>7. /\ TypeOK
          /\ Consistent(basis, updates, EnsuredBootstrap)
          /\ r \in Receipt
          /\ r.generation = Len(basis)
          /\ r.seq = basis[Len(basis)].headSeq + 1
          /\ last \in Generation
          /\ last.isCurrent = basis[Len(basis)].isCurrent
          /\ last.headSeq = r.seq
          /\ last.projectedSeq \in {basis[Len(basis)].projectedSeq, r.seq}
          /\ last.checkpointSeq = basis[Len(basis)].checkpointSeq
          /\ last.checkpoint = basis[Len(basis)].checkpoint
      BY <1>2, <1>6, <2>1, <2>2, <2>6 DEF IInv
    <2>8. LET new == [basis EXCEPT ![Len(basis)] = last] IN
          /\ Consistent(new, updates \cup {r}, EnsuredBootstrap)
          /\ Len(new) = Len(basis)
          /\ \A h \in 1 .. Len(basis) : basis[h].headSeq <= new[h].headSeq
          /\ new[Len(basis)] = last
      BY ONLY <2>7, ExtendConsistent
    <2> QED BY <1>5, <2>2, <2>4, <2>6, <2>8
  <1>8. TypeOK'
    <2>1. generations' \in Seq(Generation)
      BY <1>7 DEF Consistent, Chained
    <2>2. updates' \subseteq Receipt /\ answers' \subseteq Answer
      BY <1>5, <1>6 DEF IInv, TypeOK
    <2>3. approvals' \in Seq(Approval)
      <3>1. approvals \in Seq(Approval) /\ head + 1 \in Nat
        BY <1>1 DEF IInv, TypeOK
      <3>2. \A i \in DOMAIN approvals : approvals[i] \in Approval
        BY <3>1
      <3>3. \A a \in Approval : [a EXCEPT !.invalidatedSeq = head + 1] \in Approval
        BY <3>1, InvalidatedApproval
      <3>4. \A i \in DOMAIN approvals :
              (IF Active(approvals[i])
               THEN [approvals[i] EXCEPT !.invalidatedSeq = head + 1]
               ELSE approvals[i]) \in Approval
        BY <3>2, <3>3
      <3>5. approvals' \in [1 .. Len(approvals) -> Approval]
        BY <1>5, <3>1, <3>4
      <3> QED BY <3>1, <3>5
    <2> QED BY <1>1, <1>5, <2>1, <2>2, <2>3 DEF IInv, TypeOK
  <1>9. /\ StoreConsistent' /\ ProjectionExact'
        /\ document'.content =
             IF generations'[g].projectedSeq = rows[Len(rows)].projectedSeq
             THEN document.content
             ELSE Through(bootstrap', updates', generations'[g].projectedSeq)
    <2> DEFINE recorded == rows[Len(rows)].projectedSeq
    <2>1. /\ recorded \in Nat /\ recorded <= head
          /\ basis[g].projectedSeq \in Nat /\ basis[g].projectedSeq <= head
      <3>1. Len(rows) \in DOMAIN rows /\ rows[Len(rows)] \in Generation
        BY <1>1
      <3>2. recorded \in Nat /\ recorded <= head
        BY <1>1, <3>1 DEF Generation, Consistent, Fenced
      <3> QED BY <1>1, <1>2, <3>2
    <2>2. PICK seq \in recorded .. head :
            document.content = Through(bootstrap', updates, seq)
      BY <1>1, EnsuredProjection DEF rows, head, ShownBy
    <2> HIDE DEF recorded
    <2>3. \A n \in 0 .. head :
            Through(bootstrap', updates', n) = Through(bootstrap', updates, n)
      <3> SUFFICES ASSUME NEW n \in 0 .. head
                   PROVE  Through(bootstrap', updates \cup {r}, n)
                            = Through(bootstrap', updates, n)
        BY <1>5
      <3>1. n \in Nat /\ r.seq \in Nat /\ n < r.seq
        BY <1>1, <1>6
      <3> QED BY <3>1, ThroughBelow
    <2>4. document'.content =
            IF generations'[g].projectedSeq = recorded THEN document.content
            ELSE Through(bootstrap', updates', generations'[g].projectedSeq)
      <3>1. CASE publishes
        <4>1. \A u \in updates : u.seq \in Nat /\ u.seq <= head
          BY <1>1, NoneBeyond DEF IInv
        <4>2. head \in Nat /\ r.seq = head + 1
          BY <1>1, <1>6
        <4>3. {v \in updates \cup {r} : v.seq <= head + 1} = updates \cup {r}
          BY <4>1, <4>2
        <4>4. {v \in updates : v.seq <= head} = updates
          BY <4>1, <4>2
        <4>5. Through(bootstrap', updates', head + 1)
                = Through(bootstrap', updates, head) \cup payload
          BY <1>5, <1>6, <4>3, <4>4 DEF Through
        <4>6. document'.content = Through(bootstrap', updates', head + 1)
          BY <1>1, <1>5, <3>1, <4>5
        <4>7. generations'[g].projectedSeq = head + 1 /\ head + 1 # recorded
          BY <1>7, <2>1, <3>1, <4>2 DEF projected
        <4> QED BY <4>6, <4>7
      <3>2. CASE ~publishes /\ projects
        <4>1. generations'[g].projectedSeq = head
          BY <1>2, <1>7, <3>2 DEF projected, projects
        <4>2. document'.content = Through(bootstrap', updates', head)
          <5>1. head \in 0 .. head
            BY <1>1
          <5>2. document'.content = LoadSnapshot(rows, head)
            BY <1>5, <3>2
          <5> QED BY <1>1, <2>3, <5>1, <5>2
        <4>3. recorded # head
          BY <1>1, <2>1, <3>2 DEF projects, ProjectsBeforeRotation, recorded
        <4> QED BY <4>1, <4>2, <4>3
      <3>3. CASE ~publishes /\ ~projects
        <4>1. document'.content = document.content
          BY <1>5, <3>3
        <4>2. rotates => recorded = head
          BY <1>1, <2>1, <3>3 DEF projects, ProjectsBeforeRotation, recorded
        <4>3. generations'[g].projectedSeq = recorded
          BY <1>2, <1>7, <3>3, <4>2 DEF projected, recorded
        <4> QED BY <4>1, <4>3
      <3> QED BY <3>1, <3>2, <3>3
    <2>5. ShownBy(document'.content, generations', updates', bootstrap')
      <3>1. /\ generations'[g].projectedSeq \in Nat
            /\ generations'[g].projectedSeq <= generations'[g].headSeq
            /\ generations'[g].headSeq = head + 1
        <4>1. projected \in Nat /\ projected <= head + 1
          BY <1>1, <2>1 DEF projected
        <4> QED BY <1>1, <1>6, <1>7, <4>1
      <3>2. CASE generations'[g].projectedSeq = recorded
        <4>1. document'.content = Through(bootstrap', updates', seq)
          BY <1>1, <2>1, <2>2, <2>3, <2>4, <3>2
        <4>2. seq \in generations'[g].projectedSeq .. generations'[g].headSeq
          BY <1>1, <2>1, <2>2, <3>1, <3>2
        <4> QED BY <1>7, <4>1, <4>2 DEF ShownBy
      <3>3. CASE generations'[g].projectedSeq # recorded
        <4>1. generations'[g].projectedSeq
                \in generations'[g].projectedSeq .. generations'[g].headSeq
          BY <1>1, <3>1
        <4> QED BY <1>7, <2>4, <3>3, <4>1 DEF ShownBy
      <3> QED BY <3>2, <3>3
    <2>6. StoreConsistent' /\ ProjectionExact'
      BY <1>1, <1>7, <1>8, <2>5, Reestablished
    <2> QED BY <2>4, <2>6 DEF recorded
  <1>10. Grown
    <2>1. Chained(generations')
      BY <1>7 DEF Consistent
    <2>2. DOMAIN generations' = 1 .. g
      BY <1>7, <2>1, CurrentIsLast
    <2>3. \A h \in 1 .. Len(rows) :
            h \in DOMAIN generations' /\ rows[h].headSeq <= generations'[h].headSeq
      <3>1. Len(rows) <= g
        BY <1>2
      <3> HIDE DEF g
      <3>2. \A h \in 1 .. Len(rows) : h \in 1 .. g
        BY <1>1, <1>3, <3>1
      <3> QED BY <1>2, <1>7, <2>2, <3>2
    <2> QED BY <2>3, EnsuredGrown DEF rows
  <1>11. ReceiptFenced(r)'
    <2>1. Chained(generations')
      BY <1>7 DEF Consistent
    <2>2. g \in DOMAIN generations'
      BY <1>3, <1>7, <2>1, CurrentIsLast
    <2>3. r.seq <= r.seq
      BY <1>1, <1>6
    <2> QED BY <1>6, <1>7, <2>2, <2>3 DEF ReceiptFenced
  <1>12. KeysSpentOnce' /\ ReceiptsFenced'
    BY <1>5, <1>6, <1>8, <1>10, <1>11, ReceiptAdded
  <1>13. ChangeStored(key, sender, payload, publishes)
    <2>1. \/ /\ rotates
             /\ generations'[g].checkpointSeq = head
             /\ generations'[g].checkpoint = LoadSnapshot(rows, head)
          \/ /\ ~rotates
             /\ g = Len(rows)
             /\ generations'[g].checkpointSeq = rows[Len(rows)].checkpointSeq
             /\ generations'[g].checkpoint = rows[Len(rows)].checkpoint
      BY <1>2, <1>7
    <2>2. generations'[g].projectedSeq
            = IF publishes THEN r.seq
              ELSE IF rotates THEN head ELSE rows[Len(rows)].projectedSeq
      BY <1>2, <1>6, <1>7 DEF projected
    <2> HIDE DEF g
    <2> QED BY <1>5, <1>6, <1>7, <1>9, <2>1, <2>2 DEF ChangeStored, rows, head, rotates
  <1> QED BY <1>8, <1>9, <1>12, <1>13 DEF IInv

\* Every append that is not a retry.
LEMMA AppendStep ==
    ASSUME IInv, NEW generation, NEW key \in Keys, NEW sender \in Senders,
           NEW payload \in SUBSET Ops, NEW publishes \in BOOLEAN,
           AppendUpdate(generation, key, sender, payload, publishes)
    PROVE  IInv'
  <1>1. /\ EnsureInitialized
        /\ FindIdempotentReceipt(key) = {}
        /\ UNCHANGED epochs
        /\ \/ CommitNoopAppend(EnsuredGenerations, key, sender, payload, publishes)
           \/ CommitChangedAppend(EnsuredGenerations, key, sender, payload, publishes)
    BY DEF AppendUpdate
  <1>2. CASE CommitNoopAppend(EnsuredGenerations, key, sender, payload, publishes)
    BY <1>1, <1>2, NoopStep
  <1>3. CASE CommitChangedAppend(EnsuredGenerations, key, sender, payload, publishes)
    BY <1>1, <1>3, ChangedStep
  <1> QED BY <1>1, <1>2, <1>3

\* A step that only touches the documents row and the answers.
LEMMA UnchangedStore ==
    ASSUME IInv, TypeOK', UNCHANGED storeVars,
           \/ UNCHANGED answers
           \/ \E r \in updates \cup noopReceipts :
                answers' = answers \cup {AnswerFor(r, r.sender)},
           UNCHANGED document \/ ~Initialized
    PROVE  IInv'
  <1>1. /\ generations' = generations
        /\ updates' = updates
        /\ noopReceipts' = noopReceipts
        /\ bootstrap' = bootstrap
    BY DEF storeVars
  <1>2. Grown
    <2>1. generations \in Seq(Generation)
      BY DEF IInv, TypeOK
    <2>2. \A g \in DOMAIN generations : generations[g] \in Generation
      BY <2>1
    <2> QED BY <1>1, <2>2 DEF Grown, Generation
  <1>3. KeysSpentOnce' /\ ReceiptsFenced'
    BY <1>1, <1>2, ReceiptsKept
  <1>4. StoreConsistent'
    <2>1. ~Initialized => answers' = answers
      BY DEF IInv, StoreConsistent
    <2> QED BY <1>1, <2>1 DEF IInv, StoreConsistent, Initialized
  <1>5. ProjectionExact'
    BY <1>1 DEF IInv, ProjectionExact, Initialized, HistoryThrough,
                CurrentGeneration
  <1> QED BY <1>3, <1>4, <1>5 DEF IInv

\* A retry only answers, and only the sender of the stored row.
LEMMA ReplayStep ==
    ASSUME IInv, NEW key, NEW sender, NEW r \in FindIdempotentReceipt(key),
           r.sender = sender, MayAnswer(r, sender),
           UNCHANGED <<document, storeVars, approvals, epochs, proposals>>
    PROVE  IInv'
  <1>1. r \in updates \cup noopReceipts /\ r \in Receipt
    BY DEF FindIdempotentReceipt, IInv, TypeOK
  <1>2. answers' = answers \/ answers' = answers \cup {AnswerFor(r, r.sender)}
    BY DEF MayAnswer
  <1>3. AnswerFor(r, r.sender) \in Answer
    BY <1>1 DEF AnswerFor, Answer, Receipt
  <1>4. TypeOK'
    BY <1>2, <1>3 DEF IInv, TypeOK, storeVars
  <1> QED BY <1>1, <1>2, <1>4, UnchangedStore

\* Autosave reaches the documents row only before collaboration.
LEMMA SaveStep ==
    ASSUME IInv, NEW expected, NEW content \in SUBSET Ops,
           SaveDocumentDraft(expected, content)
    PROVE  IInv'
  <1>1. document' \in Document
    <2>1. document \in Document /\ document.revision = expected
      BY DEF SaveDocumentDraft, IInv, TypeOK
    <2>2. document' = [document EXCEPT !.content = content,
                                       !.revision = expected + 1]
      BY DEF SaveDocumentDraft
    <2>3. expected + 1 \in Nat
      BY <2>1 DEF Document
    <2> QED BY <2>1, <2>2, <2>3 DEF Document
  <1>2. TypeOK'
    BY <1>1 DEF SaveDocumentDraft, IInv, TypeOK, storeVars
  <1> QED BY <1>2, UnchangedStore DEF SaveDocumentDraft

\* Checkpoint and projection replace the current row and publish its state.
LEMMA PublishStep ==
    ASSUME IInv, Initialized, TypeOK', NEW row \in Generation,
           generations' = [generations EXCEPT ![Len(generations)] = row],
           UNCHANGED <<updates, noopReceipts, answers, bootstrap>>,
           Consistent(generations', updates, bootstrap),
           generations'[Len(generations)] = row,
           Len(generations') = Len(generations),
           row.headSeq = generations[Len(generations)].headSeq,
           row.projectedSeq <= row.headSeq,
           document'.content = Through(bootstrap, updates, row.projectedSeq)
    PROVE  IInv'
  <1>1. StoreConsistent' /\ ProjectionExact'
    <2>1. row.projectedSeq \in row.projectedSeq .. row.headSeq
      BY DEF Generation
    <2>2. ShownBy(document'.content, generations', updates, bootstrap)
      BY <2>1 DEF ShownBy
    <2> QED BY <2>2, Reestablished
  <1>2. Grown
    <2>1. Chained(generations) /\ Chained(generations')
      BY DEF IInv, StoreConsistent, Consistent
    <2>2. /\ DOMAIN generations = 1 .. Len(generations)
          /\ DOMAIN generations' = 1 .. Len(generations)
          /\ \A g \in 1 .. Len(generations) : generations[g] \in Generation
      BY <2>1, CurrentIsLast
    <2>3. \A g \in 1 .. Len(generations) :
            generations'[g] = IF g = Len(generations) THEN row ELSE generations[g]
      BY <2>2
    <2>4. \A g \in 1 .. Len(generations) :
            generations[g].headSeq \in Nat
              /\ generations'[g].headSeq = generations[g].headSeq
      BY <2>2, <2>3 DEF Generation
    <2>5. \A g \in 1 .. Len(generations) :
            generations[g].headSeq <= generations'[g].headSeq
      <3> SUFFICES ASSUME NEW g \in 1 .. Len(generations)
                   PROVE  generations[g].headSeq <= generations'[g].headSeq
        OBVIOUS
      <3>1. /\ generations[g].headSeq \in Nat
            /\ generations'[g].headSeq = generations[g].headSeq
        BY <2>4
      <3> QED BY ONLY <3>1
    <2>6. \A g \in DOMAIN generations : g \in DOMAIN generations'
      BY <2>2
    <2>7. \A g \in DOMAIN generations :
            generations[g].headSeq <= generations'[g].headSeq
      BY <2>2, <2>5
    <2> QED BY <2>6, <2>7 DEF Grown
  <1>3. KeysSpentOnce' /\ ReceiptsFenced'
    BY <1>2, ReceiptsKept
  <1> QED BY <1>1, <1>3 DEF IInv

\* A checkpoint covers the whole loaded document and publishes it.
LEMMA CheckpointStep ==
    ASSUME IInv, NEW generation, Checkpoint(generation)
    PROVE  IInv'
  <1> DEFINE g == Len(generations)
             old == generations[g]
             state == LoadSnapshot(generations, old.headSeq)
  <1>1. /\ Initialized
        /\ Consistent(generations, updates, bootstrap)
    BY DEF Checkpoint, IInv, StoreConsistent
  <1>2. /\ g \in Nat \ {0}
        /\ DOMAIN generations = 1 .. g
        /\ CurrentGeneration(generations) = g
        /\ g \in DOMAIN generations
        /\ old \in Generation
        /\ generations \in Seq(Generation)
    BY <1>1, CurrentIsLast DEF Consistent, Chained
  <1>3. PICK row : row = [old EXCEPT !.checkpoint = state,
                                     !.checkpointSeq = old.headSeq,
                                     !.projectedSeq = old.headSeq]
    OBVIOUS
  <1>4. state \in SUBSET Ops
    BY <1>1, LoadedType DEF IInv, Consistent
  <1>5. /\ generations' = [generations EXCEPT ![g] = row]
        /\ UNCHANGED <<updates, noopReceipts, approvals, epochs, proposals,
                       answers, bootstrap>>
        /\ \/ old.projectedSeq < old.headSeq /\ WriteMaterializedDocument(state)
           \/ ~(old.projectedSeq < old.headSeq) /\ UNCHANGED document
    BY <1>2, <1>3 DEF Checkpoint
  <1> HIDE DEF state
  <1>6. /\ row \in Generation
        /\ row.isCurrent = old.isCurrent
        /\ row.headSeq = old.headSeq
        /\ row.checkpointSeq = old.headSeq
        /\ row.projectedSeq = old.headSeq
        /\ row.checkpoint = state
    BY <1>2, <1>3, <1>4 DEF Generation
  <1>7. /\ old.headSeq \in Nat
        /\ old.projectedSeq \in Nat
        /\ old.checkpointSeq \in Nat
        /\ old.checkpointSeq <= old.projectedSeq
        /\ old.projectedSeq <= old.headSeq
    BY <1>1, <1>2 DEF Generation, Consistent, Fenced
  <1>8. state = Through(bootstrap, updates, old.headSeq)
    <2>1. old.headSeq \in old.checkpointSeq .. old.headSeq
      BY <1>7
    <2> QED BY <1>1, <2>1, LoadExact DEF IInv, state
  <1> HIDE DEF g, old
  <1>9. /\ Consistent(generations', updates, bootstrap)
        /\ Len(generations') = g
        /\ generations'[g] = row
    <2>1. /\ old.checkpointSeq <= row.checkpointSeq
          /\ row.checkpointSeq <= row.projectedSeq
          /\ row.projectedSeq <= row.headSeq
          /\ row.checkpoint = Through(bootstrap, updates, row.checkpointSeq)
      BY <1>6, <1>7, <1>8
    <2>2. /\ old.checkpointSeq = generations[Len(generations)].checkpointSeq
          /\ old.headSeq = generations[Len(generations)].headSeq
          /\ old.isCurrent = generations[Len(generations)].isCurrent
          /\ g = Len(generations)
      BY DEF old, g
    <2>3. TypeOK
      BY DEF IInv
    <2>4. /\ Consistent([generations EXCEPT ![Len(generations)] = row], updates, bootstrap)
          /\ Len([generations EXCEPT ![Len(generations)] = row]) = Len(generations)
          /\ [generations EXCEPT ![Len(generations)] = row][Len(generations)] = row
      <3>1. /\ row.isCurrent = generations[Len(generations)].isCurrent
            /\ row.headSeq = generations[Len(generations)].headSeq
            /\ generations[Len(generations)].checkpointSeq <= row.checkpointSeq
            /\ row.checkpointSeq <= row.projectedSeq
            /\ row.projectedSeq <= row.headSeq
            /\ row.checkpoint = Through(bootstrap, updates, row.checkpointSeq)
            /\ row \in Generation
            /\ TypeOK
            /\ Consistent(generations, updates, bootstrap)
        BY <1>1, <1>6, <2>1, <2>2, <2>3
      <3> QED BY ONLY <3>1, PublishConsistent
    <2> QED BY <1>5, <2>2, <2>4
  <1>10. /\ document' \in Document
         /\ document'.content = Through(bootstrap, updates, old.headSeq)
    <2>1. document \in Document
      BY DEF IInv, TypeOK
    <2>2. CASE old.projectedSeq < old.headSeq /\ WriteMaterializedDocument(state)
      <3>1. document' = [document EXCEPT !.content = state, !.revision = @ + 1]
        BY <2>2 DEF WriteMaterializedDocument
      <3>2. document.revision + 1 \in Nat
        BY <2>1 DEF Document
      <3>3. document' = [document EXCEPT !.content = state,
                                         !.revision = document.revision + 1]
        BY <3>1
      <3>4. document' \in Document
        BY <1>4, <2>1, <3>2, <3>3 DEF Document
      <3>5. document'.content = state
        BY <2>1, <3>3 DEF Document
      <3> QED BY <1>8, <3>4, <3>5
    <2>3. CASE ~(old.projectedSeq < old.headSeq) /\ UNCHANGED document
      <3>1. old.projectedSeq = old.headSeq
        BY <1>7, <2>3
      <3>2. \E seq \in old.projectedSeq .. old.headSeq :
              document.content = Through(bootstrap, updates, seq)
        BY <1>1, <1>2 DEF IInv, ProjectionExact, HeadSeq, HistoryThrough, Through,
                          old, g
      <3> QED BY <1>7, <2>1, <2>3, <3>1, <3>2
    <2> QED BY <1>5, <2>2, <2>3
  <1>11. TypeOK'
    <2>1. generations' \in Seq(Generation)
      BY <1>9 DEF Consistent, Chained
    <2> QED BY <1>5, <1>10, <2>1 DEF IInv, TypeOK
  <1>12. row.projectedSeq <= row.headSeq
    BY <1>6, <1>7
  <1> QED BY <1>1, <1>5, <1>6, <1>9, <1>10, <1>11, <1>12, PublishStep DEF g, old

\* A projection publishes a prefix that the tail reaches.
LEMMA ProjectStep ==
    ASSUME IInv, NEW n \in Nat, Project(n)
    PROVE  IInv'
  <1> DEFINE g == Len(generations)
             old == generations[g]
             state == LoadSnapshot(generations, n)
  <1>1. /\ Initialized
        /\ Consistent(generations, updates, bootstrap)
    BY DEF Project, IInv, StoreConsistent
  <1>2. /\ g \in Nat \ {0}
        /\ DOMAIN generations = 1 .. g
        /\ CurrentGeneration(generations) = g
        /\ g \in DOMAIN generations
        /\ old \in Generation
        /\ generations \in Seq(Generation)
    BY <1>1, CurrentIsLast DEF Consistent, Chained
  <1>3. PICK row : row = [old EXCEPT !.projectedSeq = n]
    OBVIOUS
  <1>4. state \in SUBSET Ops
    BY <1>1, LoadedType DEF IInv, Consistent
  <1>5. /\ generations' = [generations EXCEPT ![g] = row]
        /\ UNCHANGED <<updates, noopReceipts, approvals, epochs, proposals,
                       answers, bootstrap>>
        /\ WriteMaterializedDocument(state)
        /\ n \in old.checkpointSeq .. old.headSeq
    BY <1>2, <1>3 DEF Project, Loadable
  <1> HIDE DEF state
  <1>6. /\ row \in Generation
        /\ row.isCurrent = old.isCurrent
        /\ row.headSeq = old.headSeq
        /\ row.checkpointSeq = old.checkpointSeq
        /\ row.projectedSeq = n
        /\ row.checkpoint = old.checkpoint
    BY <1>2, <1>3 DEF Generation
  <1>7. state = Through(bootstrap, updates, n)
    BY <1>1, <1>5, LoadExact DEF IInv, state
  <1>8. old.checkpoint = Through(bootstrap, updates, old.checkpointSeq)
    BY <1>1, <1>2 DEF Consistent, Checkpointed
  <1>9. /\ old.checkpointSeq \in Nat
        /\ old.checkpointSeq <= n
        /\ n <= old.headSeq
        /\ old.checkpointSeq <= old.checkpointSeq
    BY <1>2, <1>5 DEF Generation
  <1> HIDE DEF g, old
  <1>10. /\ Consistent(generations', updates, bootstrap)
         /\ Len(generations') = g
         /\ generations'[g] = row
    <2>1. /\ old.checkpointSeq = generations[Len(generations)].checkpointSeq
          /\ old.headSeq = generations[Len(generations)].headSeq
          /\ old.isCurrent = generations[Len(generations)].isCurrent
          /\ g = Len(generations)
      BY DEF old, g
    <2>2. TypeOK
      BY DEF IInv
    <2>3. /\ old.checkpointSeq <= row.checkpointSeq
          /\ row.checkpointSeq <= row.projectedSeq
          /\ row.projectedSeq <= row.headSeq
          /\ row.checkpoint = Through(bootstrap, updates, row.checkpointSeq)
      BY <1>6, <1>8, <1>9
    <2>4. /\ Consistent([generations EXCEPT ![Len(generations)] = row], updates, bootstrap)
          /\ Len([generations EXCEPT ![Len(generations)] = row]) = Len(generations)
          /\ [generations EXCEPT ![Len(generations)] = row][Len(generations)] = row
      <3>1. /\ row.isCurrent = generations[Len(generations)].isCurrent
            /\ row.headSeq = generations[Len(generations)].headSeq
            /\ generations[Len(generations)].checkpointSeq <= row.checkpointSeq
            /\ row.checkpointSeq <= row.projectedSeq
            /\ row.projectedSeq <= row.headSeq
            /\ row.checkpoint = Through(bootstrap, updates, row.checkpointSeq)
            /\ row \in Generation
            /\ TypeOK
            /\ Consistent(generations, updates, bootstrap)
        BY <1>1, <1>6, <2>1, <2>2, <2>3
      <3> QED BY ONLY <3>1, PublishConsistent
    <2> QED BY <1>5, <2>1, <2>4
  <1>11. /\ document' \in Document
         /\ document'.content = Through(bootstrap, updates, n)
    <2>1. document \in Document
      BY DEF IInv, TypeOK
    <2>2. document.revision + 1 \in Nat
      BY <2>1 DEF Document
    <2>3. document' = [document EXCEPT !.content = state,
                                       !.revision = document.revision + 1]
      BY <1>5 DEF WriteMaterializedDocument
    <2>4. document' \in Document
      BY <1>4, <2>1, <2>2, <2>3 DEF Document
    <2>5. document'.content = state
      BY <2>1, <2>3 DEF Document
    <2> QED BY <1>7, <2>4, <2>5
  <1>12. TypeOK'
    <2>1. generations' \in Seq(Generation)
      BY <1>10 DEF Consistent, Chained
    <2> QED BY <1>5, <1>11, <2>1 DEF IInv, TypeOK
  <1>13. row.projectedSeq <= row.headSeq
    BY <1>6, <1>9
  <1> QED BY <1>1, <1>5, <1>6, <1>10, <1>11, <1>12, <1>13, PublishStep DEF g, old

-----------------------------------------------------------------------------
(* The theorems.                                                           *)

\* A retry of a stored update, whoever sends it.
LEMMA RetryStep ==
    ASSUME IInv, NEW key, NEW sender, FindDurableUpdateReplay(key, sender)
    PROVE  IInv'
  BY ReplayStep DEF FindDurableUpdateReplay, Replay

\* A retry that also compares the payload is a retry.
LEMMA ClientStep ==
    ASSUME IInv, NEW p \in Principals, NEW g, NEW e, NEW k \in Keys,
           NEW ops \in Payloads,
           AppendAuthorizedClientUpdate(p, g, e, k, ops)
    PROVE  IInv'
  <1> DEFINE sender == [origin |-> "client", principal |-> p]
  <1>1. sender \in Senders /\ ops \in SUBSET Ops
    BY OpsAssumption DEF AppendAuthorizedClientUpdate, Senders
  <1>2. CASE Replay(k, sender, {ops})
    BY <1>2, ReplayStep DEF Replay
  <1>3. CASE AppendUpdate(g, k, sender, ops, FALSE)
    BY <1>1, <1>3, AppendStep
  <1> QED BY <1>2, <1>3 DEF AppendAuthorizedClientUpdate

LEMMA CommandStep ==
    ASSUME IInv, NEW o \in Origins, NEW p \in Principals, NEW g, NEW k \in Keys,
           NEW ops \in Payloads,
           \/ AppendValidatedUpdate(o, p, g, k, ops)
           \/ CommitServerCommand(o, p, g, k, ops)
    PROVE  IInv'
  <1> DEFINE sender == [origin |-> o, principal |-> p]
  <1>1. sender \in Senders /\ ops \in SUBSET Ops
    BY OpsAssumption DEF Senders
  <1>2. CASE Replay(k, sender, {ops}) \/ Replay(k, sender, SUBSET Ops)
    BY <1>2, ReplayStep DEF Replay
  <1>3. CASE AppendUpdate(g, k, sender, ops, FALSE) \/ AppendUpdate(g, k, sender, ops, TRUE)
    BY <1>1, <1>3, AppendStep
  <1> QED BY <1>2, <1>3 DEF AppendValidatedUpdate, CommitServerCommand

\* The document before collaboration satisfies the invariant.
LEMMA InitInvariant == Init => IInv
  <1> SUFFICES ASSUME Init PROVE IInv
    OBVIOUS
  <1>1. document \in Document
    BY DEF Init, Document, Readiness
  <1>2. generations \in Seq(Generation) /\ approvals \in Seq(Approval)
    BY DEF Init
  <1>3. TypeOK
    BY <1>1, <1>2 DEF Init, TypeOK
  <1>4. StoreConsistent /\ ProjectionExact
    BY DEF Init, StoreConsistent, ProjectionExact, Initialized
  <1>5. KeysSpentOnce /\ ReceiptsFenced
    BY DEF Init, KeysSpentOnce, ReceiptsFenced
  <1> QED BY <1>3, <1>4, <1>5 DEF IInv

\* Every operation of the store preserves the invariant.
LEMMA NextInvariant == IInv /\ [Next]_vars => IInv'
  <1> SUFFICES ASSUME IInv, [Next]_vars PROVE IInv'
    OBVIOUS
  <1>1. CASE Initialize
    BY <1>1, InitializeStep
  <1>2. CASE ClientNext
    BY <1>2, ClientStep DEF ClientNext
  <1>3. CASE CommandNext
    BY <1>3, CommandStep DEF CommandNext
  <1>4. CASE \E k \in Keys, s \in Senders : FindDurableUpdateReplay(k, s)
    BY <1>4, RetryStep
  <1>5. CASE \E g \in DOMAIN EnsuredGenerations : Checkpoint(g)
    BY <1>5, CheckpointStep
  <1>6. CASE \E seq \in 1 .. MaxSeq : Project(seq)
    <2>1. PICK seq \in 1 .. MaxSeq : Project(seq)
      BY <1>6
    <2>2. seq \in Nat
      OBVIOUS
    <2> QED BY <2>1, <2>2, ProjectStep
  <1>7. CASE \E content \in Payloads :
               document.revision < MaxRevision
                 /\ SaveDocumentDraft(document.revision, content)
    BY <1>7, SaveStep, OpsAssumption
  <1>8. CASE UNCHANGED vars
    <2>1. /\ UNCHANGED storeVars
          /\ UNCHANGED answers
          /\ UNCHANGED document
          /\ TypeOK'
      BY <1>8 DEF vars, storeVars, IInv, TypeOK
    <2> QED BY <2>1, UnchangedStore
  <1> QED BY <1>1, <1>2, <1>3, <1>4, <1>5, <1>6, <1>7, <1>8 DEF Next

\* The inductive invariant: the rows form a fenced chain, every update sits at
\* its own number inside its generation, every checkpoint is the history up to
\* its sequence number, and the documents row shows a prefix of the history that
\* is not shorter than the recorded one.
THEOREM Invariance == Spec => []IInv
  BY InitInvariant, NextInvariant, PTL DEF Spec

\* Every row the store ever holds has its column types.
THEOREM TypeCorrect == Spec => []TypeOK
  <1>1. IInv => TypeOK
    BY DEF IInv
  <1> QED BY <1>1, Invariance, PTL

\* What consistent rows say about the document.
LEMMA Initialization ==
    ASSUME IInv, Initialized
    PROVE  /\ Consistent(generations, updates, bootstrap)
           /\ Len(generations) \in Nat \ {0}
           /\ DOMAIN generations = 1 .. Len(generations)
           /\ CurrentGeneration(generations) = Len(generations)
           /\ CurrentGenerations(generations) = {Len(generations)}
           /\ HeadSeq(generations) = generations[Len(generations)].headSeq
           /\ generations[Len(generations)] \in Generation
  <1>1. Consistent(generations, updates, bootstrap)
    BY DEF IInv, StoreConsistent
  <1>2. /\ Len(generations) \in Nat \ {0}
        /\ DOMAIN generations = 1 .. Len(generations)
        /\ CurrentGeneration(generations) = Len(generations)
        /\ CurrentGenerations(generations) = {Len(generations)}
        /\ \A g \in 1 .. Len(generations) : generations[g] \in Generation
    BY <1>1, CurrentIsLast DEF Consistent
  <1>3. Len(generations) \in 1 .. Len(generations)
    BY <1>2
  <1> QED BY <1>1, <1>2, <1>3 DEF HeadSeq

\* Only the newest generation is current, the retired ones are fully projected,
\* and each starts where its predecessor ended.
LEMMA ChainWhole == IInv => GenerationChain
  <1>1. CASE Initialized
    BY <1>1, Initialization DEF Consistent, Chained, Fenced, GenerationChain
  <1>2. CASE ~Initialized
    BY <1>2 DEF Initialized, GenerationChain
  <1> QED BY <1>1, <1>2

\* Checkpoints and projections replace the current row by one with its head.
LEMMA CurrentRowReplaced ==
    ASSUME IInv, Initialized, NEW row \in Generation,
           row.headSeq = generations[Len(generations)].headSeq,
           generations' = [generations EXCEPT ![Len(generations)] = row]
    PROVE  /\ Len(generations') = Len(generations)
           /\ generations'[Len(generations)] = row
           /\ generations'[Len(generations)].headSeq
                = generations[Len(generations)].headSeq
  <1>1. /\ generations \in Seq(Generation)
        /\ Len(generations) \in 1 .. Len(generations)
    BY Initialization DEF IInv, TypeOK
  <1> QED BY <1>1, ReplaceAt

LEMMA CheckpointRow ==
    ASSUME IInv, NEW g, Checkpoint(g)
    PROVE  LET last == generations[Len(generations)]
               row == [last EXCEPT
                         !.checkpoint = LoadSnapshot(generations, last.headSeq),
                         !.checkpointSeq = last.headSeq,
                         !.projectedSeq = last.headSeq]
           IN  /\ Initialized
               /\ row \in Generation
               /\ row.headSeq = last.headSeq
               /\ row.projectedSeq = last.headSeq
               /\ row.checkpointSeq = last.headSeq
               /\ row.checkpoint = LoadSnapshot(generations, last.headSeq)
               /\ Bytes(row.checkpoint) <= CheckpointLimit
               /\ generations' = [generations EXCEPT ![Len(generations)] = row]
               /\ IF last.projectedSeq < last.headSeq
                  THEN WriteMaterializedDocument(LoadSnapshot(generations, last.headSeq))
                  ELSE UNCHANGED document
               /\ UNCHANGED <<updates, noopReceipts, approvals, bootstrap>>
  <1>1. /\ Initialized
        /\ Consistent(generations, updates, bootstrap)
        /\ CurrentGeneration(generations) = Len(generations)
        /\ generations[Len(generations)] \in Generation
    BY Initialization DEF Checkpoint
  <1> DEFINE last == generations[Len(generations)]
             state == LoadSnapshot(generations, last.headSeq)
             row == [last EXCEPT !.checkpoint = state,
                                 !.checkpointSeq = last.headSeq,
                                 !.projectedSeq = last.headSeq]
  <1>2. state \in SUBSET Ops
    BY <1>1, LoadedType DEF IInv, Consistent
  <1>3. /\ generations' = [generations EXCEPT ![Len(generations)] = row]
        /\ IF last.projectedSeq < last.headSeq THEN WriteMaterializedDocument(state)
           ELSE UNCHANGED document
        /\ UNCHANGED <<updates, noopReceipts, approvals, bootstrap>>
        /\ Bytes(state) <= CheckpointLimit
    BY <1>1 DEF Checkpoint
  <1>4. /\ row \in Generation
        /\ row.headSeq = last.headSeq
        /\ row.projectedSeq = last.headSeq
        /\ row.checkpointSeq = last.headSeq
        /\ row.checkpoint = state
    <2> HIDE DEF state, last
    <2> QED BY <1>1, <1>2 DEF Generation, last
  <1> QED BY <1>1, <1>3, <1>4

LEMMA ProjectRow ==
    ASSUME IInv, NEW n \in Nat, Project(n)
    PROVE  LET last == generations[Len(generations)]
               row == [last EXCEPT !.projectedSeq = n]
           IN  /\ Initialized
               /\ row \in Generation
               /\ row.headSeq = last.headSeq
               /\ row.projectedSeq = n
               /\ row.checkpointSeq = last.checkpointSeq
               /\ row.checkpoint = last.checkpoint
               /\ last.projectedSeq < n
               /\ n <= last.headSeq
               /\ generations' = [generations EXCEPT ![Len(generations)] = row]
               /\ WriteMaterializedDocument(LoadSnapshot(generations, n))
               /\ UNCHANGED <<updates, noopReceipts, approvals, bootstrap>>
  <1>1. /\ Initialized
        /\ CurrentGeneration(generations) = Len(generations)
        /\ generations[Len(generations)] \in Generation
    BY Initialization DEF Project
  <1> DEFINE last == generations[Len(generations)]
             row == [last EXCEPT !.projectedSeq = n]
  <1>2. /\ n \in last.checkpointSeq .. last.headSeq
        /\ last.projectedSeq < n
        /\ generations' = [generations EXCEPT ![Len(generations)].projectedSeq = n]
        /\ WriteMaterializedDocument(LoadSnapshot(generations, n))
        /\ UNCHANGED <<updates, noopReceipts, approvals, bootstrap>>
    BY <1>1 DEF Project, Loadable
  <1>3. /\ row \in Generation
        /\ row.headSeq = last.headSeq
        /\ row.projectedSeq = n
        /\ row.checkpointSeq = last.checkpointSeq
        /\ row.checkpoint = last.checkpoint
    <2> HIDE DEF last
    <2> QED BY <1>1 DEF Generation, last
  <1>4. n <= last.headSeq
    BY <1>1, <1>2 DEF Generation
  <1> QED BY <1>1, <1>2, <1>3, <1>4

\* Numbers without a gap or a duplicate, which never run against the order of
\* the generations.
LEMMA Gapless ==
    ASSUME IInv
    PROVE  GaplessHistory
  <1>1. CASE ~Initialized
    BY <1>1, ChainWhole DEF IInv, StoreConsistent, GaplessHistory, LatestSeq
  <1>2. CASE Initialized
    <2> DEFINE n == Len(generations)
               head == generations[n].headSeq
    <2>1. /\ Consistent(generations, updates, bootstrap)
          /\ n \in Nat \ {0}
          /\ DOMAIN generations = 1 .. n
          /\ LatestSeq = head
          /\ head \in Nat
          /\ \A g \in 1 .. n : generations[g] \in Generation
      BY <1>2, Initialization, CurrentIsLast
         DEF LatestSeq, Generation, Consistent
    <2>2. \A u \in updates : /\ u.generation \in 1 .. n
                             /\ u.seq \in Nat
                             /\ 1 <= u.seq
                             /\ u.seq <= generations[u.generation].headSeq
                             /\ \A h \in 1 .. n : h < u.generation =>
                                  generations[h].headSeq < u.seq
      BY <2>1 DEF Consistent, Placed, IInv, TypeOK, Receipt
    <2>3. \A g \in 1 .. n : generations[g].headSeq \in Nat
                            /\ generations[g].headSeq <= head
      <3> SUFFICES ASSUME NEW g \in 1 .. n
                   PROVE  /\ generations[g].headSeq \in Nat
                          /\ generations[g].headSeq <= head
        OBVIOUS
      <3>1. generations[g] \in Generation /\ generations[n] \in Generation
        BY <2>1
      <3>2. CASE g = n
        BY <3>1, <3>2 DEF Generation
      <3>3. CASE g < n
        <4>1. /\ generations[g].headSeq <= generations[n].checkpointSeq
              /\ generations[n].checkpointSeq <= generations[n].projectedSeq
              /\ generations[n].projectedSeq <= generations[n].headSeq
          BY <2>1, <3>3 DEF Consistent, Fenced
        <4> QED BY <3>1, <4>1 DEF Generation
      <3>4. g = n \/ g < n
        <4> HIDE DEF n
        <4> QED BY <2>1
      <3> QED BY <3>2, <3>3, <3>4
    <2>4. \A u \in updates : u.seq \in 1 .. head
      <3> SUFFICES ASSUME NEW u \in updates PROVE u.seq \in 1 .. head
        OBVIOUS
      <3>1. /\ generations[u.generation].headSeq \in Nat
            /\ generations[u.generation].headSeq <= head
        BY <2>2, <2>3
      <3>2. u.seq \in Nat /\ 1 <= u.seq
            /\ u.seq <= generations[u.generation].headSeq
        BY <2>2
      <3> HIDE DEF head
      <3> QED BY <2>1, <3>1, <3>2
    <2>5. \A m \in 1 .. head : \E u \in updates : u.seq = m
      BY <2>1 DEF Consistent, Numbered
    <2>6. \A u, v \in updates : u.seq = v.seq => u = v
      BY <2>1 DEF Consistent, Numbered
    <2>7. ASSUME NEW u \in updates, NEW v \in updates, u.seq < v.seq
          PROVE  u.generation <= v.generation
      <3>1. CASE v.generation < u.generation
        <4>1. v.generation \in 1 .. n /\ u.seq \in Nat /\ v.seq \in Nat
          BY <2>2
        <4>2. generations[v.generation].headSeq < u.seq
          BY <2>2, <3>1, <4>1
        <4>3. v.seq <= generations[v.generation].headSeq
          BY <2>2
        <4>4. generations[v.generation].headSeq \in Nat
          BY <2>3, <4>1
        <4> QED BY <2>7, <4>1, <4>2, <4>3, <4>4
      <3>2. u.generation \in Nat /\ v.generation \in Nat
        BY <2>1, <2>2
      <3> QED BY <3>1, <3>2
    <2> HIDE DEF head
    <2>8. {u.seq : u \in updates} = 1 .. head
      BY <2>4, <2>5
    <2> QED BY <2>1, <2>6, <2>7, <2>8, ChainWhole DEF GaplessHistory
  <1> QED BY <1>1, <1>2

\* Sequence numbers have no gap, no duplicate, and never run against the order
\* of the generations, whose chain has no current row but its last.
THEOREM HistoryGapless == Spec => []GaplessHistory
  <1>1. IInv => GaplessHistory
    BY Gapless
  <1> QED BY <1>1, Invariance, PTL

\* Consistent rows load, and loading rebuilds the accepted history.
LEMMA Recovered ==
    ASSUME IInv, Initialized
    PROVE  /\ Loadable(generations, HeadSeq(generations))
           /\ LoadSnapshot(generations, HeadSeq(generations))
                = HistoryThrough(HeadSeq(generations))
  <1> DEFINE n == Len(generations)
             row == generations[n]
  <1>1. /\ Consistent(generations, updates, bootstrap)
        /\ n \in Nat \ {0}
        /\ DOMAIN generations = 1 .. n
        /\ CurrentGeneration(generations) = n
        /\ CurrentGenerations(generations) = {n}
        /\ HeadSeq(generations) = row.headSeq
        /\ row \in Generation
    BY Initialization
  <1>2. /\ row.headSeq \in Nat
        /\ row.checkpointSeq \in Nat
        /\ row.projectedSeq \in Nat
    BY <1>1 DEF Generation
  <1>3. row.checkpointSeq <= row.projectedSeq /\ row.projectedSeq <= row.headSeq
    BY <1>1 DEF Consistent, Fenced
  <1>4. row.headSeq \in row.checkpointSeq .. row.headSeq
    BY <1>2, <1>3
  <1>5. /\ LoadSnapshot(generations, row.headSeq)
             = Through(bootstrap, updates, row.headSeq)
        /\ {u.seq : u \in DurableTail(generations, n, row.headSeq)}
             = (row.checkpointSeq + 1) .. row.headSeq
    BY <1>1, <1>4, LoadExact DEF IInv
  <1>6. Cardinality(CurrentGenerations(generations)) = 1
    BY <1>1, FS_Singleton
  <1>7. \A u \in updates : u.generation = n => u.seq <= row.headSeq
    BY <1>1 DEF Consistent, Placed
  <1>8. Loadable(generations, HeadSeq(generations))
    <2> HIDE DEF row
    <2> QED BY <1>1, <1>4, <1>5, <1>6, <1>7 DEF Loadable, row
  <1> QED BY <1>1, <1>5, <1>8 DEF HistoryThrough, Through

\* Loading never reports corruption and rebuilds exactly the accepted history.
THEOREM RecoversExactly == Spec => []RecoveryExact
  <1>1. IInv => RecoveryExact
    BY Recovered DEF RecoveryExact
  <1> QED BY <1>1, Invariance, PTL

\* Readers of the documents row see a state of the accepted history, and never one
\* older than projectedSeq says.
THEOREM ProjectsExactly == Spec => []ProjectionExact
  <1>1. IInv => ProjectionExact
    BY DEF IInv
  <1> QED BY <1>1, Invariance, PTL

\* No idempotency key is ever spent twice, and no caller is ever told two
\* positions for one key.
THEOREM SpendsKeysOnce == Spec => []KeysSpentOnce
  <1>1. IInv => KeysSpentOnce
    BY DEF IInv
  <1> QED BY <1>1, Invariance, PTL

\* What a step may do to the revision that readers poll.
RevisionStep ==
    /\ document'.revision \in {document.revision, document.revision + 1}
    /\ (\/ document'.content # document.content
        \/ document'.readiness # document.readiness)
         => document'.revision = document.revision + 1

\* An append advances the revision once for a projection, a lost approval, a
\* publication or several of them, and otherwise leaves content and readiness
\* alone.
LEMMA AppendRevision ==
    ASSUME TypeOK, NEW generation, NEW key, NEW sender, NEW payload,
           NEW publishes \in BOOLEAN,
           AppendUpdate(generation, key, sender, payload, publishes)
    PROVE  RevisionStep
  <1> DEFINE rows == EnsuredGenerations
             projects == /\ ShouldRotateAppend(rows, payload)
                         /\ ProjectsBeforeRotation(rows)
             unapproves == \/ \E i \in DOMAIN approvals : Active(approvals[i])
                           \/ document.readiness = "approved"
  <1>1. document \in Document
    BY DEF TypeOK
  <1>2. CASE CommitNoopAppend(rows, key, sender, payload, publishes)
    <2>1. \/ WriteMaterializedDocument(LoadSnapshot(rows, HeadSeq(rows)))
          \/ UNCHANGED document
      BY <1>2 DEF CommitNoopAppend
    <2>2. WriteMaterializedDocument(LoadSnapshot(rows, HeadSeq(rows)))
            => document'.revision = document.revision + 1
      BY <1>1 DEF WriteMaterializedDocument, Document
    <2> QED BY <2>1, <2>2 DEF RevisionStep
  <1>3. CASE CommitChangedAppend(rows, key, sender, payload, publishes)
    <2>1. document' = [document EXCEPT
            !.content = IF publishes
                        THEN LoadSnapshot(rows, HeadSeq(rows)) \cup payload
                        ELSE IF projects THEN LoadSnapshot(rows, HeadSeq(rows)) ELSE @,
            !.readiness = IF unapproves THEN "needs_review" ELSE @,
            !.revision = RevisionAfter(@, projects, unapproves, publishes)]
      BY <1>3 DEF CommitChangedAppend
    <2> HIDE DEF projects, unapproves
    <2>2. /\ document'.revision
               = RevisionAfter(document.revision, projects, unapproves, publishes)
          /\ ~(projects \/ publishes) => document'.content = document.content
          /\ ~unapproves => document'.readiness = document.readiness
      BY <1>1, <2>1 DEF Document
    <2>3. CASE projects \/ unapproves \/ publishes
      <3>1. document'.revision = document.revision + 1
        BY <2>2, <2>3 DEF RevisionAfter
      <3> QED BY <3>1 DEF RevisionStep
    <2>4. CASE ~(projects \/ unapproves \/ publishes)
      <3>1. /\ document'.revision = document.revision
            /\ document'.content = document.content
            /\ document'.readiness = document.readiness
        BY <2>2, <2>4 DEF RevisionAfter
      <3> QED BY <3>1 DEF RevisionStep
    <2> QED BY <2>3, <2>4
  <1> QED BY <1>2, <1>3 DEF AppendUpdate

\* Writing the materialized document is one revision.
LEMMA WriteRevision ==
    ASSUME TypeOK, NEW content, WriteMaterializedDocument(content)
    PROVE  RevisionStep
  <1>1. document \in Document
    BY DEF TypeOK
  <1>2. document' = [document EXCEPT !.content = content,
                                     !.revision = document.revision + 1]
    BY DEF WriteMaterializedDocument
  <1>3. document'.revision = document.revision + 1
    BY <1>1, <1>2 DEF Document
  <1> QED BY <1>3 DEF RevisionStep

\* Every operation of the store advances the revision so.
LEMMA NextRevision == TypeOK /\ [Next]_vars => [RevisionStep]_vars
  <1> SUFFICES ASSUME TypeOK, [Next]_vars PROVE [RevisionStep]_vars
    OBVIOUS
  <1>1. CASE UNCHANGED document
    BY <1>1 DEF RevisionStep
  <1>2. CASE Initialize
    BY <1>1, <1>2 DEF Initialize
  <1>3. CASE ClientNext
    <2>1. PICK p \in Principals, g \in DOMAIN EnsuredGenerations, k \in Keys,
               ops \in Payloads :
            AppendAuthorizedClientUpdate(p, g, epochs[p], k, ops)
      BY <1>3 DEF ClientNext
    <2>2. \/ UNCHANGED document
          \/ AppendUpdate(g, k, [origin |-> "client", principal |-> p], ops, FALSE)
      BY <2>1 DEF AppendAuthorizedClientUpdate, Replay
    <2> QED BY <1>1, <2>2, AppendRevision
  <1>4. CASE CommandNext
    <2>1. PICK o \in Origins, p \in Principals, g \in DOMAIN EnsuredGenerations,
               k \in Keys, ops \in Payloads :
            \/ AppendValidatedUpdate(o, p, g, k, ops)
            \/ CommitServerCommand(o, p, g, k, ops)
      BY <1>4 DEF CommandNext
    <2>2. \/ UNCHANGED document
          \/ \E b \in BOOLEAN : AppendUpdate(g, k, [origin |-> o, principal |-> p], ops, b)
      BY <2>1 DEF AppendValidatedUpdate, CommitServerCommand, Replay
    <2> QED BY <1>1, <2>2, AppendRevision
  <1>5. CASE \E k \in Keys, s \in Senders : FindDurableUpdateReplay(k, s)
    BY <1>1, <1>5 DEF FindDurableUpdateReplay, Replay
  <1>6. CASE \E g \in DOMAIN EnsuredGenerations : Checkpoint(g)
    <2>1. PICK g \in DOMAIN EnsuredGenerations : Checkpoint(g)
      BY <1>6
    <2>2. \/ UNCHANGED document
          \/ \E state : WriteMaterializedDocument(state)
      BY <2>1 DEF Checkpoint
    <2> QED BY <1>1, <2>2, WriteRevision
  <1>7. CASE \E seq \in 1 .. MaxSeq : Project(seq)
    BY <1>7, WriteRevision DEF Project
  <1>8. CASE \E content \in Payloads :
               document.revision < MaxRevision
                 /\ SaveDocumentDraft(document.revision, content)
    <2>1. PICK content \in Payloads :
            SaveDocumentDraft(document.revision, content)
      BY <1>8
    <2>2. WriteMaterializedDocument(content)
      BY <2>1 DEF SaveDocumentDraft, WriteMaterializedDocument
    <2> QED BY <2>2, WriteRevision
  <1> QED BY <1>2, <1>3, <1>4, <1>5, <1>6, <1>7, <1>8 DEF Next

\* One transaction advances the revision at most once, and always when content
\* or readiness changes.
THEOREM RevisionsCount == Spec => RevisionCountsChanges
  <1>1. RevisionCountsChanges <=> [][RevisionStep]_vars
    BY DEF RevisionCountsChanges, RevisionStep
  <1>2. Spec => [][RevisionStep]_vars
    BY NextRevision, TypeCorrect, PTL DEF Spec
  <1> QED BY <1>1, <1>2

-----------------------------------------------------------------------------
(* The store implements AcceptedHistory.                                   *)

LogEntry == [key : Keys, payload : SUBSET Ops]

\* The log is the updates in the order of their numbers: each stands once, at
\* its number.
LogSound ==
    /\ LatestSeq \in Nat
    /\ \A n \in 1 .. LatestSeq : UpdateAt(n) \in updates /\ UpdateAt(n).seq = n
    /\ \A u \in updates : u.seq \in 1 .. LatestSeq /\ UpdateAt(u.seq) = u
    /\ AcceptedLog \in Seq(LogEntry)
    /\ Len(AcceptedLog) = LatestSeq
    /\ DOMAIN AcceptedLog = 1 .. LatestSeq
    /\ \A n \in 1 .. LatestSeq :
         AcceptedLog[n] = [key |-> UpdateAt(n).key, payload |-> UpdateAt(n).payload]

LEMMA LogFacts == IInv => LogSound
  <1> SUFFICES ASSUME IInv PROVE LogSound
    OBVIOUS
  <1>1. /\ {u.seq : u \in updates} = 1 .. LatestSeq
        /\ \A u, v \in updates : u.seq = v.seq => u = v
    BY Gapless DEF GaplessHistory
  <1>2. LatestSeq \in Nat
    <2>1. CASE Initialized
      BY <2>1, Initialization DEF LatestSeq, Generation
    <2> QED BY <2>1 DEF LatestSeq
  <1>3. \A n \in 1 .. LatestSeq : UpdateAt(n) \in updates /\ UpdateAt(n).seq = n
    BY <1>1 DEF UpdateAt
  <1>4. \A u \in updates : u.seq \in 1 .. LatestSeq
    BY <1>1
  <1>5. \A u \in updates : UpdateAt(u.seq) = u
    BY <1>1, <1>3, <1>4
  <1>6. \A n \in 1 .. LatestSeq :
          [key |-> UpdateAt(n).key, payload |-> UpdateAt(n).payload] \in LogEntry
    BY <1>3 DEF IInv, TypeOK, Receipt, LogEntry
  <1>7. AcceptedLog \in [1 .. LatestSeq -> LogEntry]
    BY <1>6 DEF AcceptedLog
  <1>8. \A n \in 1 .. LatestSeq :
          AcceptedLog[n] = [key |-> UpdateAt(n).key, payload |-> UpdateAt(n).payload]
    BY DEF AcceptedLog
  <1> HIDE DEF AcceptedLog
  <1>9. AcceptedLog \in Seq(LogEntry) /\ Len(AcceptedLog) = LatestSeq
    BY <1>2, <1>7
  <1> QED BY <1>2, <1>3, <1>4, <1>5, <1>7, <1>8, <1>9 DEF LogSound

LEMMA NextLogFacts == IInv' => LogSound'
  BY LogFacts, PTL

\* The state after a prefix of the log is what the updates up to its end carry.
LEMMA StateOfPrefix ==
    ASSUME IInv, NEW base, NEW n \in 0 .. LatestSeq
    PROVE  Abstract!StateAt(base, AcceptedLog, n) = Through(base, updates, n)
  <1>1. \A i \in 1 .. n : AcceptedLog[i].payload = UpdateAt(i).payload
                            /\ UpdateAt(i) \in updates /\ UpdateAt(i).seq = i
    BY LogFacts, NextLogFacts DEF LogSound
  <1>2. ASSUME NEW op, op \in UNION {AcceptedLog[i].payload : i \in 1 .. n}
        PROVE  op \in UNION {u.payload : u \in {v \in updates : v.seq <= n}}
    <2>1. PICK i \in 1 .. n : op \in AcceptedLog[i].payload
      BY <1>2
    <2>2. UpdateAt(i) \in {v \in updates : v.seq <= n}
      BY <1>1, LogFacts, NextLogFacts DEF LogSound
    <2> QED BY <2>1, <2>2, <1>1
  <1>3. ASSUME NEW op, op \in UNION {u.payload : u \in {v \in updates : v.seq <= n}}
        PROVE  op \in UNION {AcceptedLog[i].payload : i \in 1 .. n}
    <2>1. PICK u \in updates : u.seq <= n /\ op \in u.payload
      BY <1>3
    <2>2. u.seq \in 1 .. n /\ UpdateAt(u.seq) = u
      BY <2>1, LogFacts, NextLogFacts DEF LogSound
    <2> QED BY <2>1, <2>2, <1>1
  <1>4. UNION {AcceptedLog[i].payload : i \in 1 .. n}
          = UNION {u.payload : u \in {v \in updates : v.seq <= n}}
    BY <1>2, <1>3
  <1> QED BY <1>4 DEF Abstract!StateAt, Through

PrefixStates ==
    \A base \in SUBSET Ops, n \in 0 .. LatestSeq :
        Abstract!StateAt(base, AcceptedLog, n) = Through(base, updates, n)

LEMMA PrefixFacts == IInv => PrefixStates
  BY StateOfPrefix DEF PrefixStates

LEMMA NextPrefixFacts == IInv' => PrefixStates'
  BY PrefixFacts, PTL

\* A step that accepts nothing leaves the log alone.
LEMMA LogKept ==
    ASSUME IInv, IInv', updates' = updates, LatestSeq' = LatestSeq
    PROVE  AcceptedLog' = AcceptedLog
  <1>1. \A n \in 1 .. LatestSeq : UpdateAt(n)' = UpdateAt(n)
    <2> SUFFICES ASSUME NEW n \in 1 .. LatestSeq PROVE UpdateAt(n)' = UpdateAt(n)
      OBVIOUS
    <2>1. UpdateAt(n)' \in updates' /\ (UpdateAt(n)').seq = n
      BY LogFacts, NextLogFacts DEF LogSound
    <2> QED BY <2>1, LogFacts, NextLogFacts DEF LogSound
  <1>2. DOMAIN AcceptedLog' = DOMAIN AcceptedLog
    BY LogFacts, NextLogFacts DEF LogSound
  <1> QED BY <1>1 DEF AcceptedLog

\* A step that accepts an update appends it to the log.
LEMMA LogGrown ==
    ASSUME IInv, IInv', NEW r \in Receipt, updates' = updates \cup {r},
           r.seq = LatestSeq + 1, LatestSeq' = LatestSeq + 1
    PROVE  AcceptedLog' = Append(AcceptedLog, [key |-> r.key, payload |-> r.payload])
  <1>0. PICK m : m = LatestSeq
    OBVIOUS
  <1> DEFINE e == [key |-> r.key, payload |-> r.payload]
  <1>1. m \in Nat /\ r.seq = m + 1 /\ (LatestSeq)' = m + 1
    BY <1>0, LogFacts, NextLogFacts DEF LogSound
  <1>2. \A n \in 1 .. m : UpdateAt(n)' = UpdateAt(n)
    <2> SUFFICES ASSUME NEW n \in 1 .. m PROVE UpdateAt(n)' = UpdateAt(n)
      OBVIOUS
    <2>1. /\ UpdateAt(n) \in updates /\ UpdateAt(n).seq = n
          /\ n \in 1 .. m + 1
      BY <1>0, <1>1, LogFacts, NextLogFacts DEF LogSound
    <2>2. UpdateAt(n) \in updates'
      BY <2>1
    <2>3. \A u \in updates' : UpdateAt(u.seq)' = u
      BY <1>0, LogFacts, NextLogFacts DEF LogSound
    <2> QED BY <2>1, <2>2, <2>3
  <1>3. UpdateAt(m + 1)' = r
    <2>1. r \in updates'
      OBVIOUS
    <2> QED BY <1>0, <1>1, <2>1, LogFacts, NextLogFacts DEF LogSound
  <1>4. /\ AcceptedLog' \in Seq(LogEntry)
        /\ Len(AcceptedLog') = m + 1
        /\ \A n \in 1 .. m + 1 : (AcceptedLog')[n] =
             [key |-> (UpdateAt(n)').key, payload |-> (UpdateAt(n)').payload]
    BY <1>1, NextLogFacts DEF LogSound
  <1>5. /\ AcceptedLog \in Seq(LogEntry)
        /\ Len(AcceptedLog) = m
        /\ \A n \in 1 .. m : AcceptedLog[n] =
             [key |-> UpdateAt(n).key, payload |-> UpdateAt(n).payload]
    BY <1>0, LogFacts, NextLogFacts DEF LogSound
  <1>6. e \in LogEntry
    BY DEF Receipt, LogEntry
  <1> HIDE DEF e
  <1>7. /\ Append(AcceptedLog, e) \in Seq(LogEntry)
        /\ Len(Append(AcceptedLog, e)) = m + 1
        /\ Append(AcceptedLog, e)[m + 1] = e
        /\ \A n \in 1 .. m : Append(AcceptedLog, e)[n] = AcceptedLog[n]
    BY <1>5, <1>6, AppendAt
  <1>8. \A n \in 1 .. m + 1 : (AcceptedLog')[n] = Append(AcceptedLog, e)[n]
    <2> SUFFICES ASSUME NEW n \in 1 .. m + 1
                 PROVE  (AcceptedLog')[n] = Append(AcceptedLog, e)[n]
      OBVIOUS
    <2>1. CASE n = m + 1
      BY <2>1, <1>3, <1>4, <1>7 DEF e
    <2>2. CASE n # m + 1
      <3>1. n \in 1 .. m
        BY <2>2, <1>1
      <3> QED BY <3>1, <1>2, <1>4, <1>5, <1>7
    <2> QED BY <2>1, <2>2
  <1> QED BY <1>1, <1>4, <1>7, <1>8 DEF e

\* What readers see is published up to a number that has been reached.
PublishedSound ==
    /\ PublishedSeq \in 0 .. LatestSeq
    /\ Initialized => /\ PublishedSeq = generations[Len(generations)].projectedSeq
                      /\ LatestSeq = generations[Len(generations)].headSeq
    /\ ~Initialized => PublishedSeq = 0 /\ LatestSeq = 0

LEMMA PublishedFacts == IInv => PublishedSound
  <1> SUFFICES ASSUME IInv PROVE PublishedSound
    OBVIOUS
  <1>1. CASE Initialized
    <2> DEFINE last == generations[Len(generations)]
    <2>1. /\ last \in Generation
          /\ last.projectedSeq <= last.headSeq
          /\ PublishedSeq = last.projectedSeq
          /\ LatestSeq = last.headSeq
      BY <1>1, Initialization DEF PublishedSeq, LatestSeq, Consistent, Fenced
    <2> HIDE DEF last
    <2>2. last.projectedSeq \in Nat /\ last.headSeq \in Nat
      BY <2>1 DEF Generation
    <2> QED BY <1>1, <2>1, <2>2 DEF PublishedSound, last
  <1>2. CASE ~Initialized
    BY <1>2 DEF PublishedSound, PublishedSeq, LatestSeq
  <1> QED BY <1>1, <1>2

LEMMA NextPublishedFacts == IInv' => PublishedSound'
  BY PublishedFacts, PTL

\* Whoever is answered with a stored receipt is answered with a position.
LEMMA AnswerMaps ==
    ASSUME IInv', NEW r \in updates' \cup noopReceipts', NEW asker,
           answers' \in {answers, answers \cup {AnswerFor(r, asker)}}
    PROVE  Abstract!MayAnswer
  <1>1. CASE answers' = answers
    BY <1>1 DEF Abstract!MayAnswer, AnsweredPositions
  <1>2. CASE answers' = answers \cup {AnswerFor(r, asker)}
    <2>1. Position(AnswerFor(r, asker)) = Position(r)
      BY DEF Position, AnswerFor
    <2>2. AnsweredPositions' = AnsweredPositions \cup {Position(r)}
      BY <1>2, <2>1 DEF AnsweredPositions
    <2>3. Position(r) \in Abstract!Positions(AcceptedLog', NoopPositions')
      <3>1. CASE r \in noopReceipts'
        BY <3>1 DEF NoopPositions, Abstract!Positions
      <3>2. CASE r \in updates'
        <4>1. /\ r.seq \in DOMAIN AcceptedLog'
              /\ (AcceptedLog')[r.seq].key = r.key
          BY <3>2, NextLogFacts DEF LogSound
        <4> QED BY <4>1 DEF Abstract!Positions, Position
      <3> QED BY <3>1, <3>2
    <2> QED BY <2>2, <2>3 DEF Abstract!MayAnswer
  <1> QED BY <1>1, <1>2

\* A key that no receipt owns is unspent.
LEMMA UnspentMaps ==
    ASSUME IInv, NEW key, FindIdempotentReceipt(key) = {}
    PROVE  key \notin Abstract!Spent
  <1>1. ASSUME NEW i \in DOMAIN AcceptedLog PROVE AcceptedLog[i].key # key
    BY LogFacts DEF LogSound, FindIdempotentReceipt
  <1>2. ASSUME NEW p \in NoopPositions PROVE p.key # key
    BY DEF NoopPositions, Position, FindIdempotentReceipt
  <1> QED BY <1>1, <1>2 DEF Abstract!Spent

\* A write that starts collaboration starts from the plain content.
LEMMA StartMaps ==
    ASSUME EnsureInitialized, generations' # <<>>
    PROVE  Abstract!MayStart
  BY DEF EnsureInitialized, Abstract!MayStart, Initialized

\* An exact retry is invisible, but for what the caller is told.
LEMMA ReplayMaps ==
    ASSUME IInv, IInv', NEW key, NEW sender, NEW payloads,
           Replay(key, sender, payloads)
    PROVE  Abstract!Write
  <1>1. PICK r \in updates \cup noopReceipts :
          /\ MayAnswer(r, sender)
          /\ UNCHANGED <<document, storeVars>>
    BY DEF Replay, FindIdempotentReceipt
  <1>2. /\ updates' = updates /\ noopReceipts' = noopReceipts
        /\ generations' = generations /\ bootstrap' = bootstrap
        /\ document' = document
    BY <1>1 DEF storeVars
  <1>3. LatestSeq' = LatestSeq
    BY <1>2 DEF LatestSeq, Initialized, HeadSeq, CurrentGeneration
  <1>4. AcceptedLog' = AcceptedLog
    BY <1>2, <1>3, LogKept
  <1>5. Abstract!MayAnswer
    BY <1>1, <1>2, AnswerMaps DEF MayAnswer
  <1> QED BY <1>2, <1>4, <1>5
         DEF Abstract!Write, Initialized, PublishedSeq, CurrentGeneration, NoopPositions

\* Starting collaboration is the abstract start, or changes nothing.
LEMMA InitializeMaps ==
    ASSUME IInv, IInv', Initialize
    PROVE  Abstract!Start \/ UNCHANGED Abstract!historyVars
  <1>1. /\ generations' = EnsuredGenerations
        /\ updates' = updates /\ noopReceipts' = noopReceipts
        /\ document' = document /\ answers' = answers
        /\ bootstrap' = IF Initialized THEN bootstrap ELSE document.content
    BY DEF Initialize, EnsureInitialized
  <1>2. NoopPositions' = NoopPositions /\ AnsweredPositions' = AnsweredPositions
    BY <1>1 DEF NoopPositions, AnsweredPositions
  <1>3. CASE Initialized
    <2>1. generations' = generations /\ bootstrap' = bootstrap
      BY <1>1, <1>3 DEF EnsuredGenerations
    <2>2. LatestSeq' = LatestSeq /\ PublishedSeq' = PublishedSeq
          /\ Initialized' = Initialized
      BY <2>1 DEF LatestSeq, Initialized, HeadSeq, CurrentGeneration, PublishedSeq
    <2>3. AcceptedLog' = AcceptedLog
      BY <1>1, <2>2, LogKept
    <2> QED BY <1>1, <1>2, <2>1, <2>2, <2>3 DEF Abstract!historyVars
  <1>4. CASE ~Initialized
    <2>1. /\ generations' # <<>> /\ Len(generations') = 1
          /\ generations'[1].headSeq = 0 /\ generations'[1].projectedSeq = 0
      BY <1>1, <1>4 DEF EnsuredGenerations
    <2>2. Initialized'
      BY <2>1 DEF Initialized
    <2>3. /\ LatestSeq' = 0 /\ PublishedSeq' = 0
          /\ LatestSeq = 0 /\ PublishedSeq = 0
      BY <1>4, <2>1, <2>2, PublishedFacts, NextPublishedFacts DEF PublishedSound
    <2>4. AcceptedLog' = AcceptedLog
      BY <1>1, <2>3, LogKept
    <2>5. Abstract!MayStart
      BY <2>1, StartMaps DEF Initialize
    <2> QED BY <1>1, <1>2, <1>4, <2>3, <2>4, <2>5 DEF Abstract!Start
  <1> QED BY <1>3, <1>4

\* The rows a write works on start where readers and writers are.
LEMMA EnsuredPositions ==
    ASSUME IInv
    PROVE  /\ HeadSeq(EnsuredGenerations) = LatestSeq
           /\ EnsuredGenerations[Len(EnsuredGenerations)].projectedSeq = PublishedSeq
  <1>1. CASE Initialized
    BY <1>1, Initialization DEF EnsuredGenerations, LatestSeq, PublishedSeq
  <1>2. CASE ~Initialized
    <2> DEFINE first == [isCurrent |-> TRUE, headSeq |-> 0, checkpointSeq |-> 0,
                         projectedSeq |-> 0, checkpoint |-> document.content]
    <2>1. EnsuredGenerations = <<first>>
      BY <1>2 DEF EnsuredGenerations
    <2>2. CurrentGeneration(<<first>>) = 1
      BY DEF CurrentGeneration
    <2> QED BY <1>2, <2>1, <2>2 DEF HeadSeq, LatestSeq, PublishedSeq
  <1> QED BY <1>1, <1>2

\* A projection that moves the record shows the prefix it records.
LEMMA ProjectionMaps ==
    ASSUME IInv, IInv', Initialized, Initialized',
           UNCHANGED <<updates, noopReceipts, answers, bootstrap>>,
           LatestSeq' = LatestSeq, PublishedSeq <= PublishedSeq',
           IF PublishedSeq' = PublishedSeq THEN document'.content = document.content
           ELSE document'.content = Through(bootstrap, updates, PublishedSeq')
    PROVE  Abstract!Project \/ UNCHANGED Abstract!historyVars
  <1>1. PICK n : n = PublishedSeq'
    OBVIOUS
  <1>2. n \in 0 .. LatestSeq /\ PublishedSeq \in 0 .. LatestSeq /\ LatestSeq \in Nat
    BY <1>1, LogFacts, PublishedFacts, NextPublishedFacts DEF LogSound, PublishedSound
  <1>3. AcceptedLog' = AcceptedLog /\ Len(AcceptedLog) = LatestSeq
    BY LogKept, LogFacts DEF LogSound
  <1>4. /\ Initialized' = Initialized /\ bootstrap' = bootstrap
        /\ NoopPositions' = NoopPositions /\ AnsweredPositions' = AnsweredPositions
    BY DEF NoopPositions, AnsweredPositions
  <1>5. CASE n = PublishedSeq
    BY <1>1, <1>3, <1>4, <1>5 DEF Abstract!historyVars
  <1>6. CASE n # PublishedSeq
    <2>1. n \in PublishedSeq + 1 .. Len(AcceptedLog)
      BY <1>1, <1>2, <1>3, <1>6
    <2>2. Abstract!StateAt(bootstrap, AcceptedLog, n) = Through(bootstrap, updates, n)
      BY <1>2, StateOfPrefix
    <2>3. Abstract!Publish(AcceptedLog, n)
      BY <1>1, <1>4, <1>6, <2>2 DEF Abstract!Publish
    <2> QED BY <1>3, <1>4, <2>1, <2>3 DEF Abstract!Project
  <1> QED BY <1>5, <1>6

LEMMA CheckpointMaps ==
    ASSUME IInv, IInv', NEW generation, Checkpoint(generation)
    PROVE  Abstract!Project \/ UNCHANGED Abstract!historyVars
  <1> DEFINE head == generations[Len(generations)].headSeq
  <1>1. PICK row \in Generation :
          /\ generations' = [generations EXCEPT ![Len(generations)] = row]
          /\ row.headSeq = head /\ row.projectedSeq = head
          /\ Initialized
          /\ IF generations[Len(generations)].projectedSeq < head
             THEN WriteMaterializedDocument(LoadSnapshot(generations, head))
             ELSE UNCHANGED document
    BY CheckpointRow
  <1>2. UNCHANGED <<updates, noopReceipts, answers, bootstrap>>
    BY DEF Checkpoint
  <1>3. /\ Len(generations') = Len(generations)
        /\ generations'[Len(generations)] = row
        /\ Len(generations) \in Nat \ {0}
    BY <1>1, CurrentRowReplaced, Initialization
  <1>4. Initialized'
    BY <1>1, Initialization DEF Initialized, IInv, TypeOK
  <1>5. /\ LatestSeq' = head /\ PublishedSeq' = head
        /\ LatestSeq = head /\ PublishedSeq \in 0 .. head /\ head \in Nat
        /\ PublishedSeq = generations[Len(generations)].projectedSeq
    BY <1>1, <1>3, <1>4, PublishedFacts, NextPublishedFacts, LogFacts
       DEF PublishedSound, LogSound
  <1>6. LoadSnapshot(generations, head) = Through(bootstrap, updates, head)
    BY <1>1, Recovered, Initialization DEF HistoryThrough, Through
  <1> HIDE DEF head
  <1>7. CASE PublishedSeq < head
    <2>1. WriteMaterializedDocument(LoadSnapshot(generations, head))
      BY <1>1, <1>5, <1>7
    <2>2. document'.content = LoadSnapshot(generations, head)
      BY <2>1 DEF WriteMaterializedDocument, IInv, TypeOK, Document
    <2> QED BY <1>1, <1>2, <1>4, <1>5, <1>6, <1>7, <2>2, ProjectionMaps
  <1>8. CASE ~(PublishedSeq < head)
    <2>1. document' = document /\ PublishedSeq = head
      BY <1>1, <1>5, <1>8
    <2> QED BY <1>1, <1>2, <1>4, <1>5, <2>1, ProjectionMaps
  <1> QED BY <1>7, <1>8

LEMMA ProjectMaps ==
    ASSUME IInv, IInv', NEW n \in Nat, Project(n)
    PROVE  Abstract!Project \/ UNCHANGED Abstract!historyVars
  <1> DEFINE last == generations[Len(generations)]
  <1>1. PICK row \in Generation :
          /\ generations' = [generations EXCEPT ![Len(generations)] = row]
          /\ row.headSeq = last.headSeq /\ row.projectedSeq = n
          /\ Initialized /\ last.projectedSeq < n
          /\ WriteMaterializedDocument(LoadSnapshot(generations, n))
    BY ProjectRow
  <1>2. UNCHANGED <<updates, noopReceipts, answers, bootstrap>>
    BY DEF Project
  <1>3. /\ Len(generations') = Len(generations)
        /\ generations'[Len(generations)] = row
    BY <1>1, CurrentRowReplaced
  <1>4. Initialized'
    BY <1>1, Initialization DEF Initialized, IInv, TypeOK
  <1>5. /\ LatestSeq' = last.headSeq /\ PublishedSeq' = n
        /\ LatestSeq = last.headSeq /\ PublishedSeq = last.projectedSeq
        /\ PublishedSeq \in Nat
    BY <1>1, <1>3, <1>4, PublishedFacts, NextPublishedFacts DEF PublishedSound
  <1>6. n \in last.checkpointSeq .. last.headSeq
    BY <1>1, Initialization DEF Project, Loadable
  <1>7. LoadSnapshot(generations, n) = Through(bootstrap, updates, n)
    BY <1>1, <1>6, LoadExact, Initialization DEF IInv
  <1>8. document'.content = LoadSnapshot(generations, n)
    BY <1>1 DEF WriteMaterializedDocument, IInv, TypeOK, Document
  <1> HIDE DEF last
  <1>9. PublishedSeq <= PublishedSeq' /\ PublishedSeq' # PublishedSeq
    BY <1>1, <1>5
  <1> QED BY <1>1, <1>2, <1>4, <1>5, <1>7, <1>8, <1>9, ProjectionMaps

\* A save of the plain document is the abstract save.
LEMMA SaveMaps ==
    ASSUME IInv, IInv', NEW expected, NEW content \in SUBSET Ops,
           SaveDocumentDraft(expected, content)
    PROVE  Abstract!Save
  <1>1. /\ ~Initialized
        /\ document' = [document EXCEPT !.content = content, !.revision = expected + 1]
        /\ UNCHANGED <<storeVars, answers>>
    BY DEF SaveDocumentDraft
  <1>2. document'.content = content
    BY <1>1 DEF IInv, TypeOK, Document
  <1>3. /\ generations' = generations /\ updates' = updates
        /\ noopReceipts' = noopReceipts /\ bootstrap' = bootstrap /\ answers' = answers
    BY <1>1 DEF storeVars
  <1>4. Initialized' = Initialized /\ LatestSeq' = LatestSeq /\ PublishedSeq' = PublishedSeq
    BY <1>3 DEF Initialized, LatestSeq, PublishedSeq, HeadSeq, CurrentGeneration
  <1>5. AcceptedLog' = AcceptedLog
    BY <1>3, <1>4, LogKept
  <1> QED BY <1>1, <1>2, <1>3, <1>4, <1>5
         DEF Abstract!Save, NoopPositions, AnsweredPositions

\* A no-op spends its key at the head; a command's shows the whole history.
LEMMA NoopMaps ==
    ASSUME IInv, IInv', EnsureInitialized,
           NEW key \in Keys, NEW sender \in Senders, NEW payload \in SUBSET Ops,
           NEW publishes, FindIdempotentReceipt(key) = {},
           CommitNoopAppend(EnsuredGenerations, key, sender, payload, publishes)
    PROVE  Abstract!Write
  <1> DEFINE rows == EnsuredGenerations
  <1>1. /\ Consistent(rows, updates, EnsuredBootstrap)
        /\ Len(rows) \in Nat \ {0}
        /\ HeadSeq(rows) = rows[Len(rows)].headSeq
        /\ LoadSnapshot(rows, HeadSeq(rows)) = Through(bootstrap', updates, HeadSeq(rows))
        /\ bootstrap' \in SUBSET Ops
    BY Ensuring
  <1>2. PICK r : r = [generation |-> CurrentGeneration(rows),
                      seq |-> HeadSeq(rows), key |-> key, sender |-> sender,
                      payload |-> payload]
    OBVIOUS
  <1>3. /\ generations' = rows
        /\ noopReceipts' = noopReceipts \cup {r}
        /\ answers' \in {answers, answers \cup {AnswerFor(r, sender)}}
        /\ updates' = updates
        /\ \/ WriteMaterializedDocument(LoadSnapshot(rows, HeadSeq(rows)))
           \/ UNCHANGED document
    BY <1>2 DEF CommitNoopAppend, MayAnswer
  <1>4. HeadSeq(rows) = LatestSeq /\ rows[Len(rows)].projectedSeq = PublishedSeq
    BY EnsuredPositions
  <1> HIDE DEF rows
  <1>5. generations' # <<>> /\ Initialized'
    BY <1>1, <1>3 DEF Initialized
  <1>6. LatestSeq' = LatestSeq /\ PublishedSeq' = PublishedSeq
    BY <1>1, <1>3, <1>4, <1>5, NextPublishedFacts DEF PublishedSound
  <1>7. AcceptedLog' = AcceptedLog /\ Len(AcceptedLog) = LatestSeq
    BY <1>3, <1>6, LogKept, LogFacts DEF LogSound
  <1>8. NoopPositions' = NoopPositions \cup {[key |-> key, seq |-> Len(AcceptedLog)]}
    <2>1. Position(r) = [key |-> key, seq |-> Len(AcceptedLog)]
      BY <1>2, <1>4, <1>7 DEF Position
    <2> QED BY <1>3, <2>1 DEF NoopPositions
  <1>9. Abstract!AcceptNothing(key)
    <2>1. \/ document'.content = document.content
          \/ document'.content = LoadSnapshot(rows, HeadSeq(rows))
      BY <1>3 DEF WriteMaterializedDocument, IInv, TypeOK, Document
    <2>2. LatestSeq \in 0 .. LatestSeq
      BY LogFacts DEF LogSound
    <2>3. LoadSnapshot(rows, HeadSeq(rows))
            = Abstract!StateAt(bootstrap', AcceptedLog, Len(AcceptedLog))
      BY <1>1, <1>4, <1>7, <2>2, PrefixFacts DEF PrefixStates
    <2> QED BY <1>5, <1>6, <1>7, <1>8, <2>1, <2>3, StartMaps, UnspentMaps
            DEF Abstract!AcceptNothing
  <1>10. Abstract!MayAnswer
    BY <1>3, AnswerMaps
  <1> QED BY <1>9, <1>10 DEF Abstract!Write

\* A change spends its key at the next number.
LEMMA ChangedMaps ==
    ASSUME IInv, IInv', EnsureInitialized, UNCHANGED epochs,
           NEW key \in Keys, NEW sender \in Senders, NEW payload \in SUBSET Ops,
           NEW publishes \in BOOLEAN, FindIdempotentReceipt(key) = {},
           CommitChangedAppend(EnsuredGenerations, key, sender, payload, publishes)
    PROVE  Abstract!Write
  <1> DEFINE newest == generations'[Len(generations')]
             e == [key |-> key, payload |-> payload]
  <1>1. HeadSeq(EnsuredGenerations) = LatestSeq
        /\ EnsuredGenerations[Len(EnsuredGenerations)].projectedSeq = PublishedSeq
    BY EnsuredPositions
  <1>2. ChangeStored(key, sender, payload, publishes) /\ bootstrap' \in SUBSET Ops
    BY ChangedStep, Ensuring
  <1>3. PICK r \in Receipt :
          /\ r.key = key /\ r.payload = payload /\ r.seq = LatestSeq + 1
          /\ updates' = updates \cup {r}
          /\ noopReceipts' = noopReceipts
          /\ answers' \in {answers, answers \cup {AnswerFor(r, sender)}}
          /\ newest.headSeq = r.seq
          /\ newest.projectedSeq \in {PublishedSeq, LatestSeq, LatestSeq + 1}
          /\ document'.content =
               IF newest.projectedSeq = PublishedSeq THEN document.content
               ELSE Through(bootstrap', updates', newest.projectedSeq)
    BY <1>1, <1>2 DEF ChangeStored
  <1>4. Initialized'
    BY <1>3 DEF IInv, StoreConsistent
  <1> HIDE DEF newest
  <1>5. /\ LatestSeq' = LatestSeq + 1
        /\ PublishedSeq' = newest.projectedSeq
    BY <1>3, <1>4, NextPublishedFacts DEF PublishedSound, newest
  <1>6. /\ AcceptedLog' = Append(AcceptedLog, e) /\ Len(AcceptedLog) = LatestSeq
    BY <1>3, <1>5, LogGrown, LogFacts DEF LogSound
  <1>7. PICK n : /\ n = PublishedSeq'
                 /\ n \in {PublishedSeq, Len(AcceptedLog), Len(AcceptedLog) + 1}
    BY <1>3, <1>5, <1>6
  <1>8. Abstract!Publish(AcceptedLog', n)
    <2>1. n \in 0 .. LatestSeq'
      BY <1>7, NextPublishedFacts DEF PublishedSound
    <2>2. Abstract!StateAt(bootstrap', AcceptedLog', n) = Through(bootstrap', updates', n)
      BY <1>2, <2>1, NextPrefixFacts DEF PrefixStates
    <2> QED BY <1>3, <1>5, <1>7, <2>2 DEF Abstract!Publish
  <1>9. Abstract!MayStart /\ NoopPositions' = NoopPositions
    BY <1>3, <1>4, StartMaps DEF Initialized, NoopPositions
  <1>10. Abstract!Accept(key, payload)
    BY <1>6, <1>7, <1>8, <1>9, UnspentMaps DEF Abstract!Accept
  <1>11. Abstract!MayAnswer
    BY <1>3, AnswerMaps
  <1> QED BY <1>10, <1>11 DEF Abstract!Write

LEMMA AppendMaps ==
    ASSUME IInv, IInv', NEW generation, NEW key \in Keys, NEW sender \in Senders,
           NEW payload \in SUBSET Ops, NEW publishes \in BOOLEAN,
           AppendUpdate(generation, key, sender, payload, publishes)
    PROVE  Abstract!Write
  BY NoopMaps, ChangedMaps DEF AppendUpdate

LEMMA ClientMaps ==
    ASSUME IInv, IInv', NEW p \in Principals, NEW g, NEW e, NEW k \in Keys,
           NEW ops \in Payloads,
           AppendAuthorizedClientUpdate(p, g, e, k, ops)
    PROVE  Abstract!Write
  <1> DEFINE sender == [origin |-> "client", principal |-> p]
  <1>1. sender \in Senders /\ ops \in SUBSET Ops
    BY OpsAssumption DEF AppendAuthorizedClientUpdate, Senders
  <1>2. Replay(k, sender, {ops}) \/ AppendUpdate(g, k, sender, ops, FALSE)
    BY DEF AppendAuthorizedClientUpdate
  <1> HIDE DEF sender
  <1> QED BY <1>1, <1>2, ReplayMaps, AppendMaps

LEMMA CommandMaps ==
    ASSUME IInv, IInv', NEW o \in Origins, NEW p \in Principals, NEW g, NEW k \in Keys,
           NEW ops \in Payloads,
           \/ AppendValidatedUpdate(o, p, g, k, ops)
           \/ CommitServerCommand(o, p, g, k, ops)
    PROVE  Abstract!Write
  <1> DEFINE sender == [origin |-> o, principal |-> p]
  <1>1. sender \in Senders /\ ops \in SUBSET Ops
    BY OpsAssumption DEF Senders
  <1>2. \/ Replay(k, sender, {ops}) \/ Replay(k, sender, SUBSET Ops)
        \/ \E b \in BOOLEAN : AppendUpdate(g, k, sender, ops, b)
    BY DEF AppendValidatedUpdate, CommitServerCommand
  <1> HIDE DEF sender
  <1> QED BY <1>1, <1>2, ReplayMaps, AppendMaps

\* A new document is an empty history.
LEMMA InitMaps == Init => Abstract!Init
  <1> SUFFICES ASSUME Init PROVE Abstract!Init
    OBVIOUS
  <1>1. ~Initialized /\ LatestSeq = 0 /\ PublishedSeq = 0
    BY DEF Init, Initialized, LatestSeq, PublishedSeq
  <1>2. AcceptedLog = <<>>
    BY <1>1 DEF AcceptedLog
  <1>3. NoopPositions = {} /\ AnsweredPositions = {}
    BY DEF Init, NoopPositions, AnsweredPositions
  <1>4. bootstrap = {} /\ document.content = {}
    BY DEF Init
  <1> QED BY <1>1, <1>2, <1>3, <1>4 DEF Abstract!Init

\* What changes neither rows nor answers nor content is invisible.
LEMMA InvisibleMaps ==
    ASSUME IInv, IInv', UNCHANGED <<storeVars, answers>>,
           document'.content = document.content
    PROVE  UNCHANGED Abstract!historyVars
  <1>1. /\ generations' = generations /\ updates' = updates
        /\ noopReceipts' = noopReceipts /\ bootstrap' = bootstrap
        /\ answers' = answers
    BY DEF storeVars
  <1>2. /\ Initialized' = Initialized /\ LatestSeq' = LatestSeq
        /\ PublishedSeq' = PublishedSeq
    BY <1>1 DEF Initialized, LatestSeq, PublishedSeq, HeadSeq, CurrentGeneration
  <1>3. AcceptedLog' = AcceptedLog
    BY <1>1, <1>2, LogKept
  <1> QED BY <1>1, <1>2, <1>3
         DEF Abstract!historyVars, NoopPositions, AnsweredPositions

\* Every step of the store is a step of the history, or invisible.
LEMMA StepMaps ==
    IInv /\ IInv' /\ [Next]_vars => [Abstract!Next]_(Abstract!historyVars)
  <1> SUFFICES ASSUME IInv, IInv', [Next]_vars
               PROVE  Abstract!Next \/ UNCHANGED Abstract!historyVars
    OBVIOUS
  <1>1. CASE Initialize
    BY <1>1, InitializeMaps DEF Abstract!Next
  <1>2. CASE ClientNext
    BY <1>2, ClientMaps DEF ClientNext, Abstract!Next
  <1>3. CASE CommandNext
    BY <1>3, CommandMaps DEF CommandNext, Abstract!Next
  <1>4. CASE \E k \in Keys, s \in Senders : FindDurableUpdateReplay(k, s)
    BY <1>4, ReplayMaps DEF FindDurableUpdateReplay, Abstract!Next
  <1>5. CASE \E g \in DOMAIN EnsuredGenerations : Checkpoint(g)
    BY <1>5, CheckpointMaps DEF Abstract!Next
  <1>6. CASE \E seq \in 1 .. MaxSeq : Project(seq)
    BY <1>6, ProjectMaps DEF Abstract!Next
  <1>7. CASE \E content \in Payloads :
               document.revision < MaxRevision
                 /\ SaveDocumentDraft(document.revision, content)
    BY <1>7, SaveMaps, OpsAssumption DEF Abstract!Next
  <1>8. CASE UNCHANGED vars
    BY <1>8, InvisibleMaps DEF vars, storeVars
  <1> QED BY <1>1, <1>2, <1>3, <1>4, <1>5, <1>6, <1>7, <1>8 DEF Next

\* The store implements AcceptedHistory: rotations, checkpoints, retries and
\* lost answers are invisible to those who write and read.
THEOREM Refinement == Spec => ImplementsAcceptedHistory
  <1>1. Spec => Abstract!Init /\ [][Abstract!Next]_(Abstract!historyVars)
    BY InitMaps, StepMaps, Invariance, PTL DEF Spec
  <1> QED BY <1>1 DEF ImplementsAcceptedHistory, Abstract!Spec

-----------------------------------------------------------------------------
(* Storage: what the current generation holds stays within its budget.     *)

\* One more update in a tail adds its own bytes.
LEMMA TailGrown ==
    ASSUME NEW tail, IsFiniteSet(tail), IsFiniteSet(Carried(tail)),
           NEW r, r \notin tail, IsFiniteSet(r.payload)
    PROVE  /\ IsFiniteSet(tail \cup {r})
           /\ IsFiniteSet(Carried(tail \cup {r}))
           /\ TailBytes(tail) \in Nat
           /\ Bytes(r.payload) \in Nat
           /\ TailBytes(tail \cup {r}) = TailBytes(tail) + Bytes(r.payload)
  <1> DEFINE own == {r} \X r.payload
             pair == [op \in r.payload |-> <<r, op>>]
  <1>1. IsFiniteSet(own) /\ Cardinality(own) = Cardinality(r.payload)
    <2>1. pair \in Bijection(r.payload, own)
      BY DEF Bijection, Injection, Surjection, IsInjective
    <2>2. ExistsBijection(r.payload, own)
      BY <2>1 DEF ExistsBijection
    <2> QED BY <2>2, FS_Bijection
  <1>2. Carried(tail \cup {r}) = Carried(tail) \cup own
    BY DEF Carried
  <1>3. Carried(tail) \cap own = {}
    BY DEF Carried
  <1>4. /\ Cardinality(r.payload) \in Nat
        /\ Cardinality(tail) \in Nat
        /\ Cardinality(Carried(tail)) \in Nat
    BY FS_CardinalityType
  <1> HIDE DEF own
  <1>5. /\ IsFiniteSet(Carried(tail) \cup own)
        /\ Cardinality(Carried(tail) \cup own)
             = Cardinality(Carried(tail)) + Cardinality(own) - Cardinality(Carried(tail) \cap own)
    BY <1>1, FS_Union
  <1>6. Cardinality(Carried(tail) \cap own) = 0
    BY <1>3, FS_EmptySet
  <1>7. IsFiniteSet(tail \cup {r}) /\ Cardinality(tail \cup {r}) = Cardinality(tail) + 1
    BY FS_AddElement
  <1>8. /\ TailBytes(tail) = Cardinality(tail) + Cardinality(Carried(tail))
        /\ Bytes(r.payload) = 1 + Cardinality(r.payload)
        /\ TailBytes(tail \cup {r})
             = Cardinality(tail \cup {r}) + Cardinality(Carried(tail) \cup own)
    BY <1>2 DEF TailBytes, Bytes
  <1>9. IsFiniteSet(Carried(tail \cup {r}))
    BY <1>2, <1>5
  <1>10. Cardinality(Carried(tail) \cup own)
           = Cardinality(Carried(tail)) + Cardinality(r.payload)
    BY <1>1, <1>4, <1>5, <1>6
  <1>11. TailBytes(tail \cup {r}) = TailBytes(tail) + Bytes(r.payload)
    BY <1>4, <1>7, <1>8, <1>10
  <1>12. TailBytes(tail) \in Nat /\ Bytes(r.payload) \in Nat
    BY <1>4, <1>8
  <1> QED BY <1>7, <1>9, <1>11, <1>12

\* An empty tail has no bytes.
LEMMA TailEmpty ==
    /\ IsFiniteSet({}) /\ IsFiniteSet(Carried({}))
    /\ TailBytes({}) = 0
  <1>1. Carried({}) = {}
    BY DEF Carried
  <1> QED BY <1>1, FS_EmptySet DEF TailBytes

\* A part of the updates is finite when they are.
LEMMA TailFinite ==
    ASSUME NEW rows, NEW tail \in SUBSET rows,
           IsFiniteSet(rows), IsFiniteSet(Carried(rows))
    PROVE  /\ IsFiniteSet(tail) /\ IsFiniteSet(Carried(tail))
           /\ TailBytes(tail) \in Nat
  <1>1. Carried(tail) \subseteq Carried(rows)
    BY DEF Carried
  <1>2. IsFiniteSet(tail) /\ IsFiniteSet(Carried(tail))
    BY <1>1, FS_Subset
  <1> QED BY <1>2, FS_CardinalityType DEF TailBytes

\* Contents and payloads are finite.
LEMMA BytesType ==
    ASSUME NEW ops \in SUBSET Ops
    PROVE  IsFiniteSet(ops) /\ Bytes(ops) \in Nat
  BY OpsAssumption, FS_Subset, FS_CardinalityType DEF Bytes

\* The bytes that a generation's row and its tail up to the head occupy.
Occupied(row, g, entries) ==
    Bytes(row.checkpoint)
      + TailBytes({u \in entries : /\ u.generation = g
                                   /\ u.seq > row.checkpointSeq
                                   /\ u.seq <= row.headSeq})

\* The budget holds in the newest generation, and everything counted is finite.
Bounded(rows, entries) ==
    Occupied(rows[Len(rows)], Len(rows), entries) <= CumulativeLimit

StorageInv ==
    /\ IsFiniteSet(updates) /\ IsFiniteSet(Carried(updates))
    /\ Initialized => Bounded(generations, updates)

LEMMA BoundedHolds ==
    ASSUME IInv, StorageInv
    PROVE  StorageBounded
  <1> SUFFICES ASSUME Initialized PROVE StorageBounded
    BY DEF StorageBounded
  <1>1. CurrentGeneration(generations) = Len(generations)
    BY Initialization
  <1> QED BY <1>1 DEF StorageInv, Bounded, Occupied, StorageBounded, DurableTail

\* The rows that a write works on keep the budget.
LEMMA EnsuredBounded ==
    ASSUME IInv, StorageInv, CanEnsureInitialized
    PROVE  Bounded(EnsuredGenerations, updates)
  <1>1. CASE Initialized
    BY <1>1 DEF StorageInv, EnsuredGenerations
  <1>2. CASE ~Initialized
    <2>1. updates = {} /\ Bytes(document.content) <= CheckpointLimit
      BY <1>2 DEF CanEnsureInitialized, IInv, StoreConsistent
    <2> DEFINE first == [isCurrent |-> TRUE, headSeq |-> 0, checkpointSeq |-> 0,
                         projectedSeq |-> 0, checkpoint |-> document.content]
    <2>2. EnsuredGenerations = <<first>>
      BY <1>2 DEF EnsuredGenerations
    <2>3. Occupied(first, 1, {}) = Bytes(document.content) + TailBytes({})
      BY DEF Occupied
    <2>4. Bytes(document.content) \in Nat
      BY BytesType DEF IInv, TypeOK, Document
    <2>5. Occupied(first, 1, {}) <= CumulativeLimit
      BY <2>1, <2>3, <2>4, TailEmpty, LimitAssumption
    <2> QED BY <2>1, <2>2, <2>5 DEF Bounded
  <1> QED BY <1>1, <1>2

\* Rows that keep checkpoint, number and head of the newest one keep the budget.
LEMMA SameOccupied ==
    ASSUME NEW rows, NEW new, NEW entries, Bounded(rows, entries),
           Len(new) = Len(rows),
           new[Len(new)].checkpoint = rows[Len(rows)].checkpoint,
           new[Len(new)].checkpointSeq = rows[Len(rows)].checkpointSeq,
           new[Len(new)].headSeq = rows[Len(rows)].headSeq
    PROVE  Bounded(new, entries)
  BY DEF Bounded, Occupied

\* A change rotates in time.
LEMMA ChangedBounded ==
    ASSUME IInv, IInv', StorageInv, EnsureInitialized, UNCHANGED epochs,
           NEW key \in Keys, NEW sender \in Senders, NEW payload \in SUBSET Ops,
           FindIdempotentReceipt(key) = {},
           WithinStorageBudget(EnsuredGenerations, payload),
           ~(payload \subseteq LoadSnapshot(EnsuredGenerations, HeadSeq(EnsuredGenerations))),
           NEW publishes \in BOOLEAN,
           CommitChangedAppend(EnsuredGenerations, key, sender, payload, publishes)
    PROVE  StorageInv'
  <1> DEFINE rows == EnsuredGenerations
             old == rows[Len(rows)]
             head == HeadSeq(rows)
             state == LoadSnapshot(rows, head)
             g == Len(generations')
             newest == generations'[g]
             tail == {u \in updates : /\ u.generation = Len(rows)
                                      /\ u.seq > old.checkpointSeq
                                      /\ u.seq <= head}
  <1>1. PICK r \in Receipt :
          /\ r.key = key /\ r.payload = payload
          /\ r.seq = head + 1 /\ r.generation = g
          /\ updates' = updates \cup {r}
          /\ newest.headSeq = r.seq
          /\ IF ShouldRotateAppend(rows, payload)
             THEN /\ newest.checkpointSeq = head
                  /\ newest.checkpoint = state
             ELSE /\ g = Len(rows)
                  /\ newest.checkpointSeq = old.checkpointSeq
                  /\ newest.checkpoint = old.checkpoint
    BY ChangedStep DEF ChangeStored
  <1>2. /\ head = LatestSeq /\ head = old.headSeq
        /\ CurrentGeneration(rows) = Len(rows)
        /\ Bounded(rows, updates)
        /\ old \in Generation
        /\ state \in SUBSET Ops
    BY EnsuredPositions, Ensuring, EnsuredBounded, LoadedType
       DEF EnsureInitialized, IInv, Consistent
  <1>3. \A u \in updates : u.seq \in Nat /\ u.seq <= head
    BY <1>2, LogFacts DEF LogSound
  <1>4. head \in Nat /\ old.checkpointSeq \in Nat /\ old.checkpointSeq <= head
    BY <1>2, LogFacts, Ensuring DEF LogSound, Generation, Consistent, Fenced
  <1>5. r \notin updates
    BY <1>1, <1>3, <1>4
  <1>6. /\ IsFiniteSet(payload) /\ Bytes(payload) \in Nat
        /\ Bytes(state) \in Nat /\ Bytes(old.checkpoint) \in Nat
    BY <1>2, BytesType DEF Generation
  <1> HIDE DEF rows, old, head, state, newest, g
  <1>7. IsFiniteSet(updates') /\ IsFiniteSet(Carried(updates'))
    BY <1>1, <1>5, <1>6, TailGrown DEF StorageInv
  <1>8. Occupied(newest, g, updates') <= CumulativeLimit
    <2>1. CASE ShouldRotateAppend(rows, payload)
      <3>1. {u \in updates' : u.generation = g /\ u.seq > newest.checkpointSeq
                                /\ u.seq <= newest.headSeq} = {} \cup {r}
        BY <1>1, <1>3, <1>4, <2>1
      <3>2. TailBytes({} \cup {r}) = 0 + Bytes(payload)
        BY <1>1, <1>6, TailEmpty, TailGrown
      <3>3. Bytes(state) + Bytes(payload) <= CumulativeLimit
        BY <2>1 DEF WithinStorageBudget, rows, state, head
      <3>4. newest.checkpoint = state
        BY <1>1, <2>1
      <3>5. Occupied(newest, g, updates')
              = Bytes(newest.checkpoint) + TailBytes({} \cup {r})
        BY <3>1 DEF Occupied
      <3> QED BY <1>6, <3>2, <3>3, <3>4, <3>5
    <2>2. CASE ~ShouldRotateAppend(rows, payload)
      <3>1. {u \in updates' : u.generation = g /\ u.seq > newest.checkpointSeq
                                /\ u.seq <= newest.headSeq} = tail \cup {r}
        BY <1>1, <1>3, <1>4, <2>2
      <3>2. /\ TailBytes(tail) \in Nat
            /\ TailBytes(tail \cup {r}) = TailBytes(tail) + Bytes(payload)
        <4>1. tail \in SUBSET updates /\ r \notin tail
          BY <1>5
        <4>2. IsFiniteSet(tail) /\ IsFiniteSet(Carried(tail))
          BY <4>1, TailFinite DEF StorageInv
        <4> HIDE DEF tail
        <4> QED BY <1>1, <1>6, <4>1, <4>2, TailGrown
      <3>3. ~(Bytes(old.checkpoint) + TailBytes(tail) + Bytes(payload) > CumulativeLimit)
        <4>1. DurableTail(rows, Len(rows), head) = tail
          BY DEF DurableTail, old
        <4> QED BY <1>2, <2>2, <4>1 DEF ShouldRotateAppend, old
      <3>4. newest.checkpoint = old.checkpoint
        BY <1>1, <2>2
      <3>5. Occupied(newest, g, updates')
              = Bytes(newest.checkpoint) + TailBytes(tail \cup {r})
        BY <3>1 DEF Occupied
      <3> HIDE DEF tail
      <3>6. Bytes(old.checkpoint) + (TailBytes(tail) + Bytes(payload)) <= CumulativeLimit
        BY <1>6, <3>2, <3>3, LimitAssumption
      <3> QED BY <3>2, <3>4, <3>5, <3>6
    <2> QED BY <2>1, <2>2
  <1> QED BY <1>7, <1>8 DEF StorageInv, Bounded, newest, g

LEMMA NoopBounded ==
    ASSUME IInv, StorageInv, EnsureInitialized, NEW key, NEW sender, NEW payload,
           NEW publishes,
           CommitNoopAppend(EnsuredGenerations, key, sender, payload, publishes)
    PROVE  StorageInv'
  <1>1. generations' = EnsuredGenerations /\ updates' = updates
    BY DEF CommitNoopAppend
  <1>2. Bounded(EnsuredGenerations, updates)
    BY EnsuredBounded DEF EnsureInitialized
  <1> QED BY <1>1, <1>2 DEF StorageInv

LEMMA AppendBounded ==
    ASSUME IInv, IInv', StorageInv, NEW generation, NEW key \in Keys,
           NEW sender \in Senders, NEW payload \in SUBSET Ops,
           NEW publishes \in BOOLEAN,
           AppendUpdate(generation, key, sender, payload, publishes)
    PROVE  StorageInv'
  BY NoopBounded, ChangedBounded DEF AppendUpdate

\* A checkpoint leaves an empty tail.
LEMMA CheckpointBounded ==
    ASSUME IInv, StorageInv, NEW generation, Checkpoint(generation)
    PROVE  StorageInv'
  <1> DEFINE last == generations[Len(generations)]
             state == LoadSnapshot(generations, last.headSeq)
  <1>1. PICK row \in Generation :
          /\ generations' = [generations EXCEPT ![Len(generations)] = row]
          /\ row.headSeq = last.headSeq /\ row.checkpointSeq = last.headSeq
          /\ row.checkpoint = state /\ Bytes(state) <= CheckpointLimit
          /\ Initialized /\ updates' = updates
    BY CheckpointRow
  <1>2. Len(generations') = Len(generations) /\ generations'[Len(generations)] = row
    BY <1>1, CurrentRowReplaced
  <1>3. row.headSeq \in Nat /\ \A u \in updates : u.seq \in Nat
    BY <1>1 DEF Generation, IInv, TypeOK, Receipt
  <1>4. {u \in updates : /\ u.generation = Len(generations)
                         /\ u.seq > row.checkpointSeq /\ u.seq <= row.headSeq} = {}
    BY <1>1, <1>3
  <1>5. Occupied(row, Len(generations), updates) = Bytes(state) + TailBytes({})
    BY <1>1, <1>4 DEF Occupied
  <1>6. Bytes(state) \in Nat
    BY <1>1, BytesType DEF Generation
  <1>7. Occupied(row, Len(generations), updates) <= CumulativeLimit
    BY <1>1, <1>5, <1>6, TailEmpty, LimitAssumption
  <1> QED BY <1>1, <1>2, <1>7 DEF StorageInv, Bounded

LEMMA ProjectBounded ==
    ASSUME IInv, StorageInv, NEW n \in Nat, Project(n)
    PROVE  StorageInv'
  <1> DEFINE last == generations[Len(generations)]
  <1>1. PICK row \in Generation :
          /\ generations' = [generations EXCEPT ![Len(generations)] = row]
          /\ row.headSeq = last.headSeq /\ row.checkpointSeq = last.checkpointSeq
          /\ row.checkpoint = last.checkpoint
          /\ Initialized /\ updates' = updates
    BY ProjectRow
  <1>2. Len(generations') = Len(generations) /\ generations'[Len(generations)] = row
    BY <1>1, CurrentRowReplaced
  <1>3. Bounded(generations', updates)
    BY <1>1, <1>2, SameOccupied DEF StorageInv
  <1> QED BY <1>1, <1>3 DEF StorageInv

\* Steps that leave the rows and the updates alone.
LEMMA UntouchedBounded ==
    ASSUME StorageInv, UNCHANGED <<generations, updates>>
    PROVE  StorageInv'
  BY DEF StorageInv, Initialized

LEMMA StorageStep ==
    IInv /\ IInv' /\ StorageInv /\ [Next]_vars => StorageInv'
  <1> SUFFICES ASSUME IInv, IInv', StorageInv, [Next]_vars PROVE StorageInv'
    OBVIOUS
  <1>1. CASE Initialize
    <2>1. CanEnsureInitialized /\ generations' = EnsuredGenerations /\ updates' = updates
      BY <1>1 DEF Initialize, EnsureInitialized
    <2>2. Bounded(EnsuredGenerations, updates)
      BY <2>1, EnsuredBounded
    <2> QED BY <2>1, <2>2 DEF StorageInv
  <1>2. CASE ClientNext
    <2>1. PICK p \in Principals, g \in DOMAIN EnsuredGenerations, k \in Keys,
               ops \in Payloads :
            AppendAuthorizedClientUpdate(p, g, epochs[p], k, ops)
      BY <1>2 DEF ClientNext
    <2> DEFINE sender == [origin |-> "client", principal |-> p]
    <2>2. sender \in Senders /\ ops \in SUBSET Ops
      BY <2>1, OpsAssumption DEF AppendAuthorizedClientUpdate, Senders
    <2>3. Replay(k, sender, {ops}) \/ AppendUpdate(g, k, sender, ops, FALSE)
      BY <2>1 DEF AppendAuthorizedClientUpdate
    <2> HIDE DEF sender
    <2>4. CASE Replay(k, sender, {ops})
      BY <2>4, UntouchedBounded DEF Replay, storeVars
    <2>5. CASE AppendUpdate(g, k, sender, ops, FALSE)
      BY <2>2, <2>5, AppendBounded
    <2> QED BY <2>3, <2>4, <2>5
  <1>3. CASE CommandNext
    <2>1. PICK o \in Origins, p \in Principals, g \in DOMAIN EnsuredGenerations,
               k \in Keys, ops \in Payloads :
            \/ AppendValidatedUpdate(o, p, g, k, ops)
            \/ CommitServerCommand(o, p, g, k, ops)
      BY <1>3 DEF CommandNext
    <2> DEFINE sender == [origin |-> o, principal |-> p]
    <2>2. sender \in Senders /\ ops \in SUBSET Ops
      BY OpsAssumption DEF Senders
    <2>3. \/ Replay(k, sender, {ops}) \/ Replay(k, sender, SUBSET Ops)
          \/ \E b \in BOOLEAN : AppendUpdate(g, k, sender, ops, b)
      BY <2>1 DEF AppendValidatedUpdate, CommitServerCommand
    <2> HIDE DEF sender
    <2>4. CASE Replay(k, sender, {ops}) \/ Replay(k, sender, SUBSET Ops)
      BY <2>4, UntouchedBounded DEF Replay, storeVars
    <2>5. CASE \E b \in BOOLEAN : AppendUpdate(g, k, sender, ops, b)
      BY <2>2, <2>5, AppendBounded
    <2> QED BY <2>3, <2>4, <2>5
  <1>4. CASE \E k \in Keys, s \in Senders : FindDurableUpdateReplay(k, s)
    BY <1>4, UntouchedBounded DEF FindDurableUpdateReplay, Replay, storeVars
  <1>5. CASE \E g \in DOMAIN EnsuredGenerations : Checkpoint(g)
    BY <1>5, CheckpointBounded
  <1>6. CASE \E seq \in 1 .. MaxSeq : Project(seq)
    BY <1>6, ProjectBounded
  <1>7. CASE \E content \in Payloads :
               document.revision < MaxRevision
                 /\ SaveDocumentDraft(document.revision, content)
    BY <1>7, UntouchedBounded DEF SaveDocumentDraft, storeVars
  <1>8. CASE UNCHANGED vars
    BY <1>8, UntouchedBounded DEF vars
  <1> QED BY <1>1, <1>2, <1>3, <1>4, <1>5, <1>6, <1>7, <1>8 DEF Next

LEMMA InitBounded == Init => StorageInv
  BY TailEmpty DEF Init, StorageInv, Initialized

\* The checkpoint and the tail of the current generation never outgrow the
\* cumulative budget, whatever appends, checkpoints and projections interleave:
\* an append that would exceed it rotates first.
THEOREM StorageStaysBounded == Spec => []StorageBounded
  <1>1. Spec => []StorageInv
    BY InitBounded, StorageStep, Invariance, PTL DEF Spec
  <1> QED BY <1>1, BoundedHolds, Invariance, PTL


-----------------------------------------------------------------------------
(*                                                                         *)
(* The review workflow and archival.                                       *)
(*                                                                         *)
-----------------------------------------------------------------------------
(* The inductive invariant.                                                *)

\* Approval rows exist only for a collaborative document, and no row names a
\* position that the history has not reached.
ApprovalsPlaced ==
    /\ approvals # <<>> => Initialized
    /\ \A i \in DOMAIN approvals : approvals[i].headSeq <= LatestSeq

\* An approval in force is the newest row and sits at the head; without one the
\* document is "approved" only from before collaboration.
ApprovalInForce ==
    /\ \A i \in ActiveApprovals : i = Len(approvals)
    /\ \A i \in ActiveApprovals :
         /\ document.readiness = "approved"
         /\ approvals[i].generation = Len(generations)
         /\ approvals[i].headSeq = LatestSeq
    /\ (document.readiness = "approved" /\ ActiveApprovals = {})
         => approvals = <<>> /\ updates = {}

\* Jobs never run ahead of the document they were written for.
JobsSound ==
    /\ notification \in Job
    /\ closure \in Job
    /\ notification.workflowRevision <= document.revision
    /\ notification.generation <= Len(generations)
    /\ ClosureNamesLiveRoom

WInv ==
    /\ IInv
    /\ ApprovalsPlaced
    /\ ApprovalTrail
    /\ ApprovalInForce
    /\ JobsSound

-----------------------------------------------------------------------------
(* A step of the store, as the workflow sees it.                           *)

\* Nothing is accepted.
Quiet ==
    /\ UNCHANGED <<updates, approvals>>
    /\ document'.status = document.status
    /\ document'.readiness = document.readiness
    /\ LatestSeq' = LatestSeq
    /\ Initialized => /\ generations' # <<>>
                      /\ Len(generations') = Len(generations)
                      /\ bootstrap' = bootstrap
    /\ Len(generations) <= Len(generations')
    /\ document.status = "archived" => /\ Len(generations') = Len(generations)
                                       /\ UNCHANGED noopReceipts

Unapproves ==
    \/ \E i \in DOMAIN approvals : Active(approvals[i])
    \/ document.readiness = "approved"

\* One update is accepted, at the next number; whatever was approved falls.
Accepts(r) ==
    /\ document.status = "draft"
    /\ document'.status = "draft"
    /\ document'.readiness = IF Unapproves THEN "needs_review"
                             ELSE document.readiness
    /\ r.seq = LatestSeq + 1
    /\ LatestSeq' = LatestSeq + 1
    /\ updates' = updates \cup {r}
    /\ approvals' = [i \in DOMAIN approvals |->
                       IF Active(approvals[i])
                       THEN [approvals[i] EXCEPT !.invalidatedSeq = LatestSeq + 1]
                       ELSE approvals[i]]
    /\ generations' # <<>>
    /\ Len(generations) <= Len(generations')
    /\ Initialized => bootstrap' = bootstrap

StoreEffect == Quiet \/ \E r : Accepts(r)

\* LatestSeq in terms of the newest row.
LEMMA LatestIsLast ==
    ASSUME IInv
    PROVE  /\ LatestSeq \in Nat
           /\ Len(generations) \in Nat
           /\ Initialized =>
                /\ LatestSeq = generations[Len(generations)].headSeq
                /\ Len(generations) > 0
           /\ ~Initialized => LatestSeq = 0 /\ Len(generations) = 0
  <1>1. CASE Initialized
    BY <1>1, Initialization DEF LatestSeq, Generation
  <1>2. CASE ~Initialized
    BY <1>2 DEF LatestSeq, Initialized
  <1> QED BY <1>1, <1>2

\* The same after a step.
LEMMA LatestAfter ==
    ASSUME IInv', generations' # <<>>
    PROVE  /\ LatestSeq' = generations'[Len(generations')].headSeq
           /\ Len(generations') \in Nat \ {0}
           /\ CurrentGeneration(generations') = Len(generations')
           /\ DOMAIN generations' = 1 .. Len(generations')
           /\ generations'[Len(generations')] \in Generation
  <1>1. Initialized'
    BY DEF Initialized
  <1>2. Chained(generations')
    BY <1>1 DEF IInv, StoreConsistent, Consistent
  <1>3. /\ Len(generations') \in Nat \ {0}
        /\ CurrentGeneration(generations') = Len(generations')
        /\ DOMAIN generations' = 1 .. Len(generations')
        /\ \A g \in 1 .. Len(generations') : generations'[g] \in Generation
    BY <1>2, CurrentIsLast
  <1>4. Len(generations') \in 1 .. Len(generations')
    BY <1>3
  <1>5. LatestSeq' = generations'[CurrentGeneration(generations')].headSeq
    BY <1>1 DEF LatestSeq, HeadSeq, CurrentGeneration
  <1> QED BY <1>3, <1>4, <1>5

\* A step that rewrites rows in place and neither appends nor decides.
LEMMA InPlace ==
    ASSUME IInv, IInv', UNCHANGED <<updates, approvals, noopReceipts>>,
           Initialized, UNCHANGED bootstrap,
           document'.status = document.status,
           document'.readiness = document.readiness,
           Len(generations') = Len(generations),
           generations'[Len(generations)].headSeq
             = generations[Len(generations)].headSeq
    PROVE  Quiet
  <1>1. /\ Len(generations) \in Nat
        /\ Len(generations) > 0
        /\ LatestSeq = generations[Len(generations)].headSeq
    BY LatestIsLast
  <1>2. generations' # <<>>
    BY <1>1
  <1>3. LatestSeq' = LatestSeq
    BY <1>1, <1>2, LatestAfter
  <1> QED BY <1>1, <1>2, <1>3 DEF Quiet

\* Initialization by itself or as the prefix of a no-op.
LEMMA EnsuringEffect ==
    ASSUME IInv, IInv', EnsureInitialized, generations' = EnsuredGenerations,
           UNCHANGED <<updates, approvals>>,
           document'.status = document.status,
           document'.readiness = document.readiness,
           document.status = "archived" => UNCHANGED noopReceipts
    PROVE  Quiet
  <1>1. CASE Initialized
    <2>1. generations' = generations /\ bootstrap' = bootstrap
      BY <1>1 DEF EnsuredGenerations, EnsureInitialized
    <2>2. LatestSeq' = LatestSeq
      BY <2>1 DEF LatestSeq, Initialized, HeadSeq, CurrentGeneration
    <2>3. Len(generations) \in Nat
      BY LatestIsLast
    <2> QED BY <1>1, <2>1, <2>2, <2>3 DEF Quiet, Initialized
  <1>2. CASE ~Initialized
    <2>1. document.status = "draft"
      BY <1>2 DEF EnsureInitialized, CanEnsureInitialized
    <2>2. /\ Len(generations') = 1
          /\ generations' # <<>>
          /\ generations'[1].headSeq = 0
      BY <1>2 DEF EnsuredGenerations
    <2>3. LatestSeq' = 0
      BY <2>2, LatestAfter
    <2>4. LatestSeq = 0 /\ Len(generations) = 0
      BY <1>2, LatestIsLast
    <2> QED BY <1>2, <2>1, <2>2, <2>3, <2>4 DEF Quiet
  <1> QED BY <1>1, <1>2

\* An accepted update is numbered after the head of the document, whether or
\* not it initializes the document or rotates its generation.
LEMMA ChangedEffect ==
    ASSUME IInv, IInv', EnsureInitialized, document.status = "draft",
           NEW key, NEW sender, NEW payload, NEW publishes \in BOOLEAN,
           CommitChangedAppend(EnsuredGenerations, key, sender, payload, publishes)
    PROVE  \E r : Accepts(r)
  <1> DEFINE rows == EnsuredGenerations
             rotates == ShouldRotateAppend(rows, payload)
             basis == IF rotates THEN Rotate(rows) ELSE rows
             g == Len(basis)
             head == HeadSeq(rows)
             projects == rotates /\ ProjectsBeforeRotation(rows)
  <1>1. /\ Consistent(rows, updates, EnsuredBootstrap)
        /\ EnsuredBootstrap \in SUBSET Ops
        /\ Len(rows) \in Nat \ {0}
        /\ head = rows[Len(rows)].headSeq
        /\ head \in Nat
    BY Ensuring
  <1>2. /\ Consistent(basis, updates, EnsuredBootstrap)
        /\ Len(rows) <= Len(basis)
        /\ basis[g].headSeq = head
    <2>1. CASE rotates
      <3>1. basis = Rotate(rows)
        BY <2>1
      <3> HIDE DEF rows, rotates, basis
      <3>2. TypeOK /\ Consistent(rows, updates, EnsuredBootstrap)
        BY <1>1 DEF IInv
      <3>3. /\ Consistent(Rotate(rows), updates, EnsuredBootstrap)
            /\ Len(Rotate(rows)) = Len(rows) + 1
            /\ Rotate(rows)[Len(rows) + 1].headSeq = rows[Len(rows)].headSeq
        BY <3>2, RotateConsistent
      <3> QED BY <1>1, <3>1, <3>3
    <2>2. CASE ~rotates
      <3>1. basis = rows
        BY <2>2
      <3> HIDE DEF rows, rotates, basis
      <3> QED BY <1>1, <2>2, <3>1
    <2> QED BY <2>1, <2>2
  <1>3. /\ g \in Nat \ {0}
        /\ DOMAIN basis = 1 .. g
        /\ basis \in Seq(Generation)
        /\ CurrentGeneration(basis) = g
        /\ \A h \in 1 .. g : basis[h] \in Generation
    <2> HIDE DEF basis
    <2> QED BY <1>2, CurrentIsLast DEF Consistent, Chained
  <1>4. PICK r : r = [generation |-> CurrentGeneration(basis),
                      seq |-> basis[CurrentGeneration(basis)].headSeq + 1,
                      key |-> key, sender |-> sender, payload |-> payload]
    OBVIOUS
  <1>5. /\ generations' = [basis EXCEPT ![CurrentGeneration(basis)] =
             [basis[CurrentGeneration(basis)] EXCEPT
                !.headSeq = basis[CurrentGeneration(basis)].headSeq + 1,
                !.projectedSeq = IF publishes
                                 THEN basis[CurrentGeneration(basis)].headSeq + 1
                                 ELSE @]]
        /\ updates' = updates \cup {r}
        /\ approvals' = [i \in DOMAIN approvals |->
             IF Active(approvals[i])
             THEN [approvals[i] EXCEPT
                     !.invalidatedSeq = basis[CurrentGeneration(basis)].headSeq + 1]
             ELSE approvals[i]]
        /\ document' = [document EXCEPT
             !.content = IF publishes THEN LoadSnapshot(rows, head) \cup payload
                         ELSE IF projects THEN LoadSnapshot(rows, head) ELSE @,
             !.readiness = IF Unapproves THEN "needs_review" ELSE @,
             !.revision = RevisionAfter(@, projects, Unapproves, publishes)]
    BY <1>4 DEF CommitChangedAppend, Unapproves
  <1> HIDE DEF rows, rotates, basis, head, projects
  <1>6. head = LatestSeq /\ Len(generations) <= Len(rows)
    <2>1. CASE Initialized
      <3>1. rows = generations
        BY <2>1 DEF rows, EnsuredGenerations
      <3> QED BY <1>1, <2>1, <3>1 DEF head, LatestSeq
    <2>2. CASE ~Initialized
      <3>1. Len(rows) = 1 /\ rows[1].headSeq = 0
        BY <2>2 DEF rows, EnsuredGenerations
      <3> QED BY <1>1, <2>2, <3>1, LatestIsLast
    <2> QED BY <2>1, <2>2
  <1>7. basis[CurrentGeneration(basis)].headSeq = LatestSeq /\ LatestSeq \in Nat
    BY <1>1, <1>2, <1>3, <1>6
  <1>8. /\ generations' = [basis EXCEPT ![g] =
             [basis[g] EXCEPT !.headSeq = LatestSeq + 1,
                              !.projectedSeq = IF publishes THEN LatestSeq + 1 ELSE @]]
        /\ r.seq = LatestSeq + 1
        /\ approvals' = [i \in DOMAIN approvals |->
                           IF Active(approvals[i])
                           THEN [approvals[i] EXCEPT !.invalidatedSeq = LatestSeq + 1]
                           ELSE approvals[i]]
    BY <1>3, <1>4, <1>5, <1>7
  <1>9. Len(generations') = g /\ generations'[g].headSeq = LatestSeq + 1
    <2>1. /\ g \in 1 .. Len(basis)
          /\ basis[g] \in Generation
      BY <1>3
    <2>2. PICK n \in Nat : n = IF publishes THEN LatestSeq + 1
                               ELSE basis[g].projectedSeq
      BY <1>7, <2>1 DEF Generation
    <2>3. PICK row : row = [basis[g] EXCEPT !.headSeq = LatestSeq + 1,
                                            !.projectedSeq = n]
      OBVIOUS
    <2>4. row \in Generation /\ row.headSeq = LatestSeq + 1
      <3>1. LatestSeq + 1 \in Nat
        BY <1>7
      <3>2. basis[g] \in Generation /\ n \in Nat
        BY <2>1, <2>2
      <3> QED BY ONLY <2>3, <3>1, <3>2 DEF Generation
    <2>5. generations' = [basis EXCEPT ![g] = row]
      BY <1>8, <2>2, <2>3
    <2> QED BY <1>3, <2>1, <2>4, <2>5, ReplaceAt
  <1>10. generations' # <<>> /\ LatestSeq' = LatestSeq + 1
    <2>1. generations' # <<>>
      BY <1>3, <1>9
    <2> QED BY <1>9, <2>1, LatestAfter
  <1>11. /\ document'.status = "draft"
         /\ document'.readiness = IF Unapproves THEN "needs_review"
                                  ELSE document.readiness
    <2>1. document \in Document
      BY DEF IInv, TypeOK
    <2> QED BY <1>5, <2>1 DEF Document
  <1>12. Len(generations) <= Len(generations')
    BY <1>1, <1>2, <1>3, <1>6, <1>9, LatestIsLast
  <1>13. Initialized => bootstrap' = bootstrap
    BY DEF EnsureInitialized
  <1> QED BY <1>5, <1>8, <1>10, <1>11, <1>12, <1>13 DEF Accepts

\* An append, retried or not.
LEMMA AppendEffect ==
    ASSUME IInv, IInv', NEW generation, NEW key, NEW sender, NEW payload,
           NEW publishes \in BOOLEAN,
           AppendUpdate(generation, key, sender, payload, publishes)
    PROVE  StoreEffect
  <1>1. /\ EnsureInitialized
        /\ document.status = "draft"
        /\ \/ CommitNoopAppend(EnsuredGenerations, key, sender, payload, publishes)
           \/ CommitChangedAppend(EnsuredGenerations, key, sender, payload, publishes)
    BY DEF AppendUpdate
  <1>2. CASE CommitNoopAppend(EnsuredGenerations, key, sender, payload, publishes)
    <2>1. /\ document'.status = document.status
          /\ document'.readiness = document.readiness
      BY <1>2 DEF CommitNoopAppend, WriteMaterializedDocument, IInv, TypeOK, Document
    <2> QED BY <1>1, <1>2, <2>1, EnsuringEffect DEF CommitNoopAppend, StoreEffect
  <1>3. CASE CommitChangedAppend(EnsuredGenerations, key, sender, payload, publishes)
    BY <1>1, <1>3, ChangedEffect DEF StoreEffect
  <1> QED BY <1>1, <1>2, <1>3

\* A step that leaves the rows alone.
LEMMA UntouchedEffect ==
    ASSUME IInv, UNCHANGED <<storeVars, approvals>>,
           document'.status = document.status,
           document'.readiness = document.readiness
    PROVE  StoreEffect
  <1>1. /\ generations' = generations
        /\ UNCHANGED <<updates, noopReceipts, bootstrap>>
    BY DEF storeVars
  <1>2. LatestSeq' = LatestSeq
    BY <1>1 DEF LatestSeq, Initialized, HeadSeq, CurrentGeneration
  <1>3. Len(generations) \in Nat
    BY LatestIsLast
  <1> QED BY <1>1, <1>2, <1>3 DEF StoreEffect, Quiet, Initialized

LEMMA ReplayEffect ==
    ASSUME IInv, NEW key, NEW sender, NEW payloads, Replay(key, sender, payloads)
    PROVE  StoreEffect
  BY UntouchedEffect DEF Replay

\* Checkpoints and projections keep status and readiness.
LEMMA PublishedDocument ==
    ASSUME IInv, NEW content,
           WriteMaterializedDocument(content) \/ UNCHANGED document
    PROVE  /\ document'.status = document.status
           /\ document'.readiness = document.readiness
  <1>1. document \in Document
    BY DEF IInv, TypeOK
  <1> QED BY <1>1 DEF WriteMaterializedDocument, Document

\* What every step of the store may do to the workflow.
LEMMA StoreEffects ==
    ASSUME IInv, IInv', [Next]_vars
    PROVE  StoreEffect
  <1>1. CASE Initialize
    BY <1>1, EnsuringEffect DEF Initialize, StoreEffect
  <1>2. CASE ClientNext
    <2>1. PICK p \in Principals, g \in DOMAIN EnsuredGenerations, k \in Keys,
               ops \in Payloads :
            AppendAuthorizedClientUpdate(p, g, epochs[p], k, ops)
      BY <1>2 DEF ClientNext
    <2> DEFINE sender == [origin |-> "client", principal |-> p]
    <2>2. Replay(k, sender, {ops}) \/ AppendUpdate(g, k, sender, ops, FALSE)
      BY <2>1 DEF AppendAuthorizedClientUpdate
    <2> HIDE DEF sender
    <2> QED BY <2>2, ReplayEffect, AppendEffect
  <1>3. CASE CommandNext
    <2>1. PICK o \in Origins, p \in Principals, g \in DOMAIN EnsuredGenerations,
               k \in Keys, ops \in Payloads :
            \/ AppendValidatedUpdate(o, p, g, k, ops)
            \/ CommitServerCommand(o, p, g, k, ops)
      BY <1>3 DEF CommandNext
    <2> DEFINE sender == [origin |-> o, principal |-> p]
    <2>2. \/ Replay(k, sender, {ops})
          \/ Replay(k, sender, SUBSET Ops)
          \/ \E b \in BOOLEAN : AppendUpdate(g, k, sender, ops, b)
      BY <2>1 DEF AppendValidatedUpdate, CommitServerCommand
    <2> HIDE DEF sender
    <2> QED BY <2>2, ReplayEffect, AppendEffect
  <1>4. CASE \E k \in Keys, s \in Senders : FindDurableUpdateReplay(k, s)
    BY <1>4, ReplayEffect DEF FindDurableUpdateReplay
  <1>5. CASE \E g \in DOMAIN EnsuredGenerations : Checkpoint(g)
    BY <1>5, CheckpointRow, CurrentRowReplaced, PublishedDocument, InPlace
       DEF StoreEffect
  <1>6. CASE \E seq \in 1 .. MaxSeq : Project(seq)
    <2>1. PICK seq \in 1 .. MaxSeq : Project(seq)
      BY <1>6
    <2>2. seq \in Nat
      OBVIOUS
    <2> QED BY <2>1, <2>2, ProjectRow, CurrentRowReplaced, PublishedDocument, InPlace
            DEF StoreEffect
  <1>7. CASE \E content \in Payloads :
               document.revision < MaxRevision
                 /\ SaveDocumentDraft(document.revision, content)
    <2>1. PICK content : SaveDocumentDraft(document.revision, content)
      BY <1>7
    <2>2. /\ WriteMaterializedDocument(content)
          /\ UNCHANGED <<storeVars, approvals>>
      BY <2>1 DEF SaveDocumentDraft, WriteMaterializedDocument
    <2> QED BY <2>2, PublishedDocument, UntouchedEffect
  <1>8. CASE UNCHANGED vars
    BY <1>8, UntouchedEffect DEF vars, storeVars
  <1> QED BY <1>1, <1>2, <1>3, <1>4, <1>5, <1>6, <1>7, <1>8 DEF Next

-----------------------------------------------------------------------------
(* The invariant across a step of the store.                               *)

\* What an approval was given for stays what the history says.
LEMMA HistoryKept ==
    ASSUME IInv, Initialized, StoreEffect,
           NEW seq \in Nat, seq <= LatestSeq
    PROVE  Through(bootstrap', updates', seq) = Through(bootstrap, updates, seq)
  <1>1. CASE Quiet
    BY <1>1 DEF Quiet
  <1>2. CASE \E r : Accepts(r)
    <2>1. PICK r : Accepts(r)
      BY <1>2
    <2>2. /\ r.seq \in Nat
          /\ seq < r.seq
          /\ updates' = updates \cup {r}
          /\ bootstrap' = bootstrap
      BY <2>1, LatestIsLast DEF Accepts
    <2>3. Through(bootstrap, updates \cup {r}, seq) = Through(bootstrap, updates, seq)
      BY <2>2, ThroughBelow
    <2> QED BY <2>2, <2>3
  <1> QED BY <1>1, <1>2 DEF StoreEffect

\* Approval rows, typed.
LEMMA ApprovalRows ==
    ASSUME IInv
    PROVE  /\ approvals \in Seq(Approval)
           /\ Len(approvals) \in Nat
           /\ DOMAIN approvals = 1 .. Len(approvals)
           /\ \A i \in DOMAIN approvals :
                /\ approvals[i] \in Approval
                /\ approvals[i].headSeq \in Nat
                /\ approvals[i].invalidatedSeq \in Nat
  <1>1. approvals \in Seq(Approval)
    BY DEF IInv, TypeOK
  <1>2. \A a \in Approval : a.headSeq \in Nat /\ a.invalidatedSeq \in Nat
    BY DEF Approval
  <1> QED BY <1>1, <1>2

\* A step that accepts nothing keeps the approvals and what they say.
LEMMA QuietKeeps ==
    ASSUME WInv, IInv', Quiet
    PROVE  ApprovalsPlaced' /\ ApprovalTrail' /\ ApprovalInForce'
  <1>1. /\ approvals' = approvals
        /\ updates' = updates
        /\ LatestSeq' = LatestSeq
        /\ document'.readiness = document.readiness
    BY DEF Quiet
  <1>2. CASE approvals = <<>>
    <2>1. DOMAIN approvals = {} /\ DOMAIN approvals' = {}
      BY <1>1, <1>2
    <2>2. ActiveApprovals = {} /\ ActiveApprovals' = {}
      BY <2>1 DEF ActiveApprovals
    <2>3. ApprovalInForce'
      BY <1>1, <2>2 DEF WInv, ApprovalInForce
    <2>4. ApprovalsPlaced' /\ ApprovalTrail'
      BY <1>1, <1>2, <2>1 DEF ApprovalsPlaced, ApprovalTrail
    <2> QED BY <2>3, <2>4
  <1>3. CASE approvals # <<>>
    <2>1. /\ Initialized
          /\ generations' # <<>>
          /\ Len(generations') = Len(generations)
          /\ bootstrap' = bootstrap
      BY <1>3 DEF WInv, ApprovalsPlaced, Quiet
    <2>2. ApprovalsPlaced'
      BY <1>1, <2>1 DEF WInv, ApprovalsPlaced, Initialized
    <2>3. ApprovalTrail'
      BY <1>1, <2>1 DEF WInv, ApprovalTrail, HistoryThrough
    <2>4. ActiveApprovals' = ActiveApprovals
      BY <1>1 DEF ActiveApprovals
    <2>5. ApprovalInForce'
      BY <1>1, <2>1, <2>4 DEF WInv, ApprovalInForce
    <2> QED BY <2>2, <2>3, <2>5
  <1> QED BY <1>2, <1>3

\* An accepted update ends the approval in force, at the number that follows
\* the approved head.
LEMMA AcceptKeeps ==
    ASSUME WInv, IInv', NEW r, Accepts(r)
    PROVE  ApprovalsPlaced' /\ ApprovalTrail' /\ ApprovalInForce'
  <1> DEFINE Row(i) == IF Active(approvals[i])
                       THEN [approvals[i] EXCEPT !.invalidatedSeq = LatestSeq + 1]
                       ELSE approvals[i]
  <1>1. /\ IInv
        /\ LatestSeq \in Nat
        /\ LatestSeq' = LatestSeq + 1
        /\ updates' = updates \cup {r}
        /\ generations' # <<>>
        /\ approvals' = [i \in DOMAIN approvals |-> Row(i)]
    BY LatestIsLast DEF WInv, Accepts
  <1>2. \A i \in DOMAIN approvals :
          /\ approvals[i] \in Approval
          /\ approvals[i].headSeq \in Nat
          /\ approvals[i].invalidatedSeq \in Nat
    BY <1>1, ApprovalRows
  <1>3. \A i \in DOMAIN approvals :
          /\ Row(i).headSeq = approvals[i].headSeq
          /\ Row(i).content = approvals[i].content
          /\ Row(i).revoked = approvals[i].revoked
          /\ Active(approvals[i]) => Row(i).invalidatedSeq = LatestSeq + 1
          /\ ~Active(approvals[i]) => Row(i).invalidatedSeq = approvals[i].invalidatedSeq
    BY <1>2 DEF Approval
  <1>4. /\ DOMAIN approvals' = DOMAIN approvals
        /\ \A i \in DOMAIN approvals :
             /\ approvals'[i].headSeq = approvals[i].headSeq
             /\ approvals'[i].content = approvals[i].content
             /\ approvals'[i].revoked = approvals[i].revoked
             /\ Active(approvals[i]) =>
                  approvals'[i].invalidatedSeq = LatestSeq + 1
             /\ ~Active(approvals[i]) =>
                  approvals'[i].invalidatedSeq = approvals[i].invalidatedSeq
    <2> HIDE DEF Row
    <2> QED BY <1>1, <1>3
  <1> HIDE DEF Row
  <1>5. ApprovalsPlaced'
    <2>1. \A i \in DOMAIN approvals : approvals[i].headSeq <= LatestSeq
      BY DEF WInv, ApprovalsPlaced
    <2>2. \A i \in DOMAIN approvals : approvals'[i].headSeq <= LatestSeq + 1
      BY <1>1, <1>2, <1>4, <2>1
    <2> QED BY <1>1, <1>4, <2>2 DEF ApprovalsPlaced, Initialized
  <1>6. \A i \in DOMAIN approvals :
          /\ Active(approvals[i]) => approvals[i].headSeq = LatestSeq
          /\ approvals[i].invalidatedSeq \in {0, approvals[i].headSeq + 1}
          /\ approvals[i].revoked => approvals[i].invalidatedSeq = 0
          /\ approvals[i].invalidatedSeq <= LatestSeq
          /\ approvals[i].headSeq <= LatestSeq
    BY DEF WInv, ApprovalInForce, ApprovalTrail, ActiveApprovals, ApprovalsPlaced
  <1>7. ApprovalTrail'
    <2>1. ASSUME NEW i \in DOMAIN approvals
          PROVE  approvals'[i].content
                   = Through(bootstrap', updates', approvals'[i].headSeq)
      <3>1. PICK n \in Nat : n = approvals[i].headSeq
        BY <1>2
      <3>2. Initialized
        BY <2>1, <1>2 DEF WInv, ApprovalsPlaced
      <3>3. n <= LatestSeq
        BY <1>6, <3>1
      <3>4. Through(bootstrap', updates', n) = Through(bootstrap, updates, n)
        BY <1>1, <3>2, <3>3, HistoryKept DEF StoreEffect
      <3>5. approvals[i].content = Through(bootstrap, updates, n)
        BY <3>1 DEF WInv, ApprovalTrail, HistoryThrough, Through
      <3> QED BY <1>4, <3>1, <3>4, <3>5
    <2>2. ASSUME NEW i \in DOMAIN approvals
          PROVE  /\ approvals'[i].invalidatedSeq \in {0, approvals'[i].headSeq + 1}
                 /\ approvals'[i].revoked => approvals'[i].invalidatedSeq = 0
                 /\ approvals'[i].invalidatedSeq <= LatestSeq'
      <3>1. CASE Active(approvals[i])
        BY <1>1, <1>4, <1>6, <3>1 DEF Active
      <3>2. CASE ~Active(approvals[i])
        BY <1>1, <1>2, <1>4, <1>6, <3>2
      <3> QED BY <3>1, <3>2
    <2>3. ASSUME NEW i \in DOMAIN approvals, NEW j \in DOMAIN approvals, i < j
          PROVE  /\ approvals'[i].headSeq <= approvals'[j].headSeq
                 /\ approvals'[i].invalidatedSeq <= approvals'[j].headSeq
      <3>1. /\ approvals[i].headSeq <= approvals[j].headSeq
            /\ approvals[i].invalidatedSeq <= approvals[j].headSeq
        BY <2>3 DEF WInv, ApprovalTrail
      <3>2. CASE ~Active(approvals[i])
        BY <1>4, <3>1, <3>2
      <3>3. CASE Active(approvals[i])
        <4>1. i = Len(approvals)
          BY <3>3 DEF WInv, ApprovalInForce, ActiveApprovals
        <4>2. DOMAIN approvals = 1 .. Len(approvals) /\ Len(approvals) \in Nat
          BY <1>1, ApprovalRows
        <4> QED BY <2>3, <4>1, <4>2
      <3> QED BY <3>2, <3>3
    <2> QED BY <1>4, <2>1, <2>2, <2>3 DEF ApprovalTrail, HistoryThrough, Through
  <1>8. ApprovalInForce'
    <2>1. ActiveApprovals' = {}
      <3>1. \A i \in DOMAIN approvals : ~Active(approvals'[i])
        BY <1>1, <1>2, <1>4 DEF Active
      <3> QED BY <1>4, <3>1 DEF ActiveApprovals, Active
    <2>2. document'.readiness # "approved"
      BY DEF Accepts, Unapproves
    <2> QED BY <2>1, <2>2 DEF ApprovalInForce
  <1> QED BY <1>5, <1>7, <1>8

\* The jobs of the document stay behind it.
LEMMA JobsKept ==
    ASSUME WInv, StoreEffect, [RevisionStep]_vars, UNCHANGED jobVars, IInv'
    PROVE  JobsSound'
  <1>1. /\ notification' = notification
        /\ closure' = closure
        /\ document \in Document
        /\ document'.revision \in Nat
        /\ Len(generations) \in Nat
        /\ Len(generations') \in Nat
    BY LatestIsLast DEF WInv, jobVars, IInv, TypeOK, Document
  <1>2. document.revision <= document'.revision
    BY <1>1 DEF RevisionStep, vars, Document
  <1>3. /\ Len(generations) <= Len(generations')
        /\ document'.status = "archived" =>
             /\ document.status = "archived"
             /\ Len(generations') = Len(generations)
    BY DEF StoreEffect, Quiet, Accepts
  <1>4. notification.workflowRevision \in Nat /\ notification.generation \in Nat
    BY DEF WInv, JobsSound, Job
  <1>5. /\ notification'.workflowRevision <= document'.revision
        /\ notification'.generation <= Len(generations')
    BY <1>1, <1>2, <1>3, <1>4 DEF WInv, JobsSound, Document
  <1>6. ClosureNamesLiveRoom'
    BY <1>1, <1>3 DEF WInv, JobsSound, ClosureNamesLiveRoom
  <1> QED BY <1>1, <1>5, <1>6 DEF WInv, JobsSound

LEMMA StoreStepKeeps ==
    ASSUME WInv, [Next]_vars, UNCHANGED jobVars
    PROVE  WInv'
  <1>1. IInv /\ IInv'
    BY NextInvariant DEF WInv
  <1>2. StoreEffect
    BY <1>1, StoreEffects
  <1>3. JobsSound'
    BY <1>1, <1>2, NextRevision, JobsKept DEF IInv
  <1>4. ApprovalsPlaced' /\ ApprovalTrail' /\ ApprovalInForce'
    BY <1>1, <1>2, QuietKeeps, AcceptKeeps DEF StoreEffect
  <1> QED BY <1>1, <1>3, <1>4 DEF WInv

-----------------------------------------------------------------------------
(* The invariant across a command.                                         *)

\* A command leaves the history, the generations and the content alone.
LEMMA CommandKeepsStore ==
    ASSUME IInv, UNCHANGED <<storeVars, answers>>, TypeOK',
           document'.content = document.content
    PROVE  /\ IInv'
           /\ LatestSeq' = LatestSeq
           /\ Initialized' = Initialized
           /\ Len(generations') = Len(generations)
  <1>1. /\ generations' = generations
        /\ updates' = updates
        /\ noopReceipts' = noopReceipts
        /\ bootstrap' = bootstrap
        /\ answers' = answers
    BY DEF storeVars
  <1>2. Grown
    <2>1. generations \in Seq(Generation)
      BY DEF IInv, TypeOK
    <2>2. \A g \in DOMAIN generations : generations[g] \in Generation
      BY <2>1
    <2> QED BY <1>1, <2>2 DEF Grown, Generation
  <1>3. KeysSpentOnce' /\ ReceiptsFenced'
    BY <1>1, <1>2, ReceiptsKept
  <1>4. StoreConsistent'
    BY <1>1 DEF IInv, StoreConsistent, Initialized
  <1>5. ProjectionExact'
    BY <1>1 DEF IInv, ProjectionExact, Initialized, HistoryThrough,
                CurrentGeneration
  <1>6. LatestSeq' = LatestSeq
    BY <1>1 DEF LatestSeq, Initialized, HeadSeq, CurrentGeneration
  <1> QED BY <1>1, <1>3, <1>4, <1>5, <1>6 DEF IInv, Initialized

\* The compare-and-set writes a new revision of a draft.
LEMMA ReadinessWritten ==
    ASSUME IInv, NEW expected, NEW next \in Readiness,
           UpdateReadiness(expected, next)
    PROVE  /\ document.status = "draft"
           /\ document.readiness = expected
           /\ document' \in Document
           /\ document'.status = "draft"
           /\ document'.readiness = next
           /\ document'.content = document.content
           /\ document'.revision = document.revision + 1
           /\ document.revision \in Nat
  <1>1. document \in Document /\ document.revision \in Nat
    BY DEF IInv, TypeOK, Document
  <1>2. /\ document.status = "draft"
        /\ document.readiness = expected
        /\ document' = [document EXCEPT !.readiness = next,
                                        !.revision = document.revision + 1]
    BY DEF UpdateReadiness
  <1>3. document'
          = [status |-> document.status, readiness |-> next,
             revision |-> document.revision + 1, content |-> document.content]
    BY <1>1, <1>2 DEF Document
  <1> QED BY <1>1, <1>2, <1>3 DEF Document

\* Its notification is of this revision and of the generation in use.
LEMMA NotificationWritten ==
    ASSUME WInv, Initialized, EnqueueNotification, closure' = closure,
           generations' = generations, document.status = "draft",
           document'.status = "draft",
           document.revision \in Nat,
           document'.revision = document.revision + 1
    PROVE  /\ JobsSound'
           /\ notification'.workflowRevision > notification.workflowRevision
           /\ notification'.generation >= notification.generation
  <1>1. /\ notification'.workflowRevision = document.revision + 1
        /\ notification'.generation = Len(generations)
        /\ notification' \in Job
        /\ Len(generations) \in Nat
    <2>1. CurrentGeneration(generations) = Len(generations) /\ Len(generations) \in Nat
      BY Initialization DEF WInv
    <2> QED BY <2>1 DEF EnqueueNotification, Job
  <1>2. /\ notification.workflowRevision \in Nat
        /\ notification.generation \in Nat
        /\ notification.workflowRevision <= document.revision
        /\ notification.generation <= Len(generations)
        /\ closure \in Job
    BY DEF WInv, JobsSound, Job
  <1>3. JobsSound'
    <2>1. ClosureNamesLiveRoom'
      BY DEF ClosureNamesLiveRoom
    <2> QED BY <1>1, <1>2, <2>1 DEF JobsSound
  <1> QED BY <1>1, <1>2, <1>3

\* An approval is written for the head and its content, after every other.
LEMMA ApproveKeeps ==
    ASSUME WInv, NEW seq, Approve(seq)
    PROVE  /\ WInv'
           /\ notification'.workflowRevision > notification.workflowRevision
           /\ notification'.generation >= notification.generation
  <1> DEFINE n == Len(approvals)
  <1>1. PICK a : a = [generation |-> CurrentGeneration(generations),
                      headSeq |-> HeadSeq(generations),
                      content |-> LoadSnapshot(generations, HeadSeq(generations)),
                      invalidatedSeq |-> 0, revoked |-> FALSE]
    OBVIOUS
  <1>2. /\ IInv
        /\ Initialized
        /\ ActiveApprovals = {}
        /\ UpdateReadiness("ready", "approved")
        /\ approvals' = Append(approvals, a)
        /\ EnqueueNotification
        /\ UNCHANGED <<storeVars, epochs, proposals, answers, closure>>
    BY <1>1 DEF Approve, CollaborativeWrite, WInv
  <1>3. /\ document.status = "draft"
        /\ document.revision \in Nat
        /\ document' \in Document
        /\ document'.status = "draft"
        /\ document'.readiness = "approved"
        /\ document'.content = document.content
        /\ document'.revision = document.revision + 1
    <2>1. "approved" \in Readiness
      BY DEF Readiness
    <2> QED BY <1>2, <2>1, ReadinessWritten
  <1>4. /\ LatestSeq \in Nat
        /\ Len(generations) \in Nat \ {0}
        /\ CurrentGeneration(generations) = Len(generations)
        /\ HeadSeq(generations) = LatestSeq
        /\ LoadSnapshot(generations, LatestSeq) = Through(bootstrap, updates, LatestSeq)
        /\ LoadSnapshot(generations, LatestSeq) \in SUBSET Ops
    <2>1. Chained(generations) /\ TypeOK
      BY <1>2, Initialization DEF IInv, Consistent
    <2>2. LoadSnapshot(generations, LatestSeq) \in SUBSET Ops
      BY <2>1, LoadedType
    <2>3. HeadSeq(generations) = LatestSeq
      BY <1>2 DEF LatestSeq
    <2>4. LoadSnapshot(generations, HeadSeq(generations))
            = Through(bootstrap, updates, HeadSeq(generations))
      BY <1>2, Recovered DEF HistoryThrough, Through
    <2> QED BY <1>2, <2>2, <2>3, <2>4, Initialization, LatestIsLast
  <1>5. /\ a \in Approval
        /\ a.generation = Len(generations)
        /\ a.headSeq = LatestSeq
        /\ a.content = Through(bootstrap, updates, LatestSeq)
        /\ a.invalidatedSeq = 0
        /\ a.revoked = FALSE
    BY <1>1, <1>4 DEF Approval
  <1>6. /\ approvals \in Seq(Approval)
        /\ n \in Nat
        /\ DOMAIN approvals = 1 .. n
        /\ \A i \in 1 .. n : /\ approvals[i].headSeq \in Nat
                             /\ approvals[i].invalidatedSeq \in Nat
    BY <1>2, ApprovalRows
  <1>7. /\ approvals' \in Seq(Approval)
        /\ Len(approvals') = n + 1
        /\ DOMAIN approvals' = 1 .. n + 1
        /\ approvals'[n + 1] = a
        /\ \A i \in 1 .. n : approvals'[i] = approvals[i]
    BY <1>2, <1>5, <1>6, AppendAt
  <1> HIDE DEF n
  <1>8. TypeOK'
    BY <1>2, <1>3, <1>7 DEF IInv, TypeOK, storeVars
  <1>9. /\ IInv'
        /\ LatestSeq' = LatestSeq
        /\ Initialized'
        /\ generations' = generations
        /\ updates' = updates
        /\ bootstrap' = bootstrap
    BY <1>2, <1>3, <1>8, CommandKeepsStore DEF storeVars
  <1>10. \A i \in 1 .. n :
           /\ ~Active(approvals[i])
           /\ approvals[i].headSeq <= LatestSeq
           /\ approvals[i].content = Through(bootstrap, updates, approvals[i].headSeq)
           /\ approvals[i].invalidatedSeq \in {0, approvals[i].headSeq + 1}
           /\ approvals[i].revoked => approvals[i].invalidatedSeq = 0
           /\ approvals[i].invalidatedSeq <= LatestSeq
           /\ \A j \in 1 .. n :
                i < j => /\ approvals[i].headSeq <= approvals[j].headSeq
                         /\ approvals[i].invalidatedSeq <= approvals[j].headSeq
    <2>1. /\ \A i \in 1 .. n : ~Active(approvals[i])
          /\ \A i \in 1 .. n : approvals[i].headSeq <= LatestSeq
      BY <1>2, <1>6 DEF ActiveApprovals, WInv, ApprovalsPlaced
    <2> QED BY <1>6, <2>1 DEF WInv, ApprovalTrail, HistoryThrough, Through
  <1>11. \A i \in 1 .. n + 1 : i = n + 1 \/ i \in 1 .. n
    BY <1>6
  <1>12. ApprovalsPlaced'
    <2>1. \A i \in 1 .. n + 1 : approvals'[i].headSeq <= LatestSeq
      BY <1>4, <1>5, <1>7, <1>10, <1>11
    <2> QED BY <1>7, <1>9, <2>1 DEF ApprovalsPlaced
  <1>13. ApprovalTrail'
    <2>1. ASSUME NEW i \in 1 .. n + 1
          PROVE  /\ approvals'[i].content
                      = Through(bootstrap', updates', approvals'[i].headSeq)
                 /\ approvals'[i].invalidatedSeq \in {0, approvals'[i].headSeq + 1}
                 /\ approvals'[i].revoked => approvals'[i].invalidatedSeq = 0
                 /\ approvals'[i].invalidatedSeq <= LatestSeq'
      <3>1. CASE i = n + 1
        BY <1>4, <1>5, <1>7, <1>9, <3>1
      <3>2. CASE i \in 1 .. n
        BY <1>7, <1>9, <1>10, <3>2
      <3> QED BY <1>11, <3>1, <3>2
    <2>2. ASSUME NEW i \in 1 .. n + 1, NEW j \in 1 .. n + 1, i < j
          PROVE  /\ approvals'[i].headSeq <= approvals'[j].headSeq
                 /\ approvals'[i].invalidatedSeq <= approvals'[j].headSeq
      <3>1. i \in 1 .. n
        BY <1>6, <2>2
      <3>2. CASE j = n + 1
        BY <1>5, <1>7, <1>10, <3>1, <3>2
      <3>3. CASE j \in 1 .. n
        BY <1>7, <1>10, <2>2, <3>1, <3>3
      <3> QED BY <1>11, <3>2, <3>3
    <2> QED BY <1>7, <2>1, <2>2 DEF ApprovalTrail, HistoryThrough, Through
  <1>14. ApprovalInForce'
    <2>1. \A i \in ActiveApprovals' : i = n + 1
      <3>1. \A i \in 1 .. n : ~Active(approvals'[i])
        BY <1>7, <1>10
      <3> QED BY <1>7, <1>11, <3>1 DEF ActiveApprovals, Active
    <2>2. n + 1 \in ActiveApprovals'
      BY <1>5, <1>6, <1>7 DEF ActiveApprovals, Active
    <2> QED BY <1>3, <1>5, <1>7, <1>9, <2>1, <2>2 DEF ApprovalInForce
  <1>15. /\ JobsSound'
         /\ notification'.workflowRevision > notification.workflowRevision
         /\ notification'.generation >= notification.generation
    BY <1>2, <1>3, <1>9, NotificationWritten
  <1> QED BY <1>9, <1>12, <1>13, <1>14, <1>15 DEF WInv

\* Leaving "approved" revokes the approval in force and no other row.
LEMMA RevokeKeeps ==
    ASSUME WInv, Revoke
    PROVE  /\ approvals' \in Seq(Approval)
           /\ DOMAIN approvals' = DOMAIN approvals
           /\ Len(approvals') = Len(approvals)
           /\ \A i \in DOMAIN approvals :
                /\ approvals'[i].generation = approvals[i].generation
                /\ approvals'[i].headSeq = approvals[i].headSeq
                /\ approvals'[i].content = approvals[i].content
                /\ approvals'[i].invalidatedSeq = approvals[i].invalidatedSeq
                /\ approvals'[i].revoked => approvals[i].invalidatedSeq = 0
           /\ ActiveApprovals' = {}
           /\ document.readiness = "approved" => approvals # <<>>
  <1>1. /\ approvals \in Seq(Approval)
        /\ Len(approvals) \in Nat
        /\ DOMAIN approvals = 1 .. Len(approvals)
        /\ \A i \in DOMAIN approvals : approvals[i] \in Approval
    BY ApprovalRows DEF WInv
  <1>2. \A i \in DOMAIN approvals :
          approvals[i].revoked => approvals[i].invalidatedSeq = 0
    BY DEF WInv, ApprovalTrail
  <1>3. CASE document.readiness = "approved"
    <2> DEFINE Row(i) == IF i \in ActiveApprovals
                         THEN [approvals[i] EXCEPT !.revoked = TRUE]
                         ELSE approvals[i]
    <2>1. /\ approvals' = [i \in DOMAIN approvals |-> Row(i)]
          /\ Cardinality(ActiveApprovals) = 1
      BY <1>3 DEF Revoke
    <2>2. approvals # <<>>
      <3>1. ActiveApprovals # {}
        BY <2>1, FS_EmptySet
      <3> QED BY <3>1 DEF ActiveApprovals
    <2>3. \A i \in DOMAIN approvals :
            /\ Row(i) \in Approval
            /\ Row(i).generation = approvals[i].generation
            /\ Row(i).headSeq = approvals[i].headSeq
            /\ Row(i).content = approvals[i].content
            /\ Row(i).invalidatedSeq = approvals[i].invalidatedSeq
            /\ ~Active(Row(i))
            /\ Row(i).revoked => approvals[i].invalidatedSeq = 0
      <3> SUFFICES ASSUME NEW i \in DOMAIN approvals
                   PROVE  /\ Row(i) \in Approval
                          /\ Row(i).generation = approvals[i].generation
                          /\ Row(i).headSeq = approvals[i].headSeq
                          /\ Row(i).content = approvals[i].content
                          /\ Row(i).invalidatedSeq = approvals[i].invalidatedSeq
                          /\ ~Active(Row(i))
                          /\ Row(i).revoked => approvals[i].invalidatedSeq = 0
        OBVIOUS
      <3>1. CASE i \in ActiveApprovals
        <4>1. Row(i) = [generation |-> approvals[i].generation,
                        headSeq |-> approvals[i].headSeq,
                        content |-> approvals[i].content,
                        invalidatedSeq |-> approvals[i].invalidatedSeq,
                        revoked |-> TRUE]
          BY <1>1, <3>1 DEF Approval
        <4>2. approvals[i].invalidatedSeq = 0
          BY <3>1 DEF ActiveApprovals, Active
        <4>3. /\ approvals[i].generation \in Nat \ {0}
              /\ approvals[i].headSeq \in Nat
              /\ approvals[i].content \in SUBSET Ops
              /\ approvals[i].invalidatedSeq \in Nat
          BY <1>1 DEF Approval
        <4>4. /\ Row(i).generation = approvals[i].generation
              /\ Row(i).headSeq = approvals[i].headSeq
              /\ Row(i).content = approvals[i].content
              /\ Row(i).invalidatedSeq = approvals[i].invalidatedSeq
              /\ Row(i).revoked = TRUE
          BY <4>1
        <4>5. Row(i) \in Approval
          <5> HIDE DEF Row
          <5> QED BY <4>1, <4>3 DEF Approval
        <4>6. ~Active(Row(i))
          <5> HIDE DEF Row
          <5> QED BY <4>4 DEF Active
        <4> HIDE DEF Row
        <4> QED BY <4>2, <4>4, <4>5, <4>6
      <3>2. CASE i \notin ActiveApprovals
        BY <1>1, <1>2, <3>2 DEF ActiveApprovals
      <3> QED BY <3>1, <3>2
    <2> HIDE DEF Row
    <2>4. /\ DOMAIN approvals' = DOMAIN approvals
          /\ \A i \in DOMAIN approvals : approvals'[i] = Row(i)
      BY <2>1
    <2>5. approvals' \in [1 .. Len(approvals) -> Approval]
      BY <1>1, <2>1, <2>3
    <2>6. approvals' \in Seq(Approval) /\ Len(approvals') = Len(approvals)
      BY <1>1, <2>5
    <2>7. ActiveApprovals' = {}
      BY <2>3, <2>4 DEF ActiveApprovals, Active
    <2> QED BY <2>2, <2>3, <2>4, <2>6, <2>7
  <1>4. CASE document.readiness # "approved"
    <2>1. approvals' = approvals
      BY <1>4 DEF Revoke
    <2>2. ActiveApprovals = {}
      BY <1>4 DEF WInv, ApprovalInForce
    <2>3. ActiveApprovals' = {}
      BY <2>1, <2>2 DEF ActiveApprovals
    <2> QED BY <1>1, <1>2, <1>4, <2>1, <2>3
  <1> QED BY <1>3, <1>4

\* Rows that keep what they record keep what they say.
LEMMA TrailKept ==
    ASSUME WInv, DOMAIN approvals' = DOMAIN approvals,
           \A i \in DOMAIN approvals :
                /\ approvals'[i].headSeq = approvals[i].headSeq
                /\ approvals'[i].content = approvals[i].content
                /\ approvals'[i].invalidatedSeq = approvals[i].invalidatedSeq
                /\ approvals'[i].revoked => approvals[i].invalidatedSeq = 0,
           LatestSeq' = LatestSeq, updates' = updates, bootstrap' = bootstrap
    PROVE  ApprovalTrail'
  BY DEF WInv, ApprovalTrail, HistoryThrough

\* A readiness that is not "approved" leaves no approval in force.
LEMMA ChangeKeeps ==
    ASSUME WInv, NEW expected, NEW next \in Readiness,
           ChangeReadiness(expected, next)
    PROVE  /\ WInv'
           /\ notification'.workflowRevision > notification.workflowRevision
           /\ notification'.generation >= notification.generation
  <1>1. /\ IInv
        /\ Initialized
        /\ next # "approved"
        /\ Revoke
        /\ UpdateReadiness(expected, next)
        /\ EnqueueNotification
        /\ UNCHANGED <<storeVars, epochs, proposals, answers, closure>>
    BY DEF ChangeReadiness, CollaborativeWrite, WInv
  <1>2. /\ document.status = "draft"
        /\ document.revision \in Nat
        /\ document' \in Document
        /\ document'.status = "draft"
        /\ document'.readiness = next
        /\ document'.content = document.content
        /\ document'.revision = document.revision + 1
    BY <1>1, ReadinessWritten
  <1>3. /\ approvals' \in Seq(Approval)
        /\ DOMAIN approvals' = DOMAIN approvals
        /\ \A i \in DOMAIN approvals :
             /\ approvals'[i].headSeq = approvals[i].headSeq
             /\ approvals'[i].content = approvals[i].content
             /\ approvals'[i].invalidatedSeq = approvals[i].invalidatedSeq
             /\ approvals'[i].revoked => approvals[i].invalidatedSeq = 0
        /\ ActiveApprovals' = {}
    BY <1>1, RevokeKeeps
  <1>4. TypeOK'
    BY <1>1, <1>2, <1>3 DEF IInv, TypeOK, storeVars
  <1>5. /\ IInv'
        /\ LatestSeq' = LatestSeq
        /\ Initialized'
        /\ generations' = generations
        /\ updates' = updates
        /\ bootstrap' = bootstrap
    BY <1>1, <1>2, <1>4, CommandKeepsStore DEF storeVars
  <1>6. ApprovalsPlaced'
    BY <1>3, <1>5 DEF WInv, ApprovalsPlaced
  <1>7. ApprovalTrail'
    BY <1>3, <1>5, TrailKept
  <1>8. ApprovalInForce'
    BY <1>1, <1>2, <1>3 DEF ApprovalInForce
  <1>9. /\ JobsSound'
        /\ notification'.workflowRevision > notification.workflowRevision
        /\ notification'.generation >= notification.generation
    BY <1>1, <1>2, <1>5, NotificationWritten
  <1> QED BY <1>5, <1>6, <1>7, <1>8, <1>9 DEF WInv

\* The same for a document that is not collaborative, which has no approvals.
LEMMA LegacyChangeKeeps ==
    ASSUME WInv, NEW expected, NEW next \in Readiness,
           ChangeLegacyReadiness(expected, next)
    PROVE  WInv'
  <1>1. /\ IInv
        /\ ~Initialized
        /\ next # "approved"
        /\ UpdateReadiness(expected, next)
        /\ UNCHANGED <<storeVars, epochs, proposals, answers, approvals, jobVars>>
    BY DEF ChangeLegacyReadiness, WInv
  <1>2. /\ document.status = "draft"
        /\ document.revision \in Nat
        /\ document' \in Document
        /\ document'.status = "draft"
        /\ document'.readiness = next
        /\ document'.content = document.content
        /\ document'.revision = document.revision + 1
    BY <1>1, ReadinessWritten
  <1>3. TypeOK'
    BY <1>1, <1>2 DEF IInv, TypeOK, storeVars
  <1>4. /\ IInv'
        /\ Len(generations') = Len(generations)
    BY <1>1, <1>2, <1>3, CommandKeepsStore
  <1>5. approvals = <<>> /\ approvals' = <<>>
    BY <1>1 DEF WInv, ApprovalsPlaced
  <1>6. DOMAIN approvals' = {}
    BY <1>5
  <1>7. ApprovalsPlaced' /\ ApprovalTrail'
    BY <1>5, <1>6 DEF ApprovalsPlaced, ApprovalTrail
  <1>8. ApprovalInForce'
    <2>1. ActiveApprovals' = {}
      BY <1>6 DEF ActiveApprovals
    <2> QED BY <1>1, <1>2, <2>1 DEF ApprovalInForce
  <1>9. JobsSound'
    <2>1. notification' = notification /\ closure' = closure
      BY <1>1 DEF jobVars
    <2>2. notification.workflowRevision \in Nat /\ notification.generation \in Nat
      BY DEF WInv, JobsSound, Job
    <2>3. ClosureNamesLiveRoom'
      BY <1>2 DEF ClosureNamesLiveRoom
    <2> QED BY <1>2, <1>4, <2>1, <2>2, <2>3 DEF WInv, JobsSound
  <1> QED BY <1>4, <1>7, <1>8, <1>9 DEF WInv

\* Archival leaves a job for the newest generation.
LEMMA ArchiveKeeps ==
    ASSUME WInv, Archive
    PROVE  WInv'
  <1>1. /\ IInv
        /\ document.status = "draft"
        /\ document' = [document EXCEPT !.status = "archived"]
        /\ UNCHANGED <<storeVars, approvals, epochs, proposals, answers,
                       notification>>
        /\ document \in Document
    BY DEF Archive, WInv, IInv, TypeOK
  <1>2. /\ document' \in Document
        /\ document'.readiness = document.readiness
        /\ document'.content = document.content
        /\ document'.revision = document.revision
    <2>1. document' = [status |-> "archived", readiness |-> document.readiness,
                       revision |-> document.revision,
                       content |-> document.content]
      BY <1>1 DEF Document
    <2> QED BY <1>1, <2>1 DEF Document
  <1>3. TypeOK'
    BY <1>1, <1>2 DEF IInv, TypeOK, storeVars
  <1>4. /\ IInv'
        /\ LatestSeq' = LatestSeq
        /\ Initialized' = Initialized
        /\ Len(generations') = Len(generations)
        /\ updates' = updates
        /\ bootstrap' = bootstrap
    BY <1>1, <1>2, <1>3, CommandKeepsStore DEF storeVars
  <1>5. ApprovalsPlaced' /\ ApprovalTrail'
    BY <1>1, <1>4 DEF WInv, ApprovalsPlaced, ApprovalTrail, HistoryThrough
  <1>6. ApprovalInForce'
    <2>1. ActiveApprovals' = ActiveApprovals
      BY <1>1 DEF ActiveApprovals
    <2> QED BY <1>1, <1>2, <1>4, <2>1 DEF WInv, ApprovalInForce
  <1>7. closure' \in Job /\ closure'.generation = Len(generations)
    <2>1. CASE Initialized
      <3>1. /\ CurrentGenerations(generations) = {Len(generations)}
            /\ CurrentGeneration(generations) = Len(generations)
            /\ Len(generations) \in Nat
        BY <1>1, <2>1, Initialization
      <3>2. closure' = [generation |-> Len(generations), workflowRevision |-> 0]
        BY <3>1 DEF Archive, RoomToClose
      <3> QED BY <3>1, <3>2 DEF Job
    <2>2. CASE ~Initialized
      <3>1. /\ Len(generations) = 0
            /\ CurrentGenerations(generations) = {}
        BY <2>2 DEF Initialized, CurrentGenerations
      <3>2. closure' = NoJob
        BY <3>1 DEF Archive
      <3> QED BY <3>1, <3>2 DEF NoJob, Job
    <2> QED BY <2>1, <2>2
  <1>8. JobsSound'
    BY <1>1, <1>2, <1>4, <1>7 DEF WInv, JobsSound, ClosureNamesLiveRoom
  <1> QED BY <1>4, <1>5, <1>6, <1>8 DEF WInv

-----------------------------------------------------------------------------
(* The theorems.                                                           *)

LEMMA WorkflowInitInvariant == WorkflowInit => WInv
  <1> SUFFICES ASSUME WorkflowInit PROVE WInv
    OBVIOUS
  <1>1. IInv
    BY InitInvariant DEF WorkflowInit
  <1>2. /\ approvals = <<>>
        /\ DOMAIN approvals = {}
        /\ updates = {}
        /\ generations = <<>>
        /\ Len(generations) = 0
        /\ document.revision = 0
        /\ document.status = "draft"
        /\ notification = NoJob
        /\ closure = NoJob
    BY DEF WorkflowInit, Init
  <1>3. ApprovalsPlaced /\ ApprovalTrail
    BY <1>2 DEF ApprovalsPlaced, ApprovalTrail
  <1>4. ApprovalInForce
    BY <1>2 DEF ApprovalInForce, ActiveApprovals
  <1>5. JobsSound
    BY <1>2 DEF JobsSound, Job, NoJob, ClosureNamesLiveRoom
  <1> QED BY <1>1, <1>3, <1>4, <1>5 DEF WInv

\* The steps of the workflow, each by its lemma.
LEMMA WorkflowStep ==
    ASSUME WInv, WorkflowNext \/ UNCHANGED workflowVars
    PROVE  WInv' /\ (\/ [Next]_vars /\ UNCHANGED jobVars
                     \/ \E seq : Approve(seq)
                     \/ \E expected, next \in Readiness :
                          \/ ChangeReadiness(expected, next)
                          \/ ChangeLegacyReadiness(expected, next)
                     \/ Archive)
  <1>1. CASE StoreStep \/ UNCHANGED workflowVars
    <2>1. [Next]_vars /\ UNCHANGED jobVars
      BY <1>1 DEF StoreStep, workflowVars
    <2> QED BY <2>1, StoreStepKeeps
  <1>2. CASE \E seq \in 0 .. MaxSeq : Approve(seq)
    BY <1>2, ApproveKeeps
  <1>3. CASE \E expected, next \in Readiness :
               \/ ChangeReadiness(expected, next)
               \/ ChangeLegacyReadiness(expected, next)
    BY <1>3, ChangeKeeps, LegacyChangeKeeps
  <1>4. CASE Archive
    BY <1>4, ArchiveKeeps
  <1> QED BY <1>1, <1>2, <1>3, <1>4 DEF WorkflowNext, WorkflowCommand

\* The invariant of the store, the approvals against the history, and the jobs
\* against the document, in every reachable state.
THEOREM WorkflowInvariance == WorkflowSpec => []WInv
  <1>1. WInv /\ [WorkflowNext]_workflowVars => WInv'
    BY WorkflowStep
  <1> QED BY <1>1, WorkflowInitInvariant, PTL DEF WorkflowSpec

\* The rows and jobs of the workflow have their column types.
THEOREM WorkflowTypeCorrect == WorkflowSpec => []WorkflowTypeOK
  <1>1. WInv => WorkflowTypeOK
    BY DEF WInv, IInv, JobsSound, WorkflowTypeOK
  <1> QED BY <1>1, WorkflowInvariance, PTL

\* "Approved" is shown exactly while one approval is in force, and it names the
\* content that is shown, however edits, rotations, checkpoints, decisions and
\* archival raced.
THEOREM ApprovalsBindContent == WorkflowSpec => []ApprovalBindsContent
  <1>1. ASSUME WInv PROVE ApprovalBindsContent
    <2>1. Cardinality(ActiveApprovals) <= 1
      <3>1. CASE ActiveApprovals = {}
        <4>1. Cardinality(ActiveApprovals) = 0
          BY <3>1, FS_EmptySet
        <4> QED BY <4>1
      <3>2. CASE ActiveApprovals # {}
        <4>1. ActiveApprovals = {Len(approvals)}
          BY <1>1, <3>2 DEF WInv, ApprovalInForce
        <4>2. Cardinality(ActiveApprovals) = 1
          BY <4>1, FS_Singleton
        <4> QED BY <4>2
      <3> QED BY <3>1, <3>2
    <2>2. ASSUME NEW i \in ActiveApprovals
          PROVE  /\ Initialized
                 /\ document.readiness = "approved"
                 /\ approvals[i].generation = CurrentGeneration(generations)
                 /\ approvals[i].headSeq = HeadSeq(generations)
                 /\ approvals[i].content = LoadSnapshot(generations, HeadSeq(generations))
      <3>1. i \in DOMAIN approvals
        BY DEF ActiveApprovals
      <3>2. IInv /\ Initialized
        BY <1>1, <3>1 DEF WInv, ApprovalsPlaced
      <3>3. /\ document.readiness = "approved"
            /\ approvals[i].generation = Len(generations)
            /\ approvals[i].headSeq = LatestSeq
        BY <1>1 DEF WInv, ApprovalInForce
      <3>4. approvals[i].content = HistoryThrough(approvals[i].headSeq)
        BY <1>1, <3>1 DEF WInv, ApprovalTrail
      <3>5. LatestSeq = HeadSeq(generations)
        BY <3>2 DEF LatestSeq
      <3>6. HistoryThrough(approvals[i].headSeq)
              = LoadSnapshot(generations, HeadSeq(generations))
        BY <3>2, <3>3, <3>5, Recovered
      <3> QED BY <3>2, <3>3, <3>4, <3>5, <3>6, Initialization
    <2>3. (document.readiness = "approved" /\ ActiveApprovals = {})
            => approvals = <<>> /\ updates = {}
      BY <1>1 DEF WInv, ApprovalInForce
    <2> QED BY <2>1, <2>2, <2>3 DEF ApprovalBindsContent
  <1> QED BY <1>1, WorkflowInvariance, PTL

\* The audit trail never contradicts the history.
THEOREM TrailStaysTrue == WorkflowSpec => []ApprovalTrail
  <1>1. WInv => ApprovalTrail
    BY DEF WInv
  <1> QED BY <1>1, WorkflowInvariance, PTL

\* What may replace a waiting job.
Advance ==
    notification' # notification =>
      /\ notification'.workflowRevision > notification.workflowRevision
      /\ notification'.generation >= notification.generation

\* The revision and generation that the outbox compares never repeat.
THEOREM NotificationsOnlyAdvance == WorkflowSpec => NotificationsAdvance
  <1>1. ASSUME WInv, [WorkflowNext]_workflowVars PROVE [Advance]_workflowVars
    <2>1. CASE [Next]_vars /\ UNCHANGED jobVars
      BY <2>1 DEF jobVars, Advance
    <2>2. CASE \E seq : Approve(seq)
      BY <1>1, <2>2, ApproveKeeps DEF Advance
    <2>3. CASE \E expected, next \in Readiness :
                 \/ ChangeReadiness(expected, next)
                 \/ ChangeLegacyReadiness(expected, next)
      BY <1>1, <2>3, ChangeKeeps DEF Advance, ChangeLegacyReadiness, jobVars
    <2>4. CASE Archive
      BY <2>4 DEF Archive, Advance
    <2> QED BY <1>1, <2>1, <2>2, <2>3, <2>4, WorkflowStep
  <1>2. NotificationsAdvance <=> [][Advance]_workflowVars
    BY DEF NotificationsAdvance, Advance
  <1>3. WorkflowSpec => [][Advance]_workflowVars
    BY <1>1, WorkflowInvariance, PTL DEF WorkflowSpec
  <1> QED BY <1>2, <1>3

\* What a step may still do to an archived document.
Frozen ==
    /\ ClosureNamesLiveRoom'
    /\ document.status = "archived" =>
         /\ document'.status = "archived"
         /\ document'.readiness = document.readiness
         /\ UNCHANGED <<updates, noopReceipts, approvals, jobVars>>
         /\ Len(generations') = Len(generations)
         /\ document'.content # document.content =>
              \E seq \in 1 .. LatestSeq :
                /\ generations[CurrentGeneration(generations)].projectedSeq < seq
                /\ document'.content = HistoryThrough(seq)

\* An archived document shows what it did, or history beyond what was recorded.
LEMMA ArchivedContent ==
    ASSUME IInv, IInv', [Next]_vars, document.status = "archived",
           document'.content # document.content
    PROVE  \E seq \in 1 .. LatestSeq :
             /\ generations[CurrentGeneration(generations)].projectedSeq < seq
             /\ document'.content = HistoryThrough(seq)
  <1> DEFINE last == generations[Len(generations)]
  <1>1. \/ \E g : Checkpoint(g)
        \/ \E n \in 1 .. MaxSeq : Project(n)
    BY DEF Next, Initialize, ClientNext, CommandNext, FindDurableUpdateReplay,
           Replay, AppendAuthorizedClientUpdate, AppendValidatedUpdate,
           CommitServerCommand, AppendUpdate, SaveDocumentDraft, vars, Authorized
  <1>2. PICK n \in Nat :
          /\ Initialized
          /\ last.projectedSeq < n
          /\ n <= last.headSeq
          /\ WriteMaterializedDocument(LoadSnapshot(generations, n))
    <2>1. CASE \E g : Checkpoint(g)
      <3>1. PICK g : Checkpoint(g)
        BY <2>1
      <3>2. /\ Initialized
            /\ last.projectedSeq < last.headSeq
            /\ WriteMaterializedDocument(LoadSnapshot(generations, last.headSeq))
        BY <3>1, CheckpointRow
      <3>3. last.headSeq \in Nat
        BY <3>2, Initialization DEF Generation
      <3>4. last.headSeq <= last.headSeq
        BY <3>3
      <3> HIDE DEF last
      <3> QED BY <3>2, <3>3, <3>4
    <2>2. CASE \E n \in 1 .. MaxSeq : Project(n)
      <3>1. PICK n \in 1 .. MaxSeq : Project(n)
        BY <2>2
      <3>2. n \in Nat
        OBVIOUS
      <3>3. /\ Initialized
            /\ last.projectedSeq < n
            /\ n <= last.headSeq
            /\ WriteMaterializedDocument(LoadSnapshot(generations, n))
        BY <3>1, <3>2, ProjectRow
      <3> HIDE DEF last
      <3> QED BY <3>2, <3>3
    <2> QED BY <1>1, <2>1, <2>2
  <1>3. /\ Consistent(generations, updates, bootstrap)
        /\ CurrentGeneration(generations) = Len(generations)
        /\ LatestSeq = last.headSeq
        /\ last.headSeq \in Nat
        /\ last.projectedSeq \in Nat
        /\ last.checkpointSeq \in Nat
        /\ last.checkpointSeq <= last.projectedSeq
    BY <1>2, Initialization, LatestIsLast DEF Generation, Consistent, Fenced
  <1>4. document'.content = LoadSnapshot(generations, n)
    <2>1. document \in Document
      BY DEF IInv, TypeOK
    <2> QED BY <1>2, <2>1 DEF WriteMaterializedDocument, Document
  <1>5. n \in last.checkpointSeq .. last.headSeq /\ n \in 1 .. LatestSeq
    <2> HIDE DEF last
    <2> QED BY <1>2, <1>3
  <1>6. LoadSnapshot(generations, n) = HistoryThrough(n)
    BY <1>3, <1>5, LoadExact DEF IInv, HistoryThrough, Through
  <1> QED BY <1>2, <1>3, <1>4, <1>5, <1>6

\* Archival is final: nothing is accepted, decided or rotated afterwards, and the
\* closure job names the room in use, however archival raced with rotations.
THEOREM ArchivalIsFinal == WorkflowSpec => ArchiveFreezes
  <1>1. ASSUME WInv, [WorkflowNext]_workflowVars PROVE [Frozen]_workflowVars
    <2>1. WInv' /\ IInv /\ IInv'
      BY <1>1, WorkflowStep DEF WInv
    <2>2. ClosureNamesLiveRoom'
      BY <2>1 DEF WInv, JobsSound
    <2>3. SUFFICES ASSUME document.status = "archived" PROVE [Frozen]_workflowVars
      BY <2>2 DEF Frozen
    <2>4. CASE [Next]_vars /\ UNCHANGED jobVars
      <3>1. Quiet
        BY <2>1, <2>3, <2>4, StoreEffects DEF StoreEffect, Accepts
      <3>2. document'.content # document.content =>
              \E seq \in 1 .. LatestSeq :
                /\ generations[CurrentGeneration(generations)].projectedSeq < seq
                /\ document'.content = HistoryThrough(seq)
        BY <2>1, <2>3, <2>4, ArchivedContent
      <3> QED BY <2>2, <2>3, <2>4, <3>1, <3>2 DEF Frozen, Quiet, jobVars
    <2>5. CASE Archive
      BY <2>3, <2>5 DEF Archive
    <2>6. CASE \/ \E seq : Approve(seq)
               \/ \E expected, next \in Readiness :
                    \/ ChangeReadiness(expected, next)
                    \/ ChangeLegacyReadiness(expected, next)
      BY <2>3, <2>6 DEF Approve, ChangeReadiness, ChangeLegacyReadiness,
                        UpdateReadiness
    <2> QED BY <1>1, <2>4, <2>5, <2>6, WorkflowStep
  <1>2. ArchiveFreezes <=> [][Frozen]_workflowVars
    BY DEF ArchiveFreezes, Frozen
  <1>3. WorkflowSpec => [][Frozen]_workflowVars
    BY <1>1, WorkflowInvariance, PTL DEF WorkflowSpec
  <1> QED BY <1>2, <1>3

-----------------------------------------------------------------------------
(* The store under the workflow.                                           *)

\* Decisions and archival write beside the store.
LEMMA DecisionBeside ==
    ASSUME IInv,
           \/ \E seq : Approve(seq)
           \/ \E expected, next \in Readiness :
                \/ ChangeReadiness(expected, next)
                \/ ChangeLegacyReadiness(expected, next)
           \/ Archive
    PROVE  /\ UNCHANGED <<storeVars, answers>>
           /\ document'.content = document.content
  <1>1. document \in Document
    BY DEF IInv, TypeOK
  <1>2. CASE \E seq : Approve(seq)
    BY <1>1, <1>2 DEF Approve, CollaborativeWrite, UpdateReadiness, Document
  <1>3. CASE \E expected, next \in Readiness :
               \/ ChangeReadiness(expected, next)
               \/ ChangeLegacyReadiness(expected, next)
    BY <1>1, <1>3 DEF ChangeReadiness, ChangeLegacyReadiness, CollaborativeWrite,
                      UpdateReadiness, Document
  <1>4. CASE Archive
    BY <1>1, <1>4 DEF Archive, Document
  <1> QED BY <1>2, <1>3, <1>4

\* Reviewing and archiving a document is invisible in its history: the store
\* below the workflow still implements AcceptedHistory.
THEOREM WorkflowRefinement == WorkflowSpec => ImplementsAcceptedHistory
  <1>1. WorkflowInit => Abstract!Init
    BY InitMaps DEF WorkflowInit
  <1>2. WInv /\ [WorkflowNext]_workflowVars => [Abstract!Next]_(Abstract!historyVars)
    <2> SUFFICES ASSUME WInv, [WorkflowNext]_workflowVars
                 PROVE  [Abstract!Next]_(Abstract!historyVars)
      OBVIOUS
    <2>1. IInv /\ IInv'
      BY WorkflowStep DEF WInv
    <2>2. CASE [Next]_vars /\ UNCHANGED jobVars
      BY <2>1, <2>2, StepMaps
    <2>3. CASE \/ \E seq : Approve(seq)
               \/ \E expected, next \in Readiness :
                    \/ ChangeReadiness(expected, next)
                    \/ ChangeLegacyReadiness(expected, next)
               \/ Archive
      BY <2>1, <2>3, DecisionBeside, InvisibleMaps
    <2> QED BY <2>2, <2>3, WorkflowStep
  <1>3. WorkflowSpec => Abstract!Init /\ [][Abstract!Next]_(Abstract!historyVars)
    BY <1>1, <1>2, WorkflowInvariance, PTL DEF WorkflowSpec
  <1> QED BY <1>3 DEF ImplementsAcceptedHistory, Abstract!Spec

\* Nor do decisions and archival disturb what the store promises: no gap in the
\* numbers, exact recovery, one receipt per key, and a generation within its
\* budget.
THEOREM WorkflowKeepsStore ==
    WorkflowSpec => [](GaplessHistory /\ RecoveryExact /\ KeysSpentOnce
                         /\ StorageBounded)
  <1>1. ASSUME WInv, StorageInv, [WorkflowNext]_workflowVars PROVE StorageInv'
    <2>1. IInv /\ IInv'
      BY <1>1, WorkflowStep DEF WInv
    <2>2. CASE [Next]_vars /\ UNCHANGED jobVars
      BY <1>1, <2>1, <2>2, StorageStep
    <2>3. CASE \/ \E seq : Approve(seq)
               \/ \E expected, next \in Readiness :
                    \/ ChangeReadiness(expected, next)
                    \/ ChangeLegacyReadiness(expected, next)
               \/ Archive
      <3>1. UNCHANGED <<generations, updates>>
        BY <2>1, <2>3, DecisionBeside DEF storeVars
      <3> QED BY <1>1, <3>1, UntouchedBounded
    <2> QED BY <1>1, <2>2, <2>3, WorkflowStep
  <1>2. WorkflowInit => StorageInv
    BY InitBounded DEF WorkflowInit
  <1>3. WorkflowSpec => []StorageInv
    BY <1>1, <1>2, WorkflowInvariance, PTL DEF WorkflowSpec
  <1>4. WInv => GaplessHistory /\ RecoveryExact /\ KeysSpentOnce
    BY Gapless, Recovered DEF WInv, IInv, RecoveryExact
  <1>5. WInv /\ StorageInv => StorageBounded
    BY BoundedHolds DEF WInv
  <1> QED BY <1>3, <1>4, <1>5, WorkflowInvariance, PTL

=============================================================================
