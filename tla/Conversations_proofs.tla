------------------------ MODULE Conversations_proofs ------------------------
(***************************************************************************)
(* Proofs about Conversations, for any titles, stories and presses: that   *)
(* its invariant (CInv of ConversationsInvariant) is inductive, and what   *)
(* follows from it.                                                        *)
(***************************************************************************)
EXTENDS ConversationsInvariant, FiniteSetTheorems, WellFoundedInduction, TLAPS

-----------------------------------------------------------------------------
(* Lists.                                                                  *)

\* What holds of 0 and is handed on holds of every number.
LEMMA Induction ==
    ASSUME NEW S \in SUBSET Nat, 0 \in S, \A n \in S : n + 1 \in S
    PROVE  S = Nat
  <1>1. SUFFICES ASSUME Nat \ S # {} PROVE FALSE
    OBVIOUS
  <1>2. PICK x \in Nat \ S : \A y \in Nat \ S : ~ (<<y, x>> \in OpToRel(<, Nat))
    BY <1>1, NatLessThanWellFounded, WFMin
  <1>3. \A y \in Nat \ S : ~(y < x)
    BY <1>2 DEF OpToRel
  <1> QED BY <1>3

\* Positions have a first one.
LEMMA Least ==
    ASSUME NEW I \in SUBSET Nat, I # {}
    PROVE  \E x \in I : \A y \in I : x <= y
  <1>1. PICK x \in I : \A y \in I : ~ (<<y, x>> \in OpToRel(<, Nat))
    BY NatLessThanWellFounded, WFMin
  <1>2. \A y \in I : ~(y < x)
    BY <1>1 DEF OpToRel
  <1>3. \A y \in I : x <= y
    BY <1>2
  <1> QED BY <1>3

\* The last element is the one at the length.
LEMMA LastIs == ASSUME NEW s PROVE Last(s) = s[Len(s)]
  BY DEF Last

\* A sequence is one over any set its elements are in.
LEMMA SeqWiden ==
    ASSUME NEW S, NEW T, NEW s \in Seq(S), \A n \in DOMAIN s : s[n] \in T
    PROVE  s \in Seq(T)
  OBVIOUS

Increasing(f) == \A m, n \in DOMAIN f : m < n => f[m] < f[n]

\* Positions can be put in order ...
LEMMA Ordered ==
    ASSUME NEW n \in Nat, NEW I \in SUBSET (1 .. n)
    PROVE  /\ Cardinality(I) \in Nat /\ IsFiniteSet(I)
           /\ \E f \in [1 .. Cardinality(I) -> I] : Increasing(f)
  <1> DEFINE Has(J) == /\ Cardinality(J) \in Nat /\ IsFiniteSet(J)
                       /\ \E f \in [1 .. Cardinality(J) -> J] : Increasing(f)
             S == {k \in Nat : \A J \in SUBSET (1 .. k) : Has(J)}
  <1>1. 0 \in S
    <2>1. \A J \in SUBSET (1 .. 0) : J = {}
      OBVIOUS
    <2>2. [i \in {} |-> i] \in [1 .. 0 -> {}] /\ Increasing([i \in {} |-> i])
      BY DEF Increasing
    <2>3. Has({})
      <3>1. Cardinality({}) = 0 /\ IsFiniteSet({})
        BY FS_EmptySet
      <3>2. 1 .. Cardinality({}) = 1 .. 0
        BY <3>1
      <3>3. \E f \in [1 .. 0 -> {}] : Increasing(f)
        BY <2>2
      <3>4. \E f \in [1 .. Cardinality({}) -> {}] : Increasing(f)
        <4> HIDE DEF Has
        <4> QED BY <3>2, <3>3
      <3> QED BY <3>1, <3>4
    <2> QED BY <2>1, <2>3
  <1>2. \A k \in S : k + 1 \in S
    <2> SUFFICES ASSUME NEW k \in S PROVE k + 1 \in S
      OBVIOUS
    <2>a. k \in Nat /\ \A J \in SUBSET (1 .. k) : Has(J)
      OBVIOUS
    <2> SUFFICES ASSUME NEW J \in SUBSET (1 .. (k + 1)) PROVE Has(J)
      <3> HIDE DEF Has
      <3> QED BY <2>a
    <2>1. CASE k + 1 \notin J
      BY <2>1, <2>a
    <2>2. CASE k + 1 \in J
      <3> DEFINE K == J \ {k + 1}
                 c == Cardinality(K)
      <3>1. K \in SUBSET (1 .. k) /\ J = K \cup {k + 1} /\ k + 1 \notin K
        BY <2>2, <2>a
      <3>2. Has(K)
        BY <2>a, <3>1
      <3>3. c \in Nat /\ IsFiniteSet(K)
        BY <3>2
      <3>4. PICK f \in [1 .. c -> K] : Increasing(f)
        BY <3>2
      <3>5. IsFiniteSet(J) /\ Cardinality(J) = c + 1
        <4> HIDE DEF K
        <4> QED BY <3>1, <3>3, FS_AddElement
      <3> HIDE DEF K, c
      <3> DEFINE g == [i \in 1 .. (c + 1) |-> IF i = c + 1 THEN k + 1 ELSE f[i]]
      <3>6. \A i \in 1 .. c : f[i] \in K /\ f[i] \in 1 .. k
        BY <3>1, <3>3
      <3>7. g \in [1 .. (c + 1) -> J]
        BY <3>1, <3>3, <3>6
      <3>8. Increasing(g)
        BY <3>3, <3>4, <3>6 DEF Increasing
      <3> QED BY <3>3, <3>5, <3>7, <3>8
    <2> QED BY <2>1, <2>2
  <1> HIDE DEF Has
  <1>3. S = Nat
    <2> HIDE DEF S
    <2>1. S \in SUBSET Nat
      BY DEF S
    <2> QED BY <1>1, <1>2, <2>1, Induction
  <1>4. Has(I)
    BY <1>3
  <1> QED BY <1>4 DEF Has

\* ... and an order of all of them leaves none out.
LEMMA Onto ==
    ASSUME NEW n \in Nat, NEW I \in SUBSET (1 .. n),
           NEW f \in [1 .. Cardinality(I) -> I], Increasing(f), NEW p \in I
    PROVE  \E i \in DOMAIN f : f[i] = p
  <1> DEFINE c == Cardinality(I)
  <1>1. c \in Nat /\ IsFiniteSet(I)
    BY Ordered
  <1> SUFFICES ASSUME \A i \in 1 .. c : f[i] # p PROVE FALSE
    OBVIOUS
  <1>2. IsFiniteSet(I \ {p}) /\ Cardinality(I \ {p}) = c - 1
    BY <1>1, FS_RemoveElement
  <1>3. IsFiniteSet(1 .. c) /\ Cardinality(1 .. c) = c
    <2> HIDE DEF c
    <2> QED BY <1>1, FS_Interval
  <1> HIDE DEF c
  <1>4. f \in [1 .. c -> I \ {p}]
    BY DEF c
  <1>5. PICK x \in 1 .. c, y \in 1 .. c : x # y /\ f[x] = f[y]
    <2>1. Cardinality(I \ {p}) < Cardinality(1 .. c)
      BY <1>1, <1>2, <1>3
    <2> DEFINE D == 1 .. c
               R == I \ {p}
    <2>2. IsFiniteSet(D) /\ IsFiniteSet(R) /\ Cardinality(R) < Cardinality(D) /\ f \in [D -> R]
      BY <1>2, <1>3, <1>4, <2>1
    <2> HIDE DEF D, R
    <2>3. \E x, y \in D : x # y /\ f[x] = f[y]
      BY <2>2, FS_PigeonHole
    <2> QED BY <2>3 DEF D
  <1>6. DOMAIN f = 1 .. c
    BY <1>4
  <1>7. f[x] \in 1 .. n /\ f[y] \in 1 .. n
    BY <1>4
  <1>8. x < y \/ y < x
    BY <1>1, <1>5
  <1> QED BY <1>5, <1>6, <1>7, <1>8 DEF Increasing

\* What is picked out of a sequence is of it, and all that was meant is picked.
LEMMA ThoseAre ==
    ASSUME NEW S, NEW ss \in Seq(S), NEW I \in SUBSET (DOMAIN ss)
    PROVE  /\ Those(ss, I) \in Seq(S)
           /\ \A n \in DOMAIN Those(ss, I) : \E p \in I : Those(ss, I)[n] = ss[p]
           /\ \A p \in I : \E n \in DOMAIN Those(ss, I) : Those(ss, I)[n] = ss[p]
  <1> DEFINE c == Cardinality(I)
             IsOrder(f) == \A m, n \in DOMAIN f : m < n => f[m] < f[n]
             f == CHOOSE g \in [1 .. c -> I] : IsOrder(g)
             k == Len(ss)
  <1>1. k \in Nat /\ I \in SUBSET (1 .. k)
    OBVIOUS
  <1>2. c \in Nat
    BY <1>1, Ordered
  <1>3. \E g \in [1 .. c -> I] : IsOrder(g)
    BY <1>1, Ordered DEF Increasing
  <1>4. f \in [1 .. c -> I] /\ IsOrder(f)
    BY <1>3
  <1>5. Those(ss, I) = [n \in DOMAIN f |-> ss[f[n]]]
    BY DEF Those
  <1> HIDE DEF f, k
  <1>6. Those(ss, I) = [n \in 1 .. c |-> ss[f[n]]]
    BY <1>4, <1>5
  <1>7. \A p \in I : \E i \in 1 .. c : f[i] = p
    <2>1. Increasing(f)
      BY <1>4 DEF Increasing
    <2>2. DOMAIN f = 1 .. c
      BY <1>4
    <2>3. \A p \in I : \E i \in DOMAIN f : f[i] = p
      <3> HIDE DEF IsOrder
      <3> QED BY <1>1, <1>4, <2>1, Onto
    <2> QED BY <2>2, <2>3
  <1> HIDE DEF c
  <1>8. \A n \in 1 .. c : f[n] \in I
    BY <1>4
  <1>9. Those(ss, I) \in Seq(S)
    BY <1>2, <1>6, <1>8
  <1> QED BY <1>6, <1>7, <1>8, <1>9

\* Deduplication drops no id.
LEMMA DedupedIs ==
    ASSUME NEW S, NEW ss \in Seq(S)
    PROVE  /\ Deduped(ss) \in Seq(S)
           /\ \A n \in DOMAIN Deduped(ss) : \E p \in DOMAIN ss : Deduped(ss)[n] = ss[p]
           /\ \A p \in DOMAIN ss : \E n \in DOMAIN Deduped(ss) : Deduped(ss)[n].id = ss[p].id
  <1> DEFINE I == {n \in DOMAIN ss : \A m \in 1 .. (n - 1) : ss[m].id # ss[n].id}
  <1>1. I \in SUBSET (DOMAIN ss) /\ Deduped(ss) = Those(ss, I)
    BY DEF Deduped
  <1>2. \A p \in DOMAIN ss : \E q \in I : ss[q].id = ss[p].id
    <2> SUFFICES ASSUME NEW p \in DOMAIN ss PROVE \E q \in I : ss[q].id = ss[p].id
      OBVIOUS
    <2> DEFINE J == {m \in DOMAIN ss : ss[m].id = ss[p].id}
    <2>1. J \in SUBSET Nat /\ J # {}
      OBVIOUS
    <2>2. PICK q \in J : \A y \in J : q <= y
      <3> HIDE DEF J
      <3> QED BY <2>1, Least
    <2>3. \A m \in 1 .. (q - 1) : m \in DOMAIN ss /\ ~(q <= m)
      OBVIOUS
    <2>4. q \in I
      BY <2>2, <2>3
    <2> QED BY <2>4
  <1> HIDE DEF I
  <1>3. /\ Those(ss, I) \in Seq(S)
        /\ \A n \in DOMAIN Those(ss, I) : \E p \in I : Those(ss, I)[n] = ss[p]
        /\ \A p \in I : \E n \in DOMAIN Those(ss, I) : Those(ss, I)[n] = ss[p]
    BY <1>1, ThoseAre
  <1>4. \A p \in DOMAIN ss : \E n \in DOMAIN Those(ss, I) : Those(ss, I)[n].id = ss[p].id
    <2> TAKE p \in DOMAIN ss
    <2>1. PICK q \in I : ss[q].id = ss[p].id
      BY <1>2
    <2>2. PICK n \in DOMAIN Those(ss, I) : Those(ss, I)[n] = ss[q]
      BY <1>3
    <2> QED BY <2>1, <2>2
  <1> QED BY <1>1, <1>3, <1>4

-----------------------------------------------------------------------------
(* What only grows.                                                        *)

\* A row keeps its versions; a message, and a failure that was decided, stay in
\* the last one.
RowsGrow(at, rs, rt) ==
    /\ \A i \in Stored : /\ Len(rs[i]) <= Len(rt[i])
                         /\ \A n \in 1 .. Len(rs[i]) : rt[i][n] = rs[i][n]
    /\ rs["c"] # <<>> =>
           \A k \in Nat : Says(Final(rs, "c").messages, k) => Says(Final(rt, "c").messages, k)
    /\ rs["c"] # <<>> /\ at.target = "failed" /\ Final(rs, "c").status = "failed" =>
           Final(rt, "c").status = "failed"

\* What the tab knows of its command is never unlearnt.
AttemptGrows(at, bt) ==
    /\ at.begun => bt.begun
    /\ at.answered => bt.answered
    /\ at.canonical <= bt.canonical
    /\ at.target = "failed" => bt.target = "failed"

Attempts == [begun : BOOLEAN, canonical : Nat, answered : BOOLEAN,
             target : {"running", "idle", "failed"}, appends : Nat]

AllRows == [Stored -> Seq(StoredRow)]

LEMMA Empty == ASSUME NEW S, NEW s \in Seq(S) PROVE s # <<>> <=> Len(s) > 0
  OBVIOUS

LEMMA StoredIds == Stored = {"c", "f"} /\ Keys = {"local", "c"} /\ EditFields \subseteq Fields
  BY DEF Stored, Keys, EditFields, Fields

\* Rows left alone have grown.
LEMMA RowsGrowSelf ==
    ASSUME NEW rs \in AllRows, NEW at
    PROVE  RowsGrow(at, rs, rs)
  BY DEF RowsGrow, AllRows

\* A row that exists goes on to.
LEMMA NonEmptyGrows ==
    ASSUME NEW rs \in AllRows, NEW rt \in AllRows, NEW at, RowsGrow(at, rs, rt),
           NEW i \in Stored, rs[i] # <<>>
    PROVE  rt[i] # <<>>
  BY DEF AllRows, RowsGrow

\* What is shown of a version stays what that version says.
LEMMA HeldGrows ==
    ASSUME NEW rs \in AllRows, NEW rt \in AllRows, NEW at, RowsGrow(at, rs, rt),
           NEW s \in Session, s.id \in Stored, HeldIn(rs, s)
    PROVE  HeldIn(rt, s)
  <1>1. rs[s.id] \in Seq(StoredRow) /\ rt[s.id] \in Seq(StoredRow)
    BY DEF AllRows
  <1>2. s.version \in 1 .. Len(rs[s.id]) /\ Len(rs[s.id]) <= Len(rt[s.id])
    BY DEF HeldIn, RowsGrow
  <1>3. s.version \in 1 .. Len(rt[s.id]) /\ rt[s.id][s.version] = rs[s.id][s.version]
    BY <1>1, <1>2 DEF RowsGrow
  <1> QED BY <1>3 DEF HeldIn

\* What grows makes no call, operation or retry wrong.
LEMMA CarriesGrows ==
    ASSUME NEW at \in Attempts, NEW bt \in Attempts, AttemptGrows(at, bt),
           NEW call, Carries(at, call)
    PROVE  Carries(bt, call)
  BY DEF Carries, AttemptGrows, Attempts

\* What a call has left in the rows stays there.
LEMMA EffectGrows ==
    ASSUME NEW rs \in AllRows, NEW rt \in AllRows, NEW at, RowsGrow(at, rs, rt),
           NEW call, call.key \in Nat, Carries(at, call), Effect(rs, call)
    PROVE  Effect(rt, call)
  <1>1. rs["c"] # <<>> => rt["c"] # <<>>
    BY NonEmptyGrows, StoredIds
  <1>2. rs["f"] # <<>> => rt["f"] # <<>>
    BY NonEmptyGrows, StoredIds
  <1>3. call.what = "append" => rt["c"] # <<>> /\ Says(Final(rt, "c").messages, call.key)
    BY <1>1 DEF Effect, RowsGrow
  <1>4. call.what = "status" => rt["c"] # <<>> /\ Final(rt, "c").status = "failed"
    BY <1>1 DEF Effect, RowsGrow, Carries
  <1> QED BY <1>1, <1>2, <1>3, <1>4 DEF Effect

LEMMA ValidGrows ==
    ASSUME NEW rs \in AllRows, NEW rt \in AllRows, NEW at \in Attempts, NEW bt \in Attempts,
           RowsGrow(at, rs, rt), AttemptGrows(at, bt),
           NEW call \in Calls, Valid(rs, at, call)
    PROVE  Valid(rt, bt, call)
  <1>1. Carries(bt, call) /\ Carries(at, call) /\ call.key \in Nat
    BY CarriesGrows DEF Valid, Calls
  <1>2. \A i \in Stored : rs[i] # <<>> => rt[i] # <<>>
    BY NonEmptyGrows
  <1>3. call.what = "fork" => rt["c"] # <<>> /\ Says(Final(rt, "c").messages, call.key)
    BY <1>1, <1>2, StoredIds DEF Valid, RowsGrow
  <1>4. call.phase = "write" =>
           call.what \in Fields /\ call.id \in Stored /\ rt[call.id] # <<>>
    BY <1>2 DEF Valid
  <1>7. call.phase = "done" =>
           call.what \notin {"get", "list"} /\ call.id \in Stored /\ rt[call.id] # <<>>
    BY <1>2 DEF Valid
  <1>5. call.phase = "done" \/ call.outcome = "ok" => Effect(rt, call)
    BY <1>1, EffectGrows DEF Valid
  <1>6. call.outcome = "ok" => \A i \in Stored : call.seen[i] <= Len(rt[i])
    <2> SUFFICES ASSUME call.outcome = "ok", NEW i \in Stored
                 PROVE  call.seen[i] <= Len(rt[i])
      OBVIOUS
    <2>1. rs[i] \in Seq(StoredRow) /\ rt[i] \in Seq(StoredRow) /\ call.seen[i] \in Nat
      BY DEF AllRows, Calls
    <2>2. call.seen[i] <= Len(rs[i]) /\ Len(rs[i]) <= Len(rt[i])
      BY DEF Valid, RowsGrow
    <2> QED BY <2>1, <2>2
  <1> QED BY <1>1, <1>3, <1>4, <1>5, <1>6, <1>7 DEF Valid

LEMMA BaseGrows ==
    ASSUME NEW rs \in AllRows, NEW rt \in AllRows, NEW at \in Attempts, NEW bt \in Attempts,
           RowsGrow(at, rs, rt), AttemptGrows(at, bt), NEW op, NEW s \in Base(rs, at, op)
    PROVE  s \in Base(rt, bt, op)
  <1>1. s.id = "c" => HeldIn(rt, s)
    BY HeldGrows, StoredIds DEF Base
  <1> QED BY <1>1 DEF Base, AttemptGrows, Attempts

LEMMA OpValidGrows ==
    ASSUME NEW rs \in AllRows, NEW rt \in AllRows, NEW at \in Attempts, NEW bt \in Attempts,
           RowsGrow(at, rs, rt), AttemptGrows(at, bt), NEW k, NEW op, OpValid(rs, at, k, op)
    PROVE  OpValid(rt, bt, k, op)
  BY CarriesGrows, BaseGrows DEF OpValid, AttemptGrows, Attempts

LEMMA RetryValidGrows ==
    ASSUME NEW at \in Attempts, NEW bt \in Attempts, AttemptGrows(at, bt),
           NEW r, RetryValid(at, r)
    PROVE  RetryValid(bt, r)
  BY DEF RetryValid, AttemptGrows, Attempts

-----------------------------------------------------------------------------
(* The server.                                                             *)

\* Append adds one element behind the others.
LEMMA AppendIs ==
    ASSUME NEW S, NEW s \in Seq(S), NEW x \in S
    PROVE  /\ Append(s, x) \in Seq(S) /\ Len(Append(s, x)) = Len(s) + 1
           /\ Append(s, x)[Len(s) + 1] = x
           /\ \A n \in 1 .. Len(s) : Append(s, x)[n] = s[n]
           /\ DOMAIN Append(s, x) = 1 .. (Len(s) + 1)
  OBVIOUS

\* The transcript a conversation is created with
LEMMA Messages ==
    /\ M0 \in Transcripts /\ M0 \in Seq(Int) /\ DOMAIN M0 = {1} /\ M0[1] = 0 /\ Len(M0) = 1
    /\ Transcripts \subseteq Seq(Nat)
  <1>1. M0 \in Seq(Nat) /\ Len(M0) = 1 /\ M0[1] = 0
    BY DEF M0
  <1>2. DOMAIN M0 = {1} /\ M0 \in Seq(Int)
    BY <1>1
  <1> QED BY <1>1, <1>2 DEF Transcripts

\* A message that was not there is added once.
LEMMA AppendMessages ==
    ASSUME NEW ms \in Transcripts, NEW key \in Nat, ~Says(ms, key)
    PROVE  /\ Append(ms, key) \in Transcripts /\ Says(Append(ms, key), key)
           /\ \A k \in Nat : Says(ms, k) => Says(Append(ms, key), k)
  <1>1. ms \in Seq(Nat)
    BY DEF Transcripts
  <1> DEFINE new == Append(ms, key)
             c == Len(ms)
  <1>2. /\ new \in Seq(Nat) /\ Len(new) = c + 1 /\ new[c + 1] = key /\ c \in Nat
        /\ \A n \in 1 .. c : new[n] = ms[n]
        /\ DOMAIN new = 1 .. (c + 1) /\ DOMAIN ms = 1 .. c
    BY <1>1, AppendIs
  <1> HIDE DEF new, c
  <1>3. \A n \in 1 .. (c + 1) : n = c + 1 \/ n \in 1 .. c
    BY <1>2
  <1>4. \A n \in 1 .. c : ms[n] # key
    BY <1>2 DEF Says
  <1>5. \A m, n \in 1 .. (c + 1) : new[m] = new[n] => m = n
    BY <1>2, <1>3, <1>4 DEF Transcripts
  <1>6. \A k \in Nat : Says(ms, k) => Says(new, k)
    BY <1>2 DEF Says
  <1>7. Says(new, key)
    BY <1>2 DEF Says
  <1> QED BY <1>2, <1>5, <1>6, <1>7 DEF Transcripts, new

\* A fork at a message that is there holds what leads up to it.
LEMMA ForkMessages ==
    ASSUME NEW source \in Transcripts, NEW key, Says(source, key)
    PROVE  SubSeq(source, 1, CHOOSE n \in DOMAIN source : source[n] = key) \in Transcripts
  <1> DEFINE n == CHOOSE i \in DOMAIN source : source[i] = key
  <1>1. \E i \in DOMAIN source : source[i] = key
    BY DEF Says
  <1>2. n \in DOMAIN source
    BY <1>1
  <1>3. source \in Seq(Nat) /\ DOMAIN source = 1 .. Len(source) /\ Len(source) \in Nat
    BY DEF Transcripts
  <1> HIDE DEF n
  <1> DEFINE sub == SubSeq(source, 1, n)
  <1>4. /\ sub \in Seq(Nat) /\ DOMAIN sub = 1 .. n
        /\ \A i \in 1 .. n : sub[i] = source[i] /\ i \in DOMAIN source
    BY <1>2, <1>3
  <1> HIDE DEF sub
  <1>5. sub \in Transcripts
    BY <1>4 DEF Transcripts
  <1> QED BY <1>5 DEF sub, n

\* One more version of a row.
LEMMA AppendRow ==
    ASSUME PInv, NEW id \in Stored, NEW row \in StoredRow,
           id = "c" =>
             /\ rows["c"] # <<>> =>
                  \A k \in Nat : Says(Final(rows, "c").messages, k) => Says(row.messages, k)
             /\ attempt.canonical = 0 => row.messages = M0
             /\ rows["c"] # <<>> /\ attempt.target = "failed"
                /\ Final(rows, "c").status = "failed" => row.status = "failed"
    PROVE  /\ WithVersion(id, row) \in AllRows
           /\ RowsGrow(attempt, rows, WithVersion(id, row))
           /\ RowsValid(WithVersion(id, row), attempt)
           /\ Len(WithVersion(id, row)[id]) = Len(rows[id]) + 1
           /\ WithVersion(id, row)[id][Len(rows[id]) + 1] = row
           /\ WithVersion(id, row)[id] # <<>>
           /\ Final(WithVersion(id, row), id) = row
  <1> DEFINE rt == WithVersion(id, row)
  <1>1. rows \in AllRows /\ attempt \in Attempts /\ RowsValid(rows, attempt)
    BY DEF PInv, TypeInv, AllRows, Attempts, RowsSound
  <1>2. rows[id] \in Seq(StoredRow)
    BY <1>1 DEF AllRows
  <1>3. rt[id] = Append(rows[id], row) /\ \A i \in Stored : i # id => rt[i] = rows[i]
    BY <1>1 DEF WithVersion, AllRows
  <1>4. rt \in AllRows
    BY <1>1, <1>2 DEF WithVersion, AllRows
  <1>5. /\ Len(rt[id]) = Len(rows[id]) + 1
        /\ rt[id][Len(rows[id]) + 1] = row /\ rt[id] # <<>>
        /\ \A n \in 1 .. Len(rows[id]) : rt[id][n] = rows[id][n]
    BY <1>2, <1>3
  <1>6. Final(rt, id) = row
    BY <1>5 DEF Final
  <1>7. \A i \in Stored : /\ Len(rows[i]) <= Len(rt[i])
                          /\ \A n \in 1 .. Len(rows[i]) : rt[i][n] = rows[i][n]
    <2> TAKE i \in Stored
    <2>1. rows[i] \in Seq(StoredRow)
      BY <1>1 DEF AllRows
    <2> QED BY <1>3, <1>5, <2>1
  <1>8. CASE id # "c"
    BY <1>1, <1>3, <1>4, <1>5, <1>6, <1>7, <1>8, StoredIds DEF RowsGrow, Final, RowsValid
  <1>9. CASE id = "c"
    <2>1. RowsGrow(attempt, rows, rt)
      BY <1>6, <1>7, <1>9 DEF RowsGrow
    <2>2. RowsValid(rt, attempt)
      <3> DEFINE k == Len(rows["c"])
                 rc == rows["c"]
                 tc == rt["c"]
      <3>1. k \in Nat /\ DOMAIN rc = 1 .. k /\ DOMAIN tc = 1 .. (k + 1)
            /\ tc[k + 1] = row
            /\ \A n \in 1 .. k : tc[n] = rc[n]
        BY <1>2, <1>4, <1>5, <1>9 DEF AllRows
      <3>a. \A n \in 1 .. k : rc[n].messages \in Seq(Nat)
        <4>1. \A n \in 1 .. k : rc[n] \in StoredRow
          BY <1>2, <1>9, <3>1
        <4> QED BY <4>1, Messages DEF StoredRow
      <3>b. row.messages \in Seq(Nat)
        BY Messages DEF StoredRow
      <3>2. \A m \in 1 .. k : \A i \in DOMAIN rc[m].messages :
               Says(row.messages, rc[m].messages[i])
        <4> SUFFICES ASSUME NEW m \in 1 .. k, NEW i \in DOMAIN rc[m].messages
                     PROVE  Says(row.messages, rc[m].messages[i])
          OBVIOUS
        <4>1. k \in DOMAIN rc /\ m \in DOMAIN rc /\ m <= k /\ rc # <<>>
          BY <3>1
        <4>2. Says(rc[k].messages, rc[m].messages[i])
          BY <1>1, <4>1 DEF RowsValid
        <4>3. rc[m].messages[i] \in Nat
          BY <3>a
        <4>4. Final(rows, "c") = rc[k]
          BY DEF Final
        <4> HIDE DEF k, rc
        <4>5. \A j \in Nat : Says(rc[k].messages, j) => Says(row.messages, j)
          BY <1>9, <4>1, <4>4 DEF rc
        <4> QED BY <4>2, <4>3, <4>5
      <3>c. \A n \in 1 .. (k + 1) : n = k + 1 \/ n \in 1 .. k
        BY <3>1
      <3> HIDE DEF rt, tc
      <3>3. \A m, n \in 1 .. (k + 1) : m <= n =>
               \A i \in DOMAIN tc[m].messages : Says(tc[n].messages, tc[m].messages[i])
        <4> SUFFICES ASSUME NEW m \in 1 .. (k + 1), NEW n \in 1 .. (k + 1), m <= n,
                            NEW i \in DOMAIN tc[m].messages
                     PROVE  Says(tc[n].messages, tc[m].messages[i])
          OBVIOUS
        <4>1. CASE n <= k
          <5>1. m \in 1 .. k /\ n \in 1 .. k
            BY <3>1, <4>1
          <5> QED BY <1>1, <3>1, <5>1 DEF RowsValid
        <4>2. CASE n = k + 1 /\ m \in 1 .. k
          BY <3>1, <3>2, <4>2
        <4>3. CASE n = k + 1 /\ m = k + 1
          BY <4>3 DEF Says
        <4> QED BY <3>1, <3>c, <4>1, <4>2, <4>3
      <3>4. attempt.canonical = 0 => \A n \in 1 .. (k + 1) : tc[n].messages = M0
        BY <1>1, <1>9, <3>1, <3>c DEF RowsValid
      <3>5. attempt.canonical <= Len(rt["c"])
        BY <1>1, <1>5, <1>9, <3>1 DEF Attempts, RowsValid
      <3> HIDE DEF k
      <3> QED BY <3>1, <3>3, <3>4, <3>5 DEF RowsValid, tc
    <2> QED BY <1>4, <1>5, <1>6, <2>1, <2>2
  <1> QED BY <1>8, <1>9

\* What a call that is still to be served comes to: rows and a call that are
\* valid again
Comes(call, h) ==
    /\ h.rows \in AllRows /\ RowsGrow(attempt, rows, h.rows) /\ RowsValid(h.rows, attempt)
    /\ h.call \in Calls /\ Valid(h.rows, attempt, h.call)
    /\ h.call.what = call.what /\ h.call.id = call.id
    /\ h.call.value = call.value /\ h.call.key = call.key

\* A refusal changes no row and tells of none.
LEMMA RefuseServes ==
    ASSUME PInv, NEW call \in Calls, Valid(rows, attempt, call),
           call.phase \in {"sent", "write"},
           NEW reason \in {"not_found", "conflict"}
    PROVE  Comes(call, Refuse(call, reason))
  <1>1. rows \in AllRows /\ RowsValid(rows, attempt) /\ RowsGrow(attempt, rows, rows)
    BY RowsGrowSelf DEF PInv, TypeInv, AllRows, RowsSound
  <1> DEFINE new == [call EXCEPT !.phase = "answered", !.outcome = reason]
  <1>2. /\ new \in Calls /\ new.what = call.what /\ new.id = call.id
        /\ new.value = call.value /\ new.key = call.key
        /\ new.phase = "answered" /\ new.outcome = reason
    BY DEF Calls
  <1>3. Valid(rows, attempt, new)
    <2> HIDE DEF new
    <2> QED BY <1>2 DEF Valid, Carries
  <1> QED BY <1>1, <1>2, <1>3 DEF Comes, Refuse

\* A write that leaves the call's effect is one.
LEMMA DoneServes ==
    ASSUME PInv, NEW call \in Calls, Valid(rows, attempt, call),
           call.phase \in {"sent", "write"}, call.what \notin {"get", "list"},
           call.id # "local",
           NEW rt \in AllRows, RowsGrow(attempt, rows, rt), RowsValid(rt, attempt),
           rt[call.id] # <<>>, Effect(rt, call)
    PROVE  Comes(call, Done(call, rt))
  <1>1. rows \in AllRows /\ attempt \in Attempts
    BY DEF PInv, TypeInv, AllRows, Attempts
  <1>2. Valid(rt, attempt, call)
    BY <1>1, ValidGrows DEF AttemptGrows, Attempts
  <1> DEFINE new == [call EXCEPT !.phase = "done"]
  <1>3. /\ new \in Calls /\ new.what = call.what /\ new.id = call.id
        /\ new.value = call.value /\ new.key = call.key
        /\ new.phase = "done" /\ new.outcome = call.outcome /\ call.outcome = "none"
        /\ call.id \in Stored
    BY DEF Calls, Valid
  <1>4. Valid(rt, attempt, new)
    <2> HIDE DEF new
    <2> QED BY <1>2, <1>3 DEF Valid, Carries, Effect
  <1> QED BY <1>3, <1>4 DEF Comes, Done

\* What is read back is in the rows.
LEMMA ReadBackServes ==
    ASSUME PInv, NEW call \in Calls, Valid(rows, attempt, call),
           Effect(rows, call), call.id # "local",
           call.what # "list" => rows[call.id] # <<>>
    PROVE  Comes(call, ReadBack(call))
  <1>1. rows \in AllRows /\ RowsValid(rows, attempt) /\ RowsGrow(attempt, rows, rows)
    BY RowsGrowSelf DEF PInv, TypeInv, AllRows, RowsSound
  <1>2. \A i \in Stored : Len(rows[i]) \in Nat /\ (rows[i] # <<>> <=> Len(rows[i]) > 0)
    BY <1>1, Empty DEF AllRows
  <1> DEFINE sn == [i \in Stored |-> Version(i)]
             new == [call EXCEPT !.phase = "answered", !.outcome = "ok", !.seen = sn]
  <1>3. sn \in [Stored -> Nat] /\ \A i \in Stored : sn[i] = Len(rows[i])
    BY <1>2 DEF Version
  <1> HIDE DEF sn
  <1>4. /\ new \in Calls /\ new.what = call.what /\ new.id = call.id
        /\ new.value = call.value /\ new.key = call.key
        /\ new.phase = "answered" /\ new.outcome = "ok" /\ new.seen = sn
        /\ call.id \in Stored
    BY <1>3 DEF Calls
  <1>5. ReadBack(call) = [rows |-> rows, call |-> new]
    BY DEF ReadBack, sn
  <1> HIDE DEF new
  <1>6. Effect(rows, new)
    BY <1>4 DEF Effect
  <1>7. Valid(rows, attempt, new)
    BY <1>2, <1>3, <1>4, <1>6, StoredIds DEF Valid, Carries, Effect
  <1> QED BY <1>1, <1>4, <1>5, <1>7 DEF Comes

\* Whatever the server does with a call comes to that (Handled).
LEMMA Served ==
    ASSUME PInv, NEW call \in Calls, Valid(rows, attempt, call),
           call.phase \in {"sent", "write", "done"}
    PROVE  Comes(call, Handled(call))
  <1>1. rows \in AllRows /\ RowsValid(rows, attempt) /\ RowsGrow(attempt, rows, rows)
        /\ attempt \in Attempts
    BY RowsGrowSelf DEF PInv, TypeInv, AllRows, RowsSound, Attempts
  <1>2. \A i \in Stored : /\ rows[i] \in Seq(StoredRow) /\ Len(rows[i]) \in Nat
                          /\ (rows[i] # <<>> <=> Len(rows[i]) > 0)
                          /\ (rows[i] # <<>> => Last(rows[i]) \in StoredRow)
                          /\ Last(rows[i]) = Final(rows, i)
    BY <1>1, Empty, LastIs DEF AllRows, Final
  <1>3. call.id \in Stored \/ call.id = "local"
    BY DEF Calls
  <1>4. call.id \in Stored => (Missing(call.id) <=> rows[call.id] = <<>>)
    BY <1>2 DEF Missing, Version
  <1>5. call.id = "local" => Missing(call.id)
    BY StoredIds DEF Missing
  <1>6. call.what \in Fields /\ call.id # "local" => call.id = "c"
    BY <1>3, StoredIds DEF Valid, Carries, Fields
  <1>7. CASE call.phase = "done"
    <2>1. Effect(rows, call) /\ call.id # "local" /\ call.what \notin {"get", "list"}
      BY <1>7 DEF Valid
    <2>2. rows[call.id] # <<>>
      BY <1>7 DEF Valid
    <2> QED BY <1>7, <2>1, <2>2, ReadBackServes DEF Handled
  <1>8. CASE call.phase = "write"
    <2>1. call.what \in Fields /\ call.id = "c" /\ rows["c"] # <<>>
      BY <1>6, <1>8, StoredIds DEF Valid
    <2>2. Handled(call) = WriteField(call)
      BY <1>8 DEF Handled
    <2>3. CASE Version(call.id) # call.expected
      BY <1>8, <2>2, <2>3, RefuseServes DEF WriteField
    <2>4. CASE Version(call.id) = call.expected
      <3> DEFINE row == [Last(rows[call.id]) EXCEPT ![call.what] = call.value]
                 rt == WithVersion(call.id, row)
      <3>1. Last(rows["c"]) \in StoredRow /\ Last(rows["c"]) = Final(rows, "c")
        BY <1>2, <2>1, StoredIds
      <3>2. /\ row \in StoredRow /\ row.messages = Final(rows, "c").messages
            /\ row[call.what] = call.value
            /\ Final(rows, "c").status = "failed" => row.status = "failed"
        <4>1. CASE call.what = "title"
          BY <2>1, <3>1, <4>1 DEF Valid, Carries, StoredRow
        <4>2. CASE call.what = "archived"
          BY <2>1, <3>1, <4>2 DEF Valid, Carries, StoredRow
        <4>3. CASE call.what = "status"
          BY <2>1, <3>1, <4>3 DEF Valid, Carries, StoredRow
        <4> QED BY <2>1, <4>1, <4>2, <4>3 DEF Fields
      <3>3. attempt.canonical = 0 => row.messages = M0
        <4>1. Len(rows["c"]) \in DOMAIN rows["c"]
          BY <1>2, <2>1, StoredIds
        <4> QED BY <1>1, <3>2, <4>1 DEF Final, RowsValid
      <3> HIDE DEF row
      <3>4. /\ rt \in AllRows /\ RowsGrow(attempt, rows, rt) /\ RowsValid(rt, attempt)
            /\ rt["c"] # <<>> /\ Final(rt, "c") = row
            /\ Len(rt["c"]) = Len(rows["c"]) + 1
            /\ rt["c"][Len(rows["c"]) + 1] = row
        BY <2>1, <3>2, <3>3, AppendRow, StoredIds
      <3> HIDE DEF rt
      <3>5. Effect(rt, call)
        BY <1>2, <2>1, <3>2, <3>4, StoredIds DEF AllRows, Valid, Carries, Effect, Fields
      <3>6. Handled(call) = Done(call, rt)
        BY <2>2, <2>4 DEF WriteField, rt, row
      <3> QED BY <1>8, <2>1, <3>4, <3>5, <3>6, DoneServes DEF Fields
    <2> QED BY <2>3, <2>4
  <1>9. CASE call.phase = "sent" /\ call.what = "create"
    <2>1. call.id = "c"
      BY <1>9 DEF Valid, Carries
    <2>2. Handled(call) = Create(call)
      BY <1>9 DEF Handled, Fields
    <2>3. CASE rows["c"] # <<>>
      BY <1>1, <1>2, <1>9, <2>1, <2>2, <2>3, StoredIds, DoneServes DEF Create, Version,
         Effect
    <2>4. CASE rows["c"] = <<>>
      <3> DEFINE row == [title |-> FirstTitle, archived |-> "no", status |-> "idle",
                         messages |-> <<0>>]
                 rt == WithVersion("c", row)
      <3>1. row \in StoredRow /\ row.messages = M0
        BY TitlesAssumption, Messages DEF StoredRow, M0
      <3>2. Create(call) = Done(call, rt)
        BY <1>2, <2>4, StoredIds DEF Create, Version
      <3> HIDE DEF row
      <3>3. /\ rt \in AllRows /\ RowsGrow(attempt, rows, rt) /\ RowsValid(rt, attempt)
            /\ rt["c"] # <<>>
        BY <2>4, <3>1, AppendRow, StoredIds
      <3> HIDE DEF rt
      <3>4. Effect(rt, call)
        BY <1>9, <3>3 DEF Effect
      <3> QED BY <1>9, <2>1, <2>2, <3>2, <3>3, <3>4, DoneServes
    <2> QED BY <2>3, <2>4
  <1>10. CASE call.phase = "sent" /\ call.what = "append"
    <2>1. call.id = "c" /\ call.key > 0 /\ call.key \in Nat /\ attempt.answered /\ attempt.canonical > 0
      BY <1>10 DEF Valid, Carries, Calls
    <2>2. Handled(call) = AppendMessage(call)
      BY <1>10 DEF Handled, Fields
    <2>3. CASE Missing(call.id)
      BY <1>10, <2>2, <2>3, RefuseServes DEF AppendMessage
    <2>4. CASE ~Missing(call.id)
      <3>1. rows["c"] # <<>> /\ Last(rows["c"]) \in StoredRow
            /\ Last(rows["c"]) = Final(rows, "c")
        BY <1>2, <1>4, <2>1, <2>4, StoredIds
      <3>2. AlreadyAppended(call) <=> Says(Final(rows, "c").messages, call.key)
        BY <2>1, <3>1 DEF AlreadyAppended, Says
      <3>3. CASE AlreadyAppended(call)
        BY <1>1, <1>10, <2>1, <2>2, <2>4, <3>1, <3>2, <3>3, DoneServes DEF Effect,
           AppendMessage
      <3>4. CASE ~AlreadyAppended(call) /\ Version(call.id) # call.expected
        BY <1>10, <2>2, <2>4, <3>4, RefuseServes DEF AppendMessage
      <3>5. CASE ~AlreadyAppended(call) /\ Version(call.id) = call.expected
        <4> DEFINE row == [Last(rows[call.id]) EXCEPT !.messages = Append(@, call.key),
                                                      !.status = "idle"]
                   rt == WithVersion(call.id, row)
                   ms == Final(rows, "c").messages
        <4>1. ms \in Transcripts /\ ~Says(ms, call.key)
          BY <3>1, <3>2, <3>5 DEF StoredRow
        <4>2. /\ row \in StoredRow /\ Says(row.messages, call.key)
              /\ \A k \in Nat : Says(ms, k) => Says(row.messages, k)
          <5>1. /\ Append(ms, call.key) \in Transcripts
                /\ Says(Append(ms, call.key), call.key)
                /\ \A k \in Nat : Says(ms, k) => Says(Append(ms, call.key), k)
            <6> HIDE DEF ms
            <6> QED BY <2>1, <4>1, AppendMessages
          <5>2. row \in StoredRow /\ row.messages = Append(ms, call.key)
            BY <2>1, <3>1, <5>1 DEF StoredRow
          <5> HIDE DEF row
          <5> QED BY <5>1, <5>2
        <4>3. attempt.target # "failed"
          BY <2>1 DEF PInv, AttemptSound
        <4> HIDE DEF row
        <4>4. /\ rt \in AllRows /\ RowsGrow(attempt, rows, rt) /\ RowsValid(rt, attempt)
              /\ rt["c"] # <<>> /\ Final(rt, "c") = row
          BY <2>1, <4>2, <4>3, AppendRow, StoredIds
        <4> HIDE DEF rt
        <4>5. Effect(rt, call)
          BY <1>10, <4>2, <4>4 DEF Effect
        <4>6. Handled(call) = Done(call, rt)
          BY <2>2, <2>4, <3>5 DEF AppendMessage, rt, row
        <4> QED BY <1>10, <2>1, <4>4, <4>5, <4>6, DoneServes
      <3> QED BY <3>3, <3>4, <3>5
    <2> QED BY <2>3, <2>4
  <1>11. CASE call.phase = "sent" /\ call.what \in Fields
    <2>1. Handled(call) = CheckField(call)
      BY <1>11 DEF Handled, Fields
    <2>2. CASE Missing(call.id)
      BY <1>11, <2>1, <2>2, RefuseServes DEF CheckField
    <2>3. CASE ~Missing(call.id)
      <3>1. call.id = "c" /\ rows["c"] # <<>> /\ Last(rows["c"]) = Final(rows, "c")
        BY <1>2, <1>4, <1>5, <1>6, <1>11, <2>3, StoredIds
      <3>2. CASE Last(rows[call.id])[call.what] = call.value
        <4>1. Len(rows["c"]) \in DOMAIN rows["c"]
          BY <1>2, <3>1, StoredIds
        <4>2. Effect(rows, call)
          BY <1>11, <3>1, <3>2, <4>1 DEF Final, Valid, Carries, Effect, Fields
        <4>3. Handled(call) = Done(call, rows)
          BY <2>1, <2>3, <3>2 DEF CheckField
        <4> QED BY <1>1, <1>11, <3>1, <4>2, <4>3, DoneServes DEF Fields
      <3>3. CASE Last(rows[call.id])[call.what] # call.value
        <4> DEFINE new == [call EXCEPT !.phase = "write"]
        <4>1. /\ new \in Calls /\ new.what = call.what /\ new.id = call.id
              /\ new.value = call.value /\ new.key = call.key
              /\ new.phase = "write" /\ new.outcome = "none"
          BY <1>11 DEF Calls, Valid
        <4>2. Handled(call) = [rows |-> rows, call |-> new]
          BY <2>1, <2>3, <3>3 DEF CheckField
        <4> HIDE DEF new
        <4>3. Valid(rows, attempt, new)
          BY <1>11, <3>1, <4>1, StoredIds DEF Valid, Carries, Fields
        <4> QED BY <1>1, <4>1, <4>2, <4>3 DEF Comes
      <3> QED BY <3>2, <3>3
    <2> QED BY <2>2, <2>3
  <1>12. CASE call.phase = "sent" /\ call.what = "fork"
    <2>1. Handled(call) = ForkThrough(call)
      BY <1>12 DEF Handled, Fields
    <2>2. /\ call.id = "c" /\ rows["c"] # <<>> /\ Says(Final(rows, "c").messages, call.key)
          /\ call.value \in Titles
      BY <1>12 DEF Valid, Carries
    <2>3. CASE rows["f"] # <<>>
      BY <1>1, <1>2, <1>12, <2>1, <2>2, <2>3, StoredIds, DoneServes DEF ForkThrough,
         Version, Effect
    <2>4. CASE rows["f"] = <<>>
      <3> DEFINE source == Last(rows[call.id]).messages
                 row == [title |-> call.value, archived |-> "no", status |-> "idle",
                         messages |-> SubSeq(source, 1,
                             CHOOSE n \in DOMAIN source : source[n] = call.key)]
                 rt == WithVersion("f", row)
      <3>1. source = Final(rows, "c").messages /\ source \in Transcripts
        BY <1>2, <2>2, StoredIds DEF StoredRow
      <3>2. Handled(call) = Done(call, rt)
        BY <1>2, <2>1, <2>4, StoredIds DEF ForkThrough, Version
      <3> HIDE DEF source
      <3>3. row \in StoredRow
        BY <2>2, <3>1, ForkMessages DEF StoredRow
      <3> HIDE DEF row
      <3>4. /\ rt \in AllRows /\ RowsGrow(attempt, rows, rt) /\ RowsValid(rt, attempt)
            /\ rt["f"] # <<>>
        BY <3>3, AppendRow, StoredIds
      <3> HIDE DEF rt
      <3>5. Effect(rt, call) /\ rt["c"] # <<>>
        BY <1>1, <1>12, <2>2, <3>4, NonEmptyGrows, StoredIds DEF Effect
      <3> QED BY <1>12, <2>2, <3>2, <3>4, <3>5, DoneServes
    <2> QED BY <2>3, <2>4
  <1>13. CASE call.phase = "sent" /\ call.what \in {"get", "list"}
    <2>1. Effect(rows, call) /\ call.id \in Stored
      BY <1>13, StoredIds DEF Effect, Valid
    <2>2. CASE call.what = "get" /\ Missing(call.id)
      BY <1>13, <2>2, RefuseServes DEF Handled, Fields
    <2>3. CASE ~(call.what = "get" /\ Missing(call.id))
      BY <1>4, <1>13, <2>1, <2>3, ReadBackServes, StoredIds DEF Handled, Fields
    <2> QED BY <2>2, <2>3
  <1>14. call.what \in Fields \cup {"create", "append", "fork", "get", "list"}
    BY DEF Calls
  <1> QED BY <1>7, <1>8, <1>9, <1>10, <1>11, <1>12, <1>13, <1>14

-----------------------------------------------------------------------------
(* What is shown.                                                          *)
\* A sequence changed element by element
LEMMA MapIs ==
    ASSUME NEW T, NEW S, NEW ss \in Seq(T), NEW g, g = [n \in DOMAIN ss |-> g[n]],
           \A n \in DOMAIN ss : g[n] \in S
    PROVE  g \in Seq(S) /\ DOMAIN g = DOMAIN ss
  OBVIOUS

\* What the invariant says of the rows, the attempt and the sessions
LEMMA Facts ==
    ASSUME PInv
    PROVE  /\ rows \in AllRows /\ attempt \in Attempts
           /\ sessions \in Seq(Shape(rows, attempt)) /\ sessions \in Seq(Session)
           /\ \A n \in DOMAIN sessions : sessions[n] \in Shape(rows, attempt)
  BY DEF PInv, TypeInv, AllRows, Attempts, SessionsSound

\* The first session of an id is one that is shown.
LEMMA FirstIs ==
    ASSUME PInv, NEW id, Sessions(id) # {}
    PROVE  /\ First(id) \in Shape(rows, attempt) /\ First(id) \in Session /\ First(id).id = id
           /\ \E n \in DOMAIN sessions : First(id) = sessions[n]
  <1>1. sessions \in Seq(Shape(rows, attempt))
        /\ \A n \in DOMAIN sessions : sessions[n] \in Shape(rows, attempt)
    BY Facts
  <1>2. Sessions(id) \in SUBSET Nat
    BY <1>1 DEF Sessions
  <1>3. \E n \in Sessions(id) : \A m \in Sessions(id) : n <= m
    BY <1>2, Least
  <1> DEFINE n == CHOOSE n \in Sessions(id) : \A m \in Sessions(id) : n <= m
  <1>4. n \in Sessions(id) /\ First(id) = sessions[n]
    BY <1>3 DEF First
  <1> HIDE DEF n
  <1>5. n \in DOMAIN sessions /\ sessions[n].id = id
    BY <1>4 DEF Sessions
  <1> QED BY <1>1, <1>4, <1>5 DEF Shape

\* Growing rows leave sessions sound, unless the creation was answered.
LEMMA ShapeGrows ==
    ASSUME NEW rs \in AllRows, NEW rt \in AllRows, NEW at \in Attempts, NEW bt \in Attempts,
           RowsGrow(at, rs, rt), AttemptGrows(at, bt),
           NEW s \in Shape(rs, at), s.id = "local" => bt.canonical = 0
    PROVE  s \in Shape(rt, bt)
  BY HeldGrows DEF Shape, AttemptGrows, Attempts

\* A version of a row, as it may be shown
LEMMA RowIs ==
    ASSUME PInv, NEW id \in Stored, NEW version \in Nat, version > 0,
           version <= Len(rows[id])
    PROVE  /\ rows[id][version] \in StoredRow /\ rows[id] # <<>>
           /\ rows[id][version].messages \in Seq(Int)
           /\ id = "c" /\ attempt.canonical = 0 => rows[id][version].messages = M0
  <1>1. rows[id] \in Seq(StoredRow) /\ version \in DOMAIN rows[id]
    BY Facts DEF AllRows
  <1>2. rows[id][version] \in StoredRow
    BY <1>1
  <1>3. rows[id][version].messages \in Seq(Nat)
    BY <1>2, Messages DEF StoredRow
  <1>4. rows[id][version].messages \in Seq(Int)
    BY <1>3
  <1>5. id = "c" /\ attempt.canonical = 0 => rows[id][version].messages = M0
    BY <1>1 DEF PInv, RowsSound, RowsValid
  <1> QED BY <1>1, <1>2, <1>4, <1>5

\* A version with its transcript can be shown ...
LEMMA ShownLoaded ==
    ASSUME PInv, NEW id \in Stored, NEW version \in Nat, version > 0,
           version <= Len(rows[id])
    PROVE  /\ Shown(id, version, TRUE) \in Shape(rows, attempt)
           /\ Shown(id, version, TRUE) \in Session
           /\ Shown(id, version, TRUE).id = id
           /\ Shown(id, version, TRUE).messages = rows[id][version].messages
           /\ Shown(id, version, TRUE).version = version
           /\ Shown(id, version, TRUE).sync = "saved"
  <1> DEFINE row == rows[id][version]
             text == row.messages
  <1>1. row \in StoredRow /\ rows[id] # <<>> /\ text \in Seq(Int)
        /\ (id = "c" /\ attempt.canonical = 0 => text \in {<<>>, M0})
    BY RowIs
  <1>5. version \in 1 .. Len(rows[id]) /\ text = rows[id][version].messages
    BY Facts DEF AllRows
  <1> DEFINE shown == [id |-> id, title |-> row.title, archived |-> row.archived,
                       status |-> row.status, sync |-> "saved", messages |-> text,
                       transcript |-> "loaded", version |-> version]
  <1>2. Shown(id, version, TRUE) = shown
    BY DEF Shown
  <1> HIDE DEF row, text
  <1>3. shown \in Session /\ shown.id = id /\ shown.messages = text
        /\ shown.version = version /\ shown.sync = "saved"
        /\ version \in 1 .. Len(rows[id]) /\ text = rows[id][version].messages
    BY <1>1, <1>5, StoredIds DEF Session, StoredRow
  <1> HIDE DEF shown
  <1>4. shown \in Shape(rows, attempt)
    BY <1>1, <1>3, StoredIds DEF Shape, HeldIn
  <1> QED BY <1>2, <1>3, <1>4 DEF text, row

\* ... and without it.
LEMMA ShownSummary ==
    ASSUME PInv, NEW id \in Stored, NEW version \in Nat, version > 0,
           version <= Len(rows[id])
    PROVE  /\ Shown(id, version, FALSE) \in Shape(rows, attempt)
           /\ Shown(id, version, FALSE) \in Session
           /\ Shown(id, version, FALSE).id = id
           /\ Shown(id, version, FALSE).messages = <<>>
           /\ Shown(id, version, FALSE).version = version
           /\ Shown(id, version, FALSE).sync = "saved"
  <1> DEFINE row == rows[id][version]
             text == <<>>
  <1>1. row \in StoredRow /\ rows[id] # <<>> /\ text \in Seq(Int)
        /\ (id = "c" /\ attempt.canonical = 0 => text \in {<<>>, M0})
    BY RowIs
  <1>5. version \in 1 .. Len(rows[id])
    BY Facts DEF AllRows
  <1> DEFINE shown == [id |-> id, title |-> row.title, archived |-> row.archived,
                       status |-> row.status, sync |-> "saved", messages |-> text,
                       transcript |-> "idle", version |-> version]
  <1>2. Shown(id, version, FALSE) = shown
    BY DEF Shown
  <1> HIDE DEF row, text
  <1>3. shown \in Session /\ shown.id = id /\ shown.messages = text
        /\ shown.version = version /\ shown.sync = "saved"
        /\ version \in 1 .. Len(rows[id]) /\ shown.transcript = "idle"
    BY <1>1, <1>5, StoredIds DEF Session, StoredRow
  <1> HIDE DEF shown
  <1>4. shown \in Shape(rows, attempt)
    BY <1>1, <1>3, StoredIds DEF Shape, HeldIn
  <1> QED BY <1>2, <1>3, <1>4 DEF text, row

Pending(messages) == {n \in DOMAIN messages : messages[n] = PendingAnswer}

\* Before the creation is answered no message is a pending answer.
LEMMA PendingMessages ==
    ASSUME NEW messages \in Seq(Int)
    PROVE  /\ Those(messages, Pending(messages)) \in Seq(Int)
           /\ messages \in {<<>>, M0} => Those(messages, Pending(messages)) = <<>>
  <1> DEFINE kept == Those(messages, Pending(messages))
  <1>1. Pending(messages) \in SUBSET (DOMAIN messages)
    BY DEF Pending
  <1>2. messages \in {<<>>, M0} => Pending(messages) = {}
    BY Messages DEF Pending, PendingAnswer
  <1>3. kept \in Seq(Int) /\ \A n \in DOMAIN kept : \E p \in Pending(messages) : kept[n] = messages[p]
    BY <1>1, ThoseAre
  <1> QED BY <1>2, <1>3

\* What an answer is reconciled to is sound, however old the answer is.
LEMMA ReconciledIs ==
    ASSUME PInv, NEW version \in Nat, version > 0, version <= Len(rows["c"]),
           NEW s \in Shape(rows, attempt), s.id = "c",
           NEW status \in {"running", "idle", "failed"},
           NEW following \in BOOLEAN, NEW preserve \in BOOLEAN
    PROVE  /\ Reconciled("c", version, s, status, following, preserve) \in Shape(rows, attempt)
           /\ Reconciled("c", version, s, status, following, preserve).id = "c"
  <1>1. CASE version < s.version
    BY <1>1 DEF Reconciled
  <1>2. CASE ~(version < s.version)
    <2> DEFINE row == Shown("c", version, TRUE)
               kept == IF preserve
                       THEN Those(s.messages, Pending(s.messages))
                       ELSE <<>>
               optimistic == Len(s.messages) > Len(row.messages) \/ kept # <<>>
               text == IF kept # <<>> THEN row.messages \o kept
                       ELSE IF optimistic THEN s.messages ELSE row.messages
               sync == IF following \/ optimistic THEN "saving" ELSE "saved"
               title == IF following THEN s.title ELSE row.title
               archived == IF following THEN s.archived ELSE row.archived
    <2>1. /\ row \in Shape(rows, attempt) /\ row \in Session /\ row.id = "c"
          /\ row.messages = rows["c"][version].messages /\ row.version = version
      <3>1. "c" \in Stored
        BY StoredIds
      <3> HIDE DEF row
      <3>2. /\ Shown("c", version, TRUE) \in Shape(rows, attempt)
            /\ Shown("c", version, TRUE) \in Session
            /\ Shown("c", version, TRUE).id = "c"
            /\ Shown("c", version, TRUE).messages = rows["c"][version].messages
            /\ Shown("c", version, TRUE).version = version
        BY <3>1, ShownLoaded
      <3> QED BY <3>2 DEF row
    <2>2. rows["c"] # <<>> /\ row.messages \in Seq(Int)
          /\ (attempt.canonical = 0 => row.messages = M0)
      BY <2>1, RowIs, StoredIds
    <2>3. s \in Session /\ s.messages \in Seq(Int)
          /\ (attempt.canonical = 0 => s.messages \in {<<>>, M0})
      BY DEF Shape, Session
    <2>4. kept \in Seq(Int) /\ (attempt.canonical = 0 => kept = <<>>)
      BY <2>3, PendingMessages
    <2>5. Reconciled("c", version, s, status, following, preserve) =
             [row EXCEPT !.title = title, !.archived = archived, !.messages = text,
                         !.status = status, !.sync = sync]
      BY <1>2, <2>1 DEF Reconciled, Session, Filtered, Pending
    <2> HIDE DEF row, kept
    <2>6. text \in Seq(Int) /\ (attempt.canonical = 0 => text \in {<<>>, M0})
      BY <2>2, <2>3, <2>4
    <2>7. title \in Titles /\ archived \in {"no", "yes"} /\ sync \in {"saving", "saved"}
      BY <2>1, <2>3 DEF Session
    <2>a. (sync = "saved" => text = row.messages) /\ version \in 1 .. Len(rows["c"])
      BY Facts, StoredIds DEF AllRows
    <2> HIDE DEF text, title, archived, sync
    <2> DEFINE t == [row EXCEPT !.title = title, !.archived = archived, !.messages = text,
                                !.status = status, !.sync = sync]
    <2>8. t \in Session /\ t.id = "c" /\ t.messages = text
          /\ t.version = version /\ t.sync = sync
      BY <2>1, <2>6, <2>7 DEF Session
    <2> HIDE DEF t
    <2>9. t \in Shape(rows, attempt)
      BY <2>1, <2>2, <2>6, <2>8, <2>a, StoredIds DEF Shape, HeldIn
    <2> QED BY <2>5, <2>8, <2>9 DEF t
  <1> QED BY <1>1, <1>2

-----------------------------------------------------------------------------
(* What a step may leave to these lemmas.                                  *)

Growth ==
    /\ rows' \in AllRows /\ attempt' \in Attempts
    /\ RowsGrow(attempt, rows, rows') /\ AttemptGrows(attempt, attempt')

\* Calls stay valid while rows grow; new ones have to be shown to be.  The same
\* holds of operations and retries.
LEMMA Kept ==
    ASSUME PInv, Growth
    PROVE  /\ (\A s \in Slots : \/ net'[s] = net[s] \/ net'[s] = NoCall
                                \/ Valid(rows', attempt', net'[s])) => SlotsValid'
           /\ (\A call \in stray' :
                  \/ call \in stray
                  \/ /\ Valid(rows', attempt', call) /\ call.phase \in {"sent", "write"}
                     /\ call.what \notin {"get", "list"}) => StraysValid'
           /\ (\A k \in Keys : \A n \in DOMAIN queue'[k] :
                  \/ \E m \in DOMAIN queue[k] : queue'[k][n] = queue[k][m]
                  \/ OpValid(rows', attempt', k, queue'[k][n])) => QueuesValid'
           /\ (\A r \in retries' : r \in retries \/ RetryValid(attempt', r)) =>
                  \A r \in retries' : RetryValid(attempt', r)
           /\ (\A p \in Presses : \/ pressing'[p] = pressing[p] \/ pressing'[p] = NoRetry
                                 \/ RetryValid(attempt', pressing'[p])) =>
                  \A p \in Presses : pressing'[p] # NoRetry => RetryValid(attempt', pressing'[p])
  <1>1. /\ rows \in AllRows /\ attempt \in Attempts
        /\ \A call \in Calls : Valid(rows, attempt, call) => Valid(rows', attempt', call)
    BY Facts, ValidGrows DEF Growth
  <1>2. /\ \A s \in Slots : net[s] # NoCall => net[s] \in Calls /\ Valid(rows, attempt, net[s])
        /\ \A call \in stray : /\ call \in Calls /\ Valid(rows, attempt, call)
                               /\ call.phase \in {"sent", "write"}
                               /\ call.what \notin {"get", "list"}
        /\ \A r \in retries : RetryValid(attempt, r)
        /\ \A k \in Keys : \A n \in DOMAIN queue[k] : OpValid(rows, attempt, k, queue[k][n])
    BY DEF PInv, TypeInv, CallsValid, SlotsValid, StraysValid, RetriesValid, QueuesValid
  <1>3. (\A s \in Slots : \/ net'[s] = net[s] \/ net'[s] = NoCall
                          \/ Valid(rows', attempt', net'[s])) => SlotsValid'
    BY <1>1, <1>2 DEF SlotsValid
  <1>4. (\A call \in stray' :
                  \/ call \in stray
                  \/ /\ Valid(rows', attempt', call) /\ call.phase \in {"sent", "write"}
                     /\ call.what \notin {"get", "list"}) => StraysValid'
    BY <1>1, <1>2 DEF StraysValid
  <1>5. (\A k \in Keys : \A n \in DOMAIN queue'[k] :
                  \/ \E m \in DOMAIN queue[k] : queue'[k][n] = queue[k][m]
                  \/ OpValid(rows', attempt', k, queue'[k][n])) => QueuesValid'
    <2> SUFFICES ASSUME \A k \in Keys : \A n \in DOMAIN queue'[k] :
                            \/ \E m \in DOMAIN queue[k] : queue'[k][n] = queue[k][m]
                            \/ OpValid(rows', attempt', k, queue'[k][n]),
                        NEW k \in Keys, NEW n \in DOMAIN queue'[k]
                 PROVE  OpValid(rows', attempt', k, queue'[k][n])
      BY DEF QueuesValid
    <2> SUFFICES ASSUME NEW m \in DOMAIN queue[k], queue'[k][n] = queue[k][m]
                 PROVE  OpValid(rows', attempt', k, queue'[k][n])
      OBVIOUS
    <2>1. OpValid(rows, attempt, k, queue[k][m])
      BY <1>2
    <2> QED BY <1>1, <2>1, OpValidGrows DEF Growth
  <1>6. (\A r \in retries' : r \in retries \/ RetryValid(attempt', r)) =>
                  \A r \in retries' : RetryValid(attempt', r)
    BY <1>1, <1>2, RetryValidGrows DEF Growth
  <1>7. (\A p \in Presses : \/ pressing'[p] = pressing[p] \/ pressing'[p] = NoRetry
                            \/ RetryValid(attempt', pressing'[p])) =>
           \A p \in Presses : pressing'[p] # NoRetry => RetryValid(attempt', pressing'[p])
    <2>1. \A p \in Presses : pressing[p] # NoRetry => RetryValid(attempt, pressing[p])
      BY DEF PInv, RetriesValid
    <2> QED BY <1>1, <2>1, RetryValidGrows DEF Growth
  <1> QED BY <1>3, <1>4, <1>5, <1>6, <1>7

-----------------------------------------------------------------------------
(* Steps of the server, the network and other tabs.                        *)

\* No call is no call.
LEMMA NoCallIs == NoCall \notin Calls /\ NoCall.phase = "none"
  BY DEF NoCall, Calls

\* A call on its way is valid.
LEMMA CallIs ==
    ASSUME PInv, NEW s \in Slots, net[s].phase # "none"
    PROVE  net[s] # NoCall /\ net[s] \in Calls /\ Valid(rows, attempt, net[s])
  BY NoCallIs DEF PInv, TypeInv, CallsValid, SlotsValid

SameCall(c, d) == d.what = c.what /\ d.id = c.id /\ d.value = c.value

\* A step of the server or of another tab keeps the invariant, when rows only grow
\* and calls stay the calls they were.
LEMMA ServerStep ==
    ASSUME PInv, Growth, RowsValid(rows', attempt), UNCHANGED tab,
           left' \in Left,
           net' \in [Slots -> Calls \cup {NoCall}], stray' \in SUBSET Calls,
           \A s \in Slots : \/ net'[s] = net[s]
                            \/ /\ net[s] # NoCall /\ net'[s] # NoCall
                               /\ Valid(rows', attempt', net'[s])
                               /\ SameCall(net[s], net'[s]),
           \A call \in stray' :
                  \/ call \in stray
                  \/ /\ Valid(rows', attempt', call) /\ call.phase \in {"sent", "write"}
                     /\ call.what \notin {"get", "list"}
    PROVE  PInv'
  <1> USE DEF tab, page
  <1>1. TypeInv'
    BY DEF PInv, TypeInv, Growth, AllRows
  <1>2. OneRetryPerKey'
    BY DEF PInv, OneRetryPerKey
  <1>3. CallsValid'
    BY Kept DEF PInv, CallsValid, SlotKinds, SameCall, Slots
  <1>4. HeadCalls'
    BY DEF PInv, HeadCalls, SameCall, Slots
  <1>5. RowsSound'
    BY DEF RowsSound
  <1>6. SessionsSound'
    BY Facts, ShapeGrows, SeqWiden DEF Growth, Shape, PInv, SessionsSound, Sessions
  <1>7. QueuesValid'
    BY Kept
  <1>8. RetriesValid'
    BY Kept DEF RetriesValid
  <1>9. AttemptSound'
    BY DEF PInv, AttemptSound, CreateUnderWay, SameCall
  <1> QED BY <1>1, <1>2, <1>3, <1>4, <1>5, <1>6, <1>7, <1>8, <1>9 DEF PInv

LEMMA SameAttempt == ASSUME PInv PROVE AttemptGrows(attempt, attempt)
  BY Facts DEF AttemptGrows, Attempts

\* A slot's call is handled.
LEMMA ServeIs ==
    ASSUME PInv, NEW s \in Slots, Serve(s)
    PROVE  /\ Growth /\ RowsValid(rows', attempt) /\ UNCHANGED <<stray, tab, left>>
           /\ net' \in [Slots -> Calls \cup {NoCall}]
           /\ \A t \in Slots : \/ net'[t] = net[t]
                              \/ /\ net[t] # NoCall /\ net'[t] # NoCall
                                 /\ Valid(rows', attempt', net'[t])
                                 /\ SameCall(net[t], net'[t])
  <1>1. net[s] # NoCall /\ net[s] \in Calls /\ Valid(rows, attempt, net[s])
    BY CallIs DEF Serve
  <1>2. Comes(net[s], Handled(net[s]))
    BY <1>1, Served DEF Serve
  <1> DEFINE h == Handled(net[s])
  <1>3. /\ rows' = h.rows /\ net' = [net EXCEPT ![s] = h.call]
        /\ UNCHANGED <<stray, tab, left>>
    BY DEF Serve
  <1>4. attempt' = attempt
    BY <1>3 DEF tab
  <1>5. Growth /\ RowsValid(rows', attempt)
    BY <1>2, <1>3, <1>4, Facts, SameAttempt DEF Comes, Growth
  <1>6. h.call \in Calls /\ Valid(rows', attempt, h.call) /\ SameCall(net[s], h.call)
    BY <1>2, <1>3 DEF Comes, SameCall
  <1> HIDE DEF h
  <1>7. net \in [Slots -> Calls \cup {NoCall}]
    BY DEF PInv, TypeInv
  <1>8. net' \in [Slots -> Calls \cup {NoCall}]
    BY <1>3, <1>6, <1>7
  <1>9. \A t \in Slots : \/ net'[t] = net[t]
                         \/ /\ net[t] # NoCall /\ net'[t] # NoCall
                            /\ Valid(rows', attempt', net'[t])
                            /\ SameCall(net[t], net'[t])
    BY <1>1, <1>3, <1>4, <1>6, <1>7, NoCallIs
  <1> QED BY <1>3, <1>5, <1>8, <1>9

LEMMA ServeStep ==
    ASSUME PInv, NEW s \in Slots, Serve(s)
    PROVE  PInv'
  BY ServeIs, ServerStep DEF PInv, TypeInv

\* A call the tab no longer waits for is handled.
LEMMA ServeStrayIs ==
    ASSUME PInv, NEW call \in stray, ServeStray(call)
    PROVE  /\ Growth /\ RowsValid(rows', attempt) /\ UNCHANGED <<net, tab, left>>
           /\ stray' \in SUBSET Calls
           /\ \A c \in stray' : \/ c \in stray
                               \/ /\ Valid(rows', attempt', c) /\ c.phase \in {"sent", "write"}
                                  /\ c.what \notin {"get", "list"}
  <1>1. /\ call \in Calls /\ Valid(rows, attempt, call) /\ call.phase \in {"sent", "write"}
        /\ call.what \notin {"get", "list"}
    BY DEF PInv, TypeInv, CallsValid, StraysValid
  <1>2. Comes(call, Handled(call))
    BY <1>1, Served
  <1> DEFINE h == Handled(call)
  <1>3. /\ rows' = h.rows /\ UNCHANGED <<net, tab, left>>
        /\ \A c \in stray' : c \in stray \/ (c = h.call /\ c.phase = "write")
    BY DEF ServeStray
  <1>4. attempt' = attempt
    BY <1>3 DEF tab
  <1>5. Growth /\ RowsValid(rows', attempt)
    BY <1>2, <1>3, <1>4, Facts, SameAttempt DEF Comes, Growth
  <1>6. h.call \in Calls /\ Valid(rows', attempt, h.call) /\ h.call.what = call.what
    BY <1>2, <1>3 DEF Comes
  <1> HIDE DEF h
  <1>7. stray \in SUBSET Calls
    BY DEF PInv, TypeInv
  <1>8. stray' \in SUBSET Calls
    BY <1>3, <1>6, <1>7
  <1>9. \A c \in stray' : \/ c \in stray
                          \/ /\ Valid(rows', attempt', c) /\ c.phase \in {"sent", "write"}
                             /\ c.what \notin {"get", "list"}
    BY <1>1, <1>3, <1>4, <1>6
  <1> QED BY <1>3, <1>5, <1>8, <1>9

LEMMA ServeStrayStep ==
    ASSUME PInv, NEW call \in stray, ServeStray(call)
    PROVE  PInv'
  BY ServeStrayIs, ServerStep DEF PInv, TypeInv

\* Nothing is growth too.
LEMMA SameGrowth ==
    ASSUME PInv, rows' = rows, attempt' = attempt
    PROVE  Growth /\ RowsValid(rows', attempt) /\ RowsSound'
  BY Facts, SameAttempt, RowsGrowSelf DEF Growth, PInv, RowsSound

LEMMA LoseStep ==
    ASSUME PInv, NEW s \in Slots, Lose(s)
    PROVE  PInv'
  <1>1. net[s] # NoCall /\ net[s] \in Calls /\ Valid(rows, attempt, net[s])
    BY CallIs DEF Lose
  <1> DEFINE new == [net[s] EXCEPT !.phase = "answered", !.outcome = "unavailable"]
  <1>2. net \in [Slots -> Calls \cup {NoCall}] /\ stray \in SUBSET Calls
    BY DEF PInv, TypeInv
  <1>3. /\ rows' = rows /\ UNCHANGED tab /\ net' = [net EXCEPT ![s] = new]
        /\ \A c \in stray' : \/ c \in stray
                             \/ /\ c = net[s] /\ c.phase \in {"sent", "write"}
                                /\ c.what \notin {"get", "list"}
    BY <1>1, <1>2 DEF Lose
  <1>4. attempt' = attempt
    BY <1>3 DEF tab
  <1>5. Growth /\ RowsValid(rows', attempt)
    BY <1>3, <1>4, SameGrowth
  <1>6. /\ new \in Calls /\ SameCall(net[s], new) /\ new.key = net[s].key
        /\ new.phase = "answered" /\ new.outcome = "unavailable"
    BY <1>1 DEF Calls, SameCall
  <1> HIDE DEF new
  <1>7. Valid(rows', attempt', new)
    BY <1>1, <1>3, <1>4, <1>6 DEF Valid, Carries, SameCall
  <1>8. net' \in [Slots -> Calls \cup {NoCall}] /\ stray' \in SUBSET Calls
    BY <1>1, <1>2, <1>3, <1>6
  <1>9. \A t \in Slots : \/ net'[t] = net[t]
                         \/ /\ net[t] # NoCall /\ net'[t] # NoCall
                            /\ Valid(rows', attempt', net'[t])
                            /\ SameCall(net[t], net'[t])
    BY <1>1, <1>2, <1>3, <1>6, <1>7, NoCallIs
  <1>10. \A c \in stray' : \/ c \in stray
                           \/ /\ Valid(rows', attempt', c) /\ c.phase \in {"sent", "write"}
                              /\ c.what \notin {"get", "list"}
    BY <1>1, <1>3, <1>4
  <1>11. left' \in Left
    <2>1. left \in Left /\ left.losses > 0 /\ left' = [left EXCEPT !.losses = @ - 1]
      BY DEF Lose, PInv, TypeInv
    <2> QED BY <2>1 DEF Left
  <1> QED BY <1>3, <1>5, <1>8, <1>9, <1>10, <1>11, ServerStep

\* Another tab renames, archives or fails to: the row grows.
LEMMA OtherTabIs ==
    ASSUME PInv, OtherTab
    PROVE  /\ Growth /\ RowsValid(rows', attempt) /\ UNCHANGED <<net, stray, tab>>
           /\ left' \in Left
  <1>1. rows["c"] # <<>> /\ Last(rows["c"]) = Final(rows, "c") /\ Final(rows, "c") \in StoredRow
        /\ "c" \in Stored /\ Len(rows["c"]) \in DOMAIN rows["c"]
    BY Facts, StoredIds, LastIs DEF AllRows, OtherTab, Version, Final
  <1>2. \E row \in StoredRow :
           /\ rows' = WithVersion("c", row) /\ row.messages = Final(rows, "c").messages
           /\ row.status = Final(rows, "c").status
    <2>1. CASE \E title \in Titles \ {Last(rows["c"]).title} :
                  rows' = WithVersion("c", [Last(rows["c"]) EXCEPT !.title = title])
      BY <1>1, <2>1 DEF StoredRow
    <2>2. CASE rows' = WithVersion("c", [Last(rows["c"]) EXCEPT !.archived = "yes"])
      BY <1>1, <2>2 DEF StoredRow
    <2> QED BY <2>1, <2>2 DEF OtherTab
  <1>3. PICK row \in StoredRow :
           /\ rows' = WithVersion("c", row) /\ row.messages = Final(rows, "c").messages
           /\ row.status = Final(rows, "c").status
    BY <1>2
  <1>4. attempt.canonical = 0 => Final(rows, "c").messages = M0
    BY <1>1 DEF PInv, RowsSound, RowsValid, Final
  <1>5. rows' \in AllRows /\ RowsGrow(attempt, rows, rows') /\ RowsValid(rows', attempt)
    BY <1>1, <1>3, <1>4, AppendRow
  <1>6. UNCHANGED <<net, stray, tab>> /\ attempt' = attempt
    BY DEF OtherTab, tab
  <1>7. Growth
    BY <1>5, <1>6, Facts, SameAttempt DEF Growth
  <1>8. left' \in Left
    <2>1. left \in Left /\ left.other > 0 /\ left' = [left EXCEPT !.other = @ - 1]
      BY DEF OtherTab, PInv, TypeInv
    <2> QED BY <2>1 DEF Left
  <1> QED BY <1>5, <1>6, <1>7, <1>8

LEMMA OtherTabStep ==
    ASSUME PInv, OtherTab
    PROVE  PInv'
  BY OtherTabIs, ServerStep DEF PInv, TypeInv

-----------------------------------------------------------------------------
(* Steps of the tab that change what is shown only.                        *)

\* The presses have slots of their own.
LEMMA PressSlots ==
    /\ {"create", "list", "detail"} \cup Presses \subseteq Slots
    /\ \A p \in Presses : p \notin Keys /\ p # "create" /\ p # "list" /\ p # "detail"
  BY PressesAssumption DEF Slots, Keys

\* The types of what the tab holds
LEMMA Typed ==
    ASSUME PInv
    PROVE  /\ queue \in [Keys -> Seq(Ops)] /\ net \in [Slots -> Calls \cup {NoCall}]
           /\ stray \in SUBSET Calls /\ retries \in SUBSET Retry
           /\ pressing \in [Presses -> Retry \cup {NoRetry}]
           /\ load \in {"failed", "loading", "loaded"} /\ selected \in Stored \cup {"none"}
           /\ left \in Left
  BY DEF PInv, TypeInv

\* The tab learns of its command.
LEMMA TabGrowth ==
    ASSUME PInv, rows' = rows, attempt' \in Attempts, AttemptGrows(attempt, attempt'),
           attempt'.canonical <= Len(rows["c"])
    PROVE  Growth /\ RowsSound'
  BY Facts, RowsGrowSelf DEF Growth, PInv, RowsSound, RowsValid, AttemptGrows, Attempts

\* A step of the tab that leaves its queues and its retries alone
LEMMA ShowStep ==
    ASSUME PInv, UNCHANGED <<rows, stray, queue, retries, pressing>>,
           Growth, RowsSound', AttemptSound', SessionsSound',
           net' \in [Slots -> Calls \cup {NoCall}],
           \A s \in Slots : \/ net'[s] = net[s]
                            \/ s \notin Keys /\ net'[s] = NoCall
                            \/ s \notin Keys /\ Valid(rows', attempt', net'[s]),
           SlotKinds', load' \in {"failed", "loading", "loaded"},
           selected' \in Stored \cup {"none"}, left' \in Left
    PROVE  PInv'
  <1>1. TypeInv'
    BY SeqWiden, Typed DEF SessionsSound, Shape, TypeInv, Growth, AllRows, Attempts
  <1>2. OneRetryPerKey'
    BY DEF PInv, OneRetryPerKey
  <1>3. CallsValid'
    BY Kept DEF CallsValid
  <1>4. HeadCalls'
    BY DEF PInv, HeadCalls, Slots
  <1>5. QueuesValid' /\ RetriesValid'
    BY Kept DEF RetriesValid
  <1> QED BY <1>1, <1>2, <1>3, <1>4, <1>5 DEF PInv

\* Sessions that are changed where they stand
LEMMA SessionsMapped ==
    ASSUME PInv, sessions' = [n \in DOMAIN sessions |-> sessions'[n]],
           \A n \in DOMAIN sessions : /\ sessions'[n] \in Shape(rows', attempt')
                                      /\ sessions'[n].id = sessions[n].id
    PROVE  SessionsSound'
  BY Facts, MapIs DEF SessionsSound

\* A session whose title, status or saving changed is sound.
LEMMA ReShaped ==
    ASSUME NEW rs, NEW at, NEW s \in Shape(rs, at), NEW t \in Session, t.id = s.id,
           t.messages = s.messages
             \/ (t.sync # "saved" /\ (s.id = "c" => at.canonical > 0)),
           at.canonical \in Nat, t.version = s.version,
           t.sync = "saved" /\ t.transcript = "loaded" =>
               s.sync = "saved" /\ s.transcript = "loaded",
           s.id = "local" => t.sync # "saved"
    PROVE  t \in Shape(rs, at)
  BY DEF Shape, HeldIn

\* A queue one operation longer ...
LEMMA EnqueuedIs ==
    ASSUME PInv, NEW k \in Keys, NEW op \in Ops, NEW q, q = Enqueued(k, op)
    PROVE  /\ q \in [Keys -> Seq(Ops)]
           /\ \A j \in Keys : j # k => q[j] = queue[j]
           /\ Len(q[k]) = Len(queue[k]) + 1 /\ q[k][Len(queue[k]) + 1] = op
           /\ \A j \in Keys : \A n \in DOMAIN queue[j] :
                      n \in DOMAIN q[j] /\ q[j][n] = queue[j][n]
           /\ \A j \in Keys : \A n \in DOMAIN q[j] :
                      \/ n \in DOMAIN queue[j] /\ q[j][n] = queue[j][n]
                      \/ j = k /\ n = Len(queue[k]) + 1 /\ q[j][n] = op
  <1>1. queue \in [Keys -> Seq(Ops)]
    BY Typed
  <1>2. q = [queue EXCEPT ![k] = Append(queue[k], op)]
    BY DEF Enqueued
  <1>3. q \in [Keys -> Seq(Ops)]
    BY <1>1, <1>2
  <1>4. /\ Append(queue[k], op) \in Seq(Ops) /\ Len(Append(queue[k], op)) = Len(queue[k]) + 1
        /\ Append(queue[k], op)[Len(queue[k]) + 1] = op
        /\ \A n \in 1 .. Len(queue[k]) : Append(queue[k], op)[n] = queue[k][n]
        /\ DOMAIN Append(queue[k], op) = 1 .. (Len(queue[k]) + 1)
    BY <1>1, AppendIs
  <1>5. q[k] = Append(queue[k], op) /\ \A j \in Keys : j # k => q[j] = queue[j]
    BY <1>1, <1>2
  <1>6. \A j \in Keys : queue[j] \in Seq(Ops) /\ DOMAIN queue[j] = 1 .. Len(queue[j])
    BY <1>1
  <1>7. \A j \in Keys : \A n \in DOMAIN queue[j] : n \in DOMAIN q[j] /\ q[j][n] = queue[j][n]
    BY <1>4, <1>5, <1>6
  <1>8. \A j \in Keys : \A n \in DOMAIN q[j] :
            \/ n \in DOMAIN queue[j] /\ q[j][n] = queue[j][n]
            \/ j = k /\ n = Len(queue[k]) + 1 /\ q[j][n] = op
    BY <1>4, <1>5, <1>6
  <1> QED BY <1>3, <1>4, <1>5, <1>7, <1>8

\* ... or shorter.
LEMMA PoppedIs ==
    ASSUME PInv, NEW k \in Keys, queue[k] # <<>>, NEW q, q = Popped(k)
    PROVE  /\ q \in [Keys -> Seq(Ops)]
           /\ \A j \in Keys : j # k => q[j] = queue[j]
           /\ Len(q[k]) = Len(queue[k]) - 1
           /\ \A n \in DOMAIN q[k] : n + 1 \in DOMAIN queue[k] /\ q[k][n] = queue[k][n + 1]
           /\ \A n \in DOMAIN queue[k] : n # 1 => n - 1 \in DOMAIN q[k]
                                                      /\ q[k][n - 1] = queue[k][n]
           /\ 1 \in DOMAIN queue[k] /\ Head(queue[k]) = queue[k][1]
  <1>1. queue \in [Keys -> Seq(Ops)]
    BY Typed
  <1>2. q = [queue EXCEPT ![k] = Tail(queue[k])]
    BY DEF Popped
  <1>3. queue[k] \in Seq(Ops) /\ Len(queue[k]) > 0
    BY <1>1
  <1>4. /\ Tail(queue[k]) \in Seq(Ops) /\ Len(Tail(queue[k])) = Len(queue[k]) - 1
        /\ \A n \in 1 .. (Len(queue[k]) - 1) : Tail(queue[k])[n] = queue[k][n + 1]
    BY <1>3
  <1>5. q \in [Keys -> Seq(Ops)] /\ q[k] = Tail(queue[k])
        /\ \A j \in Keys : j # k => q[j] = queue[j]
    BY <1>1, <1>2, <1>4
  <1>6. DOMAIN q[k] = 1 .. (Len(queue[k]) - 1) /\ DOMAIN queue[k] = 1 .. Len(queue[k])
    BY <1>3, <1>4, <1>5
  <1>7. \A n \in DOMAIN queue[k] : n # 1 => n - 1 \in DOMAIN q[k] /\ q[k][n - 1] = queue[k][n]
    <2> SUFFICES ASSUME NEW n \in DOMAIN queue[k], n # 1
                 PROVE  n - 1 \in DOMAIN q[k] /\ q[k][n - 1] = queue[k][n]
      OBVIOUS
    <2>1. n - 1 \in 1 .. (Len(queue[k]) - 1) /\ (n - 1) + 1 = n
      BY <1>3, <1>6
    <2> QED BY <1>4, <1>5, <1>6, <2>1
  <1> QED BY <1>3, <1>4, <1>5, <1>6, <1>7

\* A session that is shown is sound.
LEMMA SessionIs ==
    ASSUME PInv, NEW n \in DOMAIN sessions
    PROVE  /\ sessions[n] \in Shape(rows, attempt) /\ sessions[n] \in Session
           /\ sessions[n].id = "local" => attempt.begun /\ attempt.canonical = 0
                                          /\ sessions[n].sync # "saved"
  BY Facts DEF Shape

\* Only the beginning and the answered creation matter to a session.
LEMMA ShapeOfAttempt ==
    ASSUME NEW rs, NEW at, NEW bt, NEW s \in Shape(rs, at), bt.begun = at.begun,
           bt.canonical = at.canonical
    PROVE  s \in Shape(rs, bt)
  BY DEF Shape

LEMMA BeginStep ==
    ASSUME PInv, Begin
    PROVE  PInv'
  <1> DEFINE new == [id |-> "local", title |-> FirstTitle, archived |-> "no",
                     status |-> "running", sync |-> "saving",
                     messages |-> <<PendingUser>>, transcript |-> "loaded", version |-> 1]
             call == Call("create", "c", FirstTitle, 0, 0)
  <1>1. /\ ~attempt.begun /\ attempt' = [attempt EXCEPT !.begun = TRUE]
        /\ sessions' = <<new>> \o sessions /\ net' = [net EXCEPT !["create"] = call]
        /\ UNCHANGED <<rows, stray, queue, retries, pressing, page, left>>
    BY DEF Begin
  <1>2. attempt.canonical = 0 /\ attempt.target = "running"
    BY <1>1 DEF PInv, AttemptSound
  <1>3. /\ attempt' \in Attempts /\ attempt'.begun /\ attempt'.canonical = 0
        /\ attempt'.answered = attempt.answered /\ attempt'.target = attempt.target
        /\ attempt'.appends = attempt.appends
    BY <1>1, <1>2, Facts DEF Attempts
  <1>4. AttemptGrows(attempt, attempt') /\ attempt'.canonical <= Len(rows["c"])
    BY <1>2, <1>3, Facts DEF AttemptGrows, PInv, RowsSound, RowsValid
  <1>5. Growth /\ RowsSound'
    BY <1>1, <1>3, <1>4, TabGrowth
  <1>6. new \in Session
    BY TitlesAssumption DEF PendingUser, Session
  <1>7. new \in Shape(rows, attempt') /\ new.id = "local"
    BY <1>3, <1>6, StoredIds DEF Shape
  <1> HIDE DEF new
  <1>8. \A n \in DOMAIN sessions : sessions[n] \in Shape(rows, attempt')
    <2> TAKE n \in DOMAIN sessions
    <2>1. sessions[n] \in Shape(rows, attempt)
      BY SessionIs
    <2> QED BY <1>2, <1>3, <2>1 DEF Shape
  <1>9. SessionsSound'
    <2>1. sessions \in Seq(Shape(rows, attempt'))
      BY <1>8, Facts, SeqWiden
    <2>2. <<new>> \in Seq(Shape(rows, attempt'))
      BY <1>7
    <2> QED BY <1>1, <2>1, <2>2 DEF SessionsSound
  <1>10. call \in Calls /\ Valid(rows, attempt', call) /\ call.what = "create"
    <2>1. FirstTitle \in Values /\ [i \in Stored |-> 0] \in [Stored -> Nat]
      BY TitlesAssumption DEF Values
    <2>2. call \in Calls
      BY <2>1, StoredIds DEF Call, Calls
    <2>3. /\ call.what = "create" /\ call.id = "c" /\ call.phase = "sent" /\ call.outcome = "none"
      BY DEF Call
    <2> HIDE DEF call
    <2> QED BY <1>3, <2>2, <2>3 DEF Valid, Carries, EditFields
  <1> HIDE DEF call
  <1>11. net \in [Slots -> Calls \cup {NoCall}] /\ "create" \in Slots /\ "create" \notin Keys
    BY Typed, StoredIds DEF Slots
  <1>12. /\ net' \in [Slots -> Calls \cup {NoCall}] /\ net'["create"] = call
         /\ \A s \in Slots : s # "create" => net'[s] = net[s]
    BY <1>1, <1>10, <1>11
  <1>13. SlotKinds'
    BY <1>1, <1>10, <1>12, PressSlots DEF PInv, CallsValid, SlotKinds
  <1>14. AttemptSound'
    BY <1>1, <1>2, <1>3, <1>10, <1>11, <1>12, NoCallIs DEF PInv, AttemptSound, CreateUnderWay
  <1>15. /\ load' \in {"failed", "loading", "loaded"} /\ selected' \in Stored \cup {"none"}
         /\ left' \in Left
    BY <1>1, Typed DEF page
  <1>16. \A s \in Slots : \/ net'[s] = net[s]
                          \/ s \notin Keys /\ Valid(rows', attempt', net'[s])
    BY <1>1, <1>10, <1>11, <1>12
  <1> QED BY <1>1, <1>5, <1>9, <1>12, <1>13, <1>14, <1>15, <1>16, ShowStep

LEMMA NoAnswerStep ==
    ASSUME PInv, NoAnswer
    PROVE  PInv'
  <1>1. /\ attempt.begun /\ attempt.target = "running"
        /\ attempt' = [attempt EXCEPT !.target = "idle"]
        /\ sessions' = [n \in DOMAIN sessions |->
               IF IsAttempt(sessions[n]) THEN [sessions[n] EXCEPT !.status = "idle"]
               ELSE sessions[n]]
        /\ UNCHANGED <<rows, net, stray, queue, retries, pressing, page, left>>
    BY DEF NoAnswer, Mapped
  <1>2. /\ attempt' \in Attempts /\ attempt'.begun = attempt.begun
        /\ attempt'.canonical = attempt.canonical /\ attempt'.answered = attempt.answered
        /\ attempt'.target = "idle" /\ attempt'.appends = attempt.appends
    BY <1>1, Facts DEF Attempts
  <1>3. AttemptGrows(attempt, attempt') /\ attempt'.canonical <= Len(rows["c"])
    BY <1>1, <1>2, Facts DEF AttemptGrows, Attempts, PInv, RowsSound, RowsValid
  <1>4. Growth /\ RowsSound'
    BY <1>1, <1>2, <1>3, TabGrowth
  <1>5. \A n \in DOMAIN sessions : /\ sessions'[n] \in Shape(rows', attempt')
                                   /\ sessions'[n].id = sessions[n].id
    <2> TAKE n \in DOMAIN sessions
    <2>1. sessions[n] \in Shape(rows, attempt') /\ sessions[n] \in Session
          /\ (sessions[n].id = "local" => sessions[n].sync # "saved")
      BY <1>2, SessionIs, ShapeOfAttempt
    <2> DEFINE t == [sessions[n] EXCEPT !.status = "idle"]
    <2>2. t \in Session /\ t.id = sessions[n].id /\ t.messages = sessions[n].messages
          /\ t.sync = sessions[n].sync /\ t.version = sessions[n].version
          /\ (t.transcript = "loaded" => sessions[n].transcript = "loaded")
      BY <2>1 DEF Session
    <2> HIDE DEF t
    <2>3. t \in Shape(rows, attempt')
      BY <1>2, <2>1, <2>2, ReShaped, Facts DEF Attempts
    <2> QED BY <1>1, <2>1, <2>2, <2>3 DEF t
  <1>6. SessionsSound'
    BY <1>1, <1>2, <1>5, SessionsMapped
  <1>7. SlotKinds' /\ AttemptSound'
    BY <1>1, <1>2 DEF PInv, CallsValid, SlotKinds, AttemptSound, CreateUnderWay
  <1>8. /\ load' \in {"failed", "loading", "loaded"} /\ selected' \in Stored \cup {"none"}
        /\ left' \in Left /\ net' \in [Slots -> Calls \cup {NoCall}]
    BY <1>1, Typed DEF page
  <1> QED BY <1>1, <1>4, <1>6, <1>7, <1>8, ShowStep

LEMMA PressLoadStep ==
    ASSUME PInv, PressLoad
    PROVE  PInv'
  <1> DEFINE call == Call("list", "c", "none", 0, 0)
  <1>1. /\ net' = [net EXCEPT !["list"] = call] /\ load' = "loading"
        /\ UNCHANGED <<rows, stray, sessions, attempt, queue, retries, pressing,
                       selected, left>>
    BY DEF PressLoad
  <1>2. call \in Calls /\ Valid(rows, attempt, call) /\ call.what = "list"
    <2>1. "none" \in Values /\ [i \in Stored |-> 0] \in [Stored -> Nat]
      BY DEF Values
    <2>2. call \in Calls
      BY <2>1, StoredIds DEF Call, Calls
    <2>3. call.what = "list" /\ call.id = "c" /\ call.phase = "sent" /\ call.outcome = "none"
      BY DEF Call
    <2> HIDE DEF call
    <2> QED BY <2>2, <2>3 DEF Valid, Carries, EditFields
  <1> HIDE DEF call
  <1>3. net \in [Slots -> Calls \cup {NoCall}] /\ "list" \in Slots /\ "list" \notin Keys
    BY Typed, StoredIds DEF Slots
  <1>4. /\ net' \in [Slots -> Calls \cup {NoCall}] /\ net'["list"] = call
        /\ \A s \in Slots : s # "list" => net'[s] = net[s]
    BY <1>1, <1>2, <1>3
  <1>5. Growth /\ RowsSound'
    BY <1>1, SameGrowth
  <1>6. SessionsSound'
    BY <1>1 DEF PInv, SessionsSound, Sessions
  <1>7. SlotKinds' /\ AttemptSound'
    BY <1>1, <1>2, <1>4, PressSlots DEF PInv, CallsValid, SlotKinds, AttemptSound,
       CreateUnderWay
  <1>8. \A s \in Slots : \/ net'[s] = net[s]
                         \/ s \notin Keys /\ Valid(rows', attempt', net'[s])
    BY <1>1, <1>2, <1>3, <1>4
  <1>9. selected' \in Stored \cup {"none"} /\ left' \in Left
    BY <1>1, Typed
  <1> QED BY <1>1, <1>4, <1>5, <1>6, <1>7, <1>8, <1>9, ShowStep

\* What a call is about
Kinds == Fields \cup {"create", "append", "fork", "get", "list"}
Ids == Stored \cup {"local"}

\* A call as it is sent
LEMMA SentCall ==
    ASSUME NEW what \in Kinds, NEW id \in Ids, NEW value \in Values, NEW key \in Nat,
           NEW expected \in Nat, NEW call, call = Call(what, id, value, key, expected)
    PROVE  /\ call \in Calls /\ call # NoCall
           /\ call.what = what /\ call.id = id /\ call.value = value /\ call.key = key
           /\ call.expected = expected /\ call.phase = "sent" /\ call.outcome = "none"
  BY NoCallIs DEF Call, Calls, Kinds, Ids

\* Reading is always valid.
LEMMA GetIs ==
    ASSUME NEW id \in Stored, NEW rs, NEW at
    PROVE  LET call == Call("get", id, "none", 0, 0)
           IN  call \in Calls /\ Valid(rs, at, call) /\ call.what = "get" /\ call.id = id
  <1> DEFINE call == Call("get", id, "none", 0, 0)
  <1>1. "none" \in Values /\ "get" \in Kinds /\ id \in Ids /\ id # "local"
    BY StoredIds DEF Values, Kinds, Ids
  <1>2. /\ call \in Calls /\ call # NoCall /\ call.what = "get" /\ call.id = id
        /\ call.phase = "sent" /\ call.outcome = "none"
    <2>1. call = Call("get", id, "none", 0, 0)
      OBVIOUS
    <2> HIDE DEF call
    <2> QED BY <1>1, <2>1, SentCall
  <1> HIDE DEF call
  <1>3. Valid(rs, at, call)
    BY <1>1, <1>2 DEF Valid, Carries, EditFields
  <1> QED BY <1>2, <1>3 DEF call

LEMMA SelectStep ==
    ASSUME PInv, NEW id \in Stored, Select(id)
    PROVE  PInv'
  <1> DEFINE call == Call("get", id, "none", 0, 0)
             changed == selected # id
             Image(s) == IF s.id = id THEN [s EXCEPT !.transcript = "loading"]
                         ELSE IF changed /\ s.transcript = "loading"
                         THEN [s EXCEPT !.transcript = "idle"] ELSE s
  <1>1. /\ selected' = id /\ left.selects > 0 /\ left' = [left EXCEPT !.selects = @ - 1]
        /\ UNCHANGED <<rows, stray, attempt, queue, retries, pressing, load>>
        /\ net' = [net EXCEPT !["detail"] = NoCall] \/ net' = [net EXCEPT !["detail"] = call]
    BY DEF Select
  <1>2. sessions' = sessions \/ sessions' = [n \in DOMAIN sessions |-> Image(sessions[n])]
    BY DEF Select
  <1>3. \A n \in DOMAIN sessions : /\ Image(sessions[n]) \in Shape(rows, attempt)
                                   /\ Image(sessions[n]).id = sessions[n].id
    <2> TAKE n \in DOMAIN sessions
    <2>1. sessions[n] \in Shape(rows, attempt) /\ sessions[n] \in Session
          /\ (sessions[n].id = "local" => sessions[n].sync # "saved")
      BY SessionIs
    <2> DEFINE t == Image(sessions[n])
    <2>2. t \in Session /\ t.id = sessions[n].id /\ t.messages = sessions[n].messages
          /\ t.sync = sessions[n].sync /\ t.version = sessions[n].version
          /\ (t.transcript = "loaded" => sessions[n].transcript = "loaded")
      BY <2>1 DEF Session
    <2> HIDE DEF t
    <2>3. t \in Shape(rows, attempt)
      BY <2>1, <2>2, ReShaped, Facts DEF Attempts
    <2> QED BY <2>2, <2>3 DEF t
  <1> HIDE DEF Image
  <1>4. \A n \in DOMAIN sessions : /\ sessions'[n] \in Shape(rows', attempt')
                                   /\ sessions'[n].id = sessions[n].id
    BY <1>1, <1>2, <1>3, SessionIs
  <1>5. sessions' = [n \in DOMAIN sessions |-> sessions'[n]]
    BY <1>2, Facts
  <1>6. SessionsSound'
    BY <1>1, <1>4, <1>5, SessionsMapped
  <1>7. call \in Calls /\ Valid(rows, attempt, call) /\ call.what = "get"
    BY GetIs
  <1> HIDE DEF call
  <1>8. net \in [Slots -> Calls \cup {NoCall}] /\ "detail" \in Slots /\ "detail" \notin Keys
    BY Typed, StoredIds DEF Slots
  <1>9. /\ net' \in [Slots -> Calls \cup {NoCall}] /\ net'["detail"] \in {call, NoCall}
        /\ \A s \in Slots : s # "detail" => net'[s] = net[s]
    BY <1>1, <1>7, <1>8
  <1>10. Growth /\ RowsSound'
    BY <1>1, SameGrowth
  <1>11. SlotKinds' /\ AttemptSound'
    BY <1>1, <1>7, <1>9, PressSlots DEF PInv, CallsValid, SlotKinds, AttemptSound,
       CreateUnderWay
  <1>12. \A s \in Slots : \/ net'[s] = net[s]
                          \/ s \notin Keys /\ net'[s] = NoCall
                          \/ s \notin Keys /\ Valid(rows', attempt', net'[s])
    BY <1>1, <1>7, <1>8, <1>9
  <1>13. load' \in {"failed", "loading", "loaded"} /\ left' \in Left
    <2>1. left \in Left /\ load \in {"failed", "loading", "loaded"}
      BY Typed
    <2> QED BY <1>1, <2>1 DEF Left
  <1>14. selected' \in Stored \cup {"none"}
    BY <1>1
  <1> QED BY <1>1, <1>6, <1>9, <1>10, <1>11, <1>12, <1>13, <1>14, ShowStep

\* What an answer says of a conversation
LEMMA AnswerIs ==
    ASSUME PInv, NEW s \in Slots, Arrived(s)
    PROVE  /\ net[s] \in Calls /\ net[s] # NoCall /\ Valid(rows, attempt, net[s])
           /\ \A i \in Stored : net[s].seen[i] \in Nat
           /\ Ok(s) => /\ \A i \in Stored : net[s].seen[i] <= Len(rows[i])
                       /\ net[s].what # "list" => net[s].seen[net[s].id] > 0
                                                  /\ net[s].id \in Stored
                       /\ net[s].what = "fork" => net[s].seen["f"] > 0
                       /\ Effect(rows, net[s])
  BY CallIs DEF Arrived, Calls, Valid, Ok

LEMMA DetailArrivesStep ==
    ASSUME PInv, DetailArrives
    PROVE  PInv'
  <1>1. "detail" \in Slots /\ "detail" \notin Keys /\ net \in [Slots -> Calls \cup {NoCall}]
    BY Typed, StoredIds DEF Slots
  <1> DEFINE id == net["detail"].id
             version == net["detail"].seen[id]
             Image(s) == IF s.id = id
                         THEN IF ~Ok("detail") THEN [s EXCEPT !.transcript = "failed"]
                              ELSE IF s.sync = "saved" /\ version >= s.version
                              THEN Shown(id, version, TRUE) ELSE s
                         ELSE s
  <1>2. /\ Arrived("detail") /\ net' = [net EXCEPT !["detail"] = NoCall]
        /\ sessions' = [n \in DOMAIN sessions |-> Image(sessions[n])]
        /\ UNCHANGED <<rows, stray, attempt, queue, retries, pressing, page, left>>
    BY DEF DetailArrives, Mapped
  <1>3. net["detail"].what = "get" /\ id \in Stored
    BY <1>1, <1>2, AnswerIs DEF PInv, CallsValid, SlotKinds, Valid
  <1>4. Ok("detail") => version \in Nat /\ version > 0 /\ version <= Len(rows[id])
    BY <1>1, <1>2, <1>3, AnswerIs
  <1> HIDE DEF id, version
  <1>5. \A n \in DOMAIN sessions : /\ Image(sessions[n]) \in Shape(rows, attempt)
                                   /\ Image(sessions[n]).id = sessions[n].id
    <2> TAKE n \in DOMAIN sessions
    <2>1. sessions[n] \in Shape(rows, attempt) /\ sessions[n] \in Session
          /\ (sessions[n].id = "local" => sessions[n].sync # "saved")
      BY SessionIs
    <2>2. CASE ~Ok("detail")
      <3> DEFINE t == [sessions[n] EXCEPT !.transcript = "failed"]
      <3>1. t \in Session /\ t.id = sessions[n].id /\ t.messages = sessions[n].messages
            /\ t.sync = sessions[n].sync /\ t.version = sessions[n].version
          /\ (t.transcript = "loaded" => sessions[n].transcript = "loaded")
        BY <2>1 DEF Session
      <3> HIDE DEF t
      <3>2. t \in Shape(rows, attempt)
        BY <2>1, <3>1, ReShaped, Facts DEF Attempts
      <3> QED BY <2>1, <2>2, <3>1, <3>2 DEF t
    <2>3. CASE Ok("detail")
      BY <1>3, <1>4, <2>1, <2>3, ShownLoaded
    <2> QED BY <2>2, <2>3
  <1> HIDE DEF Image
  <1>6. SessionsSound'
    BY <1>2, <1>5, SessionsMapped
  <1>7. /\ net' \in [Slots -> Calls \cup {NoCall}] /\ net'["detail"] = NoCall
        /\ \A s \in Slots : s # "detail" => net'[s] = net[s]
    BY <1>1, <1>2
  <1>8. Growth /\ RowsSound'
    BY <1>2, SameGrowth
  <1>9. SlotKinds' /\ AttemptSound'
    BY <1>2, <1>7 DEF PInv, CallsValid, SlotKinds, AttemptSound, CreateUnderWay, Slots
  <1>10. \A s \in Slots : \/ net'[s] = net[s]
                          \/ s \notin Keys /\ net'[s] = NoCall
    BY <1>1, <1>7
  <1>11. /\ load' \in {"failed", "loading", "loaded"} /\ selected' \in Stored \cup {"none"}
         /\ left' \in Left
    BY <1>2, Typed DEF page
  <1> QED BY <1>2, <1>6, <1>7, <1>8, <1>9, <1>10, <1>11, ShowStep

\* What a list says is merged soundly into what is shown.
LEMMA MergedIs ==
    ASSUME PInv, NEW id \in Stored, NEW version \in Nat, version > 0,
           version <= Len(rows[id]), Sessions(id) # {} => First(id).sync = "saved"
    PROVE  Merged(id, version) \in Shape(rows, attempt) /\ Merged(id, version).id = id
  <1> DEFINE summary == Shown(id, version, FALSE)
  <1>1. /\ summary \in Shape(rows, attempt) /\ summary \in Session /\ summary.id = id
        /\ summary.sync = "saved" /\ id # "local" /\ summary.version = version
    <2>1. /\ Shown(id, version, FALSE) \in Shape(rows, attempt)
          /\ Shown(id, version, FALSE) \in Session
          /\ Shown(id, version, FALSE).id = id /\ Shown(id, version, FALSE).sync = "saved"
          /\ Shown(id, version, FALSE).version = version
      BY ShownSummary
    <2>2. id # "local"
      BY StoredIds
    <2> HIDE DEF summary
    <2> QED BY <2>1, <2>2 DEF summary
  <1> HIDE DEF summary
  <1>2. CASE Sessions(id) = {}
    BY <1>1, <1>2 DEF Merged, summary
  <1>3. CASE Sessions(id) # {}
    <2>1. First(id) \in Shape(rows, attempt) /\ First(id) \in Session /\ First(id).id = id
      BY <1>3, FirstIs
    <2> DEFINE t == [summary EXCEPT !.messages = First(id).messages, !.transcript = "loaded"]
    <2>2. /\ t \in Session /\ t.id = id /\ t.messages = First(id).messages
          /\ t.version = version
      BY <1>1, <2>1 DEF Session
    <2>3. \/ Merged(id, version) \in {First(id), summary}
          \/ /\ Merged(id, version) = t
             /\ First(id).version = version /\ First(id).transcript = "loaded"
      BY <1>3 DEF Merged, summary
    <2> HIDE DEF t
    <2>4. First(id).version = version /\ First(id).transcript = "loaded" =>
             t \in Shape(rows, attempt)
      BY <1>1, <1>3, <2>1, <2>2 DEF Shape, HeldIn
    <2> QED BY <1>1, <2>1, <2>2, <2>3, <2>4
  <1> QED BY <1>2, <1>3

LEMMA ListArrivesStep ==
    ASSUME PInv, ListArrives
    PROVE  PInv'
  <1>1. "list" \in Slots /\ "list" \notin Keys /\ net \in [Slots -> Calls \cup {NoCall}]
    BY Typed, StoredIds DEF Slots
  <1> DEFINE seen == net["list"].seen
             P == {n \in DOMAIN sessions : HasPendingPersistence(sessions[n])}
             pending == Those(sessions, P)
             both == <<"f", "c">>
             L == {n \in DOMAIN both :
                      /\ seen[both[n]] > 0 /\ rows[both[n]][seen[both[n]]].archived = "no"
                      /\ \A m \in DOMAIN pending : pending[m].id # both[n]}
             listed == Those(both, L)
             merged == [n \in DOMAIN listed |-> Merged(listed[n], seen[listed[n]])]
  <1>2. /\ Arrived("list") /\ net' = [net EXCEPT !["list"] = NoCall]
        /\ IF Ok("list") THEN sessions' = Deduped(pending \o merged) /\ load' = "loaded"
           ELSE load' = "failed" /\ UNCHANGED sessions
        /\ UNCHANGED <<rows, stray, attempt, queue, retries, pressing, selected, left>>
    BY DEF ListArrives, Filtered
  <1>3. P \in SUBSET (DOMAIN sessions) /\ L \in SUBSET (DOMAIN both)
        /\ sessions \in Seq(Shape(rows, attempt)) /\ both \in Seq({"f", "c"})
    BY Facts
  <1>4. \A n \in DOMAIN sessions : sessions[n].sync # "saved" => n \in P
    BY DEF HasPendingPersistence
  <1>5. \A i \in Stored : seen[i] \in Nat
    BY <1>1, <1>2, AnswerIs
  <1>6. Ok("list") => \A i \in Stored : seen[i] <= Len(rows[i])
    BY <1>1, <1>2, AnswerIs
  <1>7. \A n \in L : /\ both[n] \in Stored /\ seen[both[n]] > 0
                    /\ \A m \in DOMAIN pending : pending[m].id # both[n]
    BY <1>3, StoredIds
  <1> HIDE DEF P, L, seen, both
  <1>8. /\ pending \in Seq(Shape(rows, attempt))
        /\ \A p \in P : \E n \in DOMAIN pending : pending[n] = sessions[p]
    BY <1>3, ThoseAre
  <1>9. /\ listed \in Seq({"f", "c"})
        /\ \A n \in DOMAIN listed : \E p \in L : listed[n] = both[p]
    BY <1>3, ThoseAre
  <1> HIDE DEF pending, listed
  <1>10. \A n \in DOMAIN listed : /\ listed[n] \in Stored /\ seen[listed[n]] > 0
                                 /\ \A m \in DOMAIN pending : pending[m].id # listed[n]
    BY <1>7, <1>9
  <1>11. Ok("list") => merged \in Seq(Shape(rows, attempt))
    <2> SUFFICES ASSUME Ok("list") PROVE merged \in Seq(Shape(rows, attempt))
      OBVIOUS
    <2>1. \A n \in DOMAIN listed : Merged(listed[n], seen[listed[n]]) \in Shape(rows, attempt)
      <3> TAKE n \in DOMAIN listed
      <3> DEFINE id == listed[n]
                 version == seen[id]
      <3>1. /\ id \in Stored /\ version \in Nat /\ version > 0 /\ version <= Len(rows[id])
        BY <1>5, <1>6, <1>10
      <3>3. Sessions(id) # {} => First(id).sync = "saved"
        <4>1. Sessions(id) # {} => \E m \in DOMAIN sessions : First(id) = sessions[m]
                                                            /\ First(id).id = id
          BY FirstIs
        <4> QED BY <1>4, <1>8, <1>10, <4>1
      <3> HIDE DEF id, version
      <3>2. Merged(id, version) \in Shape(rows, attempt)
        BY <3>1, <3>3, MergedIs
      <3> QED BY <3>2 DEF id, version
    <2>2. \A n \in DOMAIN listed : merged[n] \in Shape(rows, attempt)
      BY <2>1
    <2>3. merged = [n \in DOMAIN listed |-> merged[n]]
      OBVIOUS
    <2> HIDE DEF merged
    <2> QED BY <1>9, <2>2, <2>3, MapIs
  <1> HIDE DEF merged
  <1>12. SessionsSound'
    <2>1. CASE ~Ok("list")
      BY <1>2, <2>1 DEF PInv, SessionsSound, Sessions
    <2>2. CASE Ok("list")
      <3> DEFINE all == pending \o merged
      <3>1. all \in Seq(Shape(rows, attempt))
        BY <1>8, <1>11, <2>2
      <3> HIDE DEF all
      <3>2. Deduped(all) \in Seq(Shape(rows, attempt))
        BY <3>1, DedupedIs
      <3>3. sessions' = Deduped(all)
        BY <1>2, <2>2 DEF all
      <3> QED BY <1>2, <3>2, <3>3 DEF SessionsSound
    <2> QED BY <2>1, <2>2
  <1>13. /\ net' \in [Slots -> Calls \cup {NoCall}] /\ net'["list"] = NoCall
         /\ \A s \in Slots : s # "list" => net'[s] = net[s]
    BY <1>1, <1>2
  <1>14. Growth /\ RowsSound'
    BY <1>2, SameGrowth
  <1>15. SlotKinds' /\ AttemptSound'
    BY <1>2, <1>13 DEF PInv, CallsValid, SlotKinds, AttemptSound, CreateUnderWay, Slots
  <1>16. \A s \in Slots : \/ net'[s] = net[s]
                          \/ s \notin Keys /\ net'[s] = NoCall
    BY <1>1, <1>13
  <1>17. /\ load' \in {"failed", "loading", "loaded"} /\ selected' \in Stored \cup {"none"}
         /\ left' \in Left
    BY <1>2, Typed
  <1> QED BY <1>2, <1>12, <1>13, <1>14, <1>15, <1>16, <1>17, ShowStep

-----------------------------------------------------------------------------
(* Steps that reach the queues.                                            *)

\* A step of the tab, from its parts
LEMMA TabStep ==
    ASSUME PInv, UNCHANGED <<rows, stray>>, Growth, RowsSound', SessionsSound',
           AttemptSound', OneRetryPerKey', HeadCalls', SlotKinds',
           queue' \in [Keys -> Seq(Ops)], net' \in [Slots -> Calls \cup {NoCall}],
           retries' \in SUBSET Retry,
           pressing' \in [Presses -> Retry \cup {NoRetry}],
           \A p \in Presses : \/ pressing'[p] = pressing[p] \/ pressing'[p] = NoRetry
                              \/ RetryValid(attempt', pressing'[p]),
           \A s \in Slots : \/ net'[s] = net[s] \/ net'[s] = NoCall
                            \/ Valid(rows', attempt', net'[s]),
           \A k \in Keys : \A n \in DOMAIN queue'[k] :
                  \/ \E m \in DOMAIN queue[k] : queue'[k][n] = queue[k][m]
                  \/ OpValid(rows', attempt', k, queue'[k][n]),
           \A r \in retries' : r \in retries \/ RetryValid(attempt', r),
           load' \in {"failed", "loading", "loaded"},
           selected' \in Stored \cup {"none"}, left' \in Left
    PROVE  PInv'
  <1>1. TypeInv'
    BY SeqWiden, Typed DEF SessionsSound, Shape, TypeInv, Growth, AllRows, Attempts
  <1>2. CallsValid'
    BY Kept DEF CallsValid
  <1>3. QueuesValid' /\ RetriesValid'
    BY Kept DEF RetriesValid
  <1> QED BY <1>1, <1>2, <1>3 DEF PInv

\* An operation more in a queue
LEMMA EnqueueKeeps ==
    ASSUME PInv, NEW k \in Keys, NEW op \in Ops, queue' = Enqueued(k, op),
           OpValid(rows', attempt', k, op)
    PROVE  /\ queue' \in [Keys -> Seq(Ops)]
           /\ \A j \in Keys : \A n \in DOMAIN queue'[j] :
                  \/ \E m \in DOMAIN queue[j] : queue'[j][n] = queue[j][m]
                  \/ OpValid(rows', attempt', j, queue'[j][n])
           /\ (\A j \in Keys : net'[j] = net[j]) => HeadCalls'
  <1>1. /\ queue' \in [Keys -> Seq(Ops)]
        /\ \A j \in Keys : \A n \in DOMAIN queue'[j] :
               \/ n \in DOMAIN queue[j] /\ queue'[j][n] = queue[j][n]
               \/ j = k /\ queue'[j][n] = op
        /\ \A j \in Keys : queue[j] # <<>> => queue'[j] # <<>> /\ Head(queue'[j]) = Head(queue[j])
    <2> DEFINE q == queue'
    <2>1. q = Enqueued(k, op)
      OBVIOUS
    <2> HIDE DEF q
    <2>2. /\ q \in [Keys -> Seq(Ops)]
          /\ \A j \in Keys : \A n \in DOMAIN q[j] :
                 \/ n \in DOMAIN queue[j] /\ q[j][n] = queue[j][n]
                 \/ j = k /\ n = Len(queue[k]) + 1 /\ q[j][n] = op
          /\ \A j \in Keys : \A n \in DOMAIN queue[j] : n \in DOMAIN q[j] /\ q[j][n] = queue[j][n]
      BY <2>1, EnqueuedIs
    <2>3. \A j \in Keys : queue[j] # <<>> => q[j] # <<>> /\ Head(q[j]) = Head(queue[j])
      <3> SUFFICES ASSUME NEW j \in Keys, queue[j] # <<>>
                   PROVE  q[j] # <<>> /\ Head(q[j]) = Head(queue[j])
        OBVIOUS
      <3>1. 1 \in DOMAIN queue[j] /\ queue[j] \in Seq(Ops)
        BY Typed
      <3>2. 1 \in DOMAIN q[j] /\ q[j][1] = queue[j][1] /\ q[j] \in Seq(Ops)
        BY <2>2, <3>1
      <3> QED BY <3>1, <3>2
    <2> QED BY <2>2, <2>3 DEF q
  <1>2. \A j \in Keys : \A n \in DOMAIN queue'[j] :
               \/ \E m \in DOMAIN queue[j] : queue'[j][n] = queue[j][m]
               \/ OpValid(rows', attempt', j, queue'[j][n])
    BY <1>1
  <1>3. (\A j \in Keys : net'[j] = net[j]) => HeadCalls'
    BY <1>1 DEF PInv, HeadCalls
  <1> QED BY <1>1, <1>2, <1>3

\* The first operation leaves its queue, and its call with it
LEMMA PopKeeps ==
    ASSUME PInv, NEW k \in Keys, queue[k] # <<>>, queue' = Popped(k)
    PROVE  /\ queue' \in [Keys -> Seq(Ops)]
           /\ \A j \in Keys : \A n \in DOMAIN queue'[j] :
                  \E m \in DOMAIN queue[j] : queue'[j][n] = queue[j][m]
           /\ net'[k] = NoCall /\ (\A j \in Keys : j # k => net'[j] = net[j]) => HeadCalls'
  <1>1. /\ queue' \in [Keys -> Seq(Ops)]
        /\ \A j \in Keys : j # k => queue'[j] = queue[j]
        /\ \A n \in DOMAIN queue'[k] : n + 1 \in DOMAIN queue[k] /\ queue'[k][n] = queue[k][n + 1]
    BY PoppedIs
  <1>2. \A j \in Keys : \A n \in DOMAIN queue'[j] :
                  \E m \in DOMAIN queue[j] : queue'[j][n] = queue[j][m]
    BY <1>1
  <1>3. net'[k] = NoCall /\ (\A j \in Keys : j # k => net'[j] = net[j]) => HeadCalls'
    BY <1>1 DEF PInv, HeadCalls
  <1> QED BY <1>1, <1>2, <1>3

\* Queues left alone
LEMMA QueueSame ==
    ASSUME PInv, UNCHANGED queue, \A j \in Keys : net'[j] = net[j]
    PROVE  /\ queue' \in [Keys -> Seq(Ops)] /\ HeadCalls'
           /\ \A j \in Keys : \A n \in DOMAIN queue'[j] :
                  \E m \in DOMAIN queue[j] : queue'[j][n] = queue[j][m]
  BY Typed DEF PInv, HeadCalls

\* Where the retries are the same
LEMMA RetriesSame ==
    ASSUME PInv, Growth, UNCHANGED <<retries, pressing>>
    PROVE  /\ OneRetryPerKey' /\ retries' \in SUBSET Retry
           /\ pressing' \in [Presses -> Retry \cup {NoRetry}]
           /\ \A p \in Presses : pressing'[p] = pressing[p]
           /\ \A r \in retries' : r \in retries
  BY Kept, Typed DEF PInv, OneRetryPerKey

\* The page left alone
LEMMA PageSame ==
    ASSUME PInv, UNCHANGED <<page, left>>
    PROVE  /\ load' \in {"failed", "loading", "loaded"}
           /\ selected' \in Stored \cup {"none"} /\ left' \in Left
  BY Typed DEF page

\* The operations that store the outcome of the command
LEMMA AppendOpIs ==
    ASSUME PInv
    PROVE  /\ AppendOp \in Ops /\ AppendOp.what = "append" /\ AppendOp.id = "c"
           /\ AppendOp.value = "none" /\ AppendOp.key > 0
  <1>1. attempt.appends \in Nat
    BY Facts DEF Attempts
  <1>2. attempt.appends + 1 \in Nat /\ attempt.appends + 1 > 0
    BY <1>1
  <1> QED BY <1>2, StoredIds DEF Values, AppendOp, Op, Ops

LEMMA StatusOpIs ==
    /\ StatusOp \in Ops /\ StatusOp.what = "status" /\ StatusOp.id = "c"
    /\ StatusOp.value = "failed" /\ StatusOp.key = 0
  BY StoredIds DEF Values, StatusOp, Op, Ops

\* The creation is as far as it was.
LEMMA CreatesSame ==
    ASSUME PInv,
           \A s \in Slots : net[s] # NoCall /\ net[s].what = "create" => net'[s] = net[s],
           \A q \in retries : q.what = "create" => q \in retries'
    PROVE  CreateUnderWay => CreateUnderWay'
  BY DEF CreateUnderWay

LEMMA AnswerStep ==
    ASSUME PInv, Answer
    PROVE  PInv'
  <1> DEFINE Image(s) == [[s EXCEPT !.messages = Append(@, PendingAnswer), !.status = "idle"]
                             EXCEPT !.sync = IF attempt.canonical > 0 \/ Creating
                                             THEN "saving" ELSE "unsaved"]
             op == AppendOp
  <1>1. /\ attempt.begun /\ attempt.target = "running"
        /\ attempt' = [attempt EXCEPT !.answered = TRUE, !.target = "idle",
                   !.appends = IF attempt.canonical > 0 THEN @ + 1 ELSE @]
        /\ sessions' = [n \in DOMAIN sessions |->
               IF IsAttempt(sessions[n]) THEN Image(sessions[n]) ELSE sessions[n]]
        /\ queue' = IF attempt.canonical > 0 THEN Enqueued("local", op) ELSE queue
        /\ UNCHANGED <<rows, net, stray, retries, pressing, page, left>>
    BY DEF Answer, Outcome, Mapped
  <1>a. attempt.begun /\ attempt.target = "running"
    BY <1>1
  <1>2. ~attempt.answered /\ attempt.appends \in Nat /\ attempt.canonical \in Nat
        /\ attempt.canonical <= Len(rows["c"])
    BY <1>1, Facts DEF PInv, AttemptSound, Attempts, RowsSound, RowsValid
  <1>3. /\ attempt' \in Attempts /\ attempt'.begun = attempt.begun
        /\ attempt'.canonical = attempt.canonical /\ attempt'.answered = TRUE
        /\ attempt'.target = "idle"
    <2>1. attempt.appends + 1 \in Nat
      BY <1>2
    <2> QED BY <1>2, <2>1, Facts DEF Answer, Attempts
  <1>4. AttemptGrows(attempt, attempt') /\ attempt'.canonical <= Len(rows["c"])
    BY <1>a, <1>2, <1>3 DEF AttemptGrows
  <1>5. Growth /\ RowsSound'
    BY <1>1, <1>3, <1>4, TabGrowth
  <1>6. \A n \in DOMAIN sessions : /\ sessions'[n] \in Shape(rows', attempt')
                                   /\ sessions'[n].id = sessions[n].id
    <2> TAKE n \in DOMAIN sessions
    <2>1. sessions[n] \in Shape(rows, attempt') /\ sessions[n] \in Session
          /\ (sessions[n].id = "local" => sessions[n].sync # "saved")
      BY <1>3, SessionIs, ShapeOfAttempt
    <2>2. CASE IsAttempt(sessions[n])
      <3> DEFINE t == Image(sessions[n])
      <3>1. PendingAnswer \in Int /\ sessions[n].messages \in Seq(Int)
        BY <2>1 DEF Session, PendingAnswer
      <3>2. Append(sessions[n].messages, PendingAnswer) \in Seq(Int)
        BY <3>1
      <3>3. t \in Session /\ t.id = sessions[n].id /\ t.sync # "saved"
            /\ t.version = sessions[n].version
        BY <2>1, <3>2 DEF Session
      <3> HIDE DEF t
      <3>4. sessions[n].id = "c" => attempt'.canonical > 0
        BY <1>3, <2>2 DEF IsAttempt, IsKnown
      <3>5. t \in Shape(rows, attempt')
        BY <1>2, <1>3, <2>1, <3>3, <3>4, ReShaped
      <3> QED BY <1>1, <2>2, <3>3, <3>5 DEF t
    <2>3. CASE ~IsAttempt(sessions[n])
      BY <1>1, <2>1, <2>3
    <2> QED BY <2>2, <2>3
  <1> HIDE DEF Image
  <1>7. SessionsSound'
    BY <1>1, <1>3, <1>6, SessionsMapped
  <1>8. SlotKinds' /\ AttemptSound'
    BY <1>1, <1>2, <1>3 DEF PInv, CallsValid, SlotKinds, AttemptSound, CreateUnderWay
  <1>9. op \in Ops /\ op.what = "append" /\ op.id = "c" /\ op.key > 0
    BY AppendOpIs
  <1> HIDE DEF op
  <1>10. /\ queue' \in [Keys -> Seq(Ops)] /\ HeadCalls'
         /\ \A j \in Keys : \A n \in DOMAIN queue'[j] :
                  \/ \E m \in DOMAIN queue[j] : queue'[j][n] = queue[j][m]
                  \/ OpValid(rows', attempt', j, queue'[j][n])
    <2>1. CASE attempt.canonical > 0
      <3>1. OpValid(rows', attempt', "local", op)
        BY <1>3, <1>9, <2>1 DEF OpValid, Carries, EditFields
      <3> QED BY <1>1, <1>9, <2>1, <3>1, EnqueueKeeps, StoredIds
    <2>2. CASE ~(attempt.canonical > 0)
      BY <1>1, <2>2, QueueSame
    <2> QED BY <2>1, <2>2
  <1> QED BY <1>1, <1>5, <1>7, <1>8, <1>10, RetriesSame, PageSame, Typed, TabStep

LEMMA FailStep ==
    ASSUME PInv, Fail
    PROVE  PInv'
  <1> DEFINE Image(s) == [[s EXCEPT !.status = "failed"]
                             EXCEPT !.sync = IF attempt.canonical > 0 \/ Creating
                                             THEN "saving" ELSE "unsaved"]
             op == StatusOp
  <1>1. /\ attempt.begun /\ attempt.target = "running"
        /\ attempt' = [attempt EXCEPT !.target = "failed"]
        /\ sessions' = [n \in DOMAIN sessions |->
               IF IsAttempt(sessions[n]) THEN Image(sessions[n]) ELSE sessions[n]]
        /\ queue' = IF attempt.canonical > 0 THEN Enqueued("local", op) ELSE queue
        /\ UNCHANGED <<rows, net, stray, retries, pressing, page, left>>
    BY DEF Fail, Outcome, Mapped
  <1>a. attempt.begun /\ attempt.target = "running"
    BY <1>1
  <1>2. ~attempt.answered /\ attempt.appends \in Nat /\ attempt.canonical \in Nat
        /\ attempt.canonical <= Len(rows["c"])
    BY <1>1, Facts DEF PInv, AttemptSound, Attempts, RowsSound, RowsValid
  <1>3. /\ attempt' \in Attempts /\ attempt'.begun = attempt.begun
        /\ attempt'.canonical = attempt.canonical /\ ~attempt'.answered
        /\ attempt'.target = "failed"
    BY <1>1, <1>2, Facts DEF Attempts
  <1>4. AttemptGrows(attempt, attempt') /\ attempt'.canonical <= Len(rows["c"])
    BY <1>a, <1>2, <1>3 DEF AttemptGrows
  <1>5. Growth /\ RowsSound'
    BY <1>1, <1>3, <1>4, TabGrowth
  <1>6. \A n \in DOMAIN sessions : /\ sessions'[n] \in Shape(rows', attempt')
                                   /\ sessions'[n].id = sessions[n].id
    <2> TAKE n \in DOMAIN sessions
    <2>1. sessions[n] \in Shape(rows, attempt') /\ sessions[n] \in Session
          /\ (sessions[n].id = "local" => sessions[n].sync # "saved")
      BY <1>3, SessionIs, ShapeOfAttempt
    <2>2. CASE IsAttempt(sessions[n])
      <3> DEFINE t == Image(sessions[n])
      <3>1. t \in Session /\ t.id = sessions[n].id /\ t.sync # "saved"
            /\ t.messages = sessions[n].messages /\ t.version = sessions[n].version
        BY <2>1 DEF Session
      <3> HIDE DEF t
      <3>2. t \in Shape(rows, attempt')
        BY <1>2, <1>3, <2>1, <3>1, ReShaped
      <3> QED BY <1>1, <2>2, <3>1, <3>2 DEF t
    <2>3. CASE ~IsAttempt(sessions[n])
      BY <1>1, <2>1, <2>3
    <2> QED BY <2>2, <2>3
  <1> HIDE DEF Image
  <1>7. SessionsSound'
    BY <1>1, <1>3, <1>6, SessionsMapped
  <1>8. SlotKinds' /\ AttemptSound'
    BY <1>1, <1>2, <1>3 DEF PInv, CallsValid, SlotKinds, AttemptSound, CreateUnderWay
  <1>9. op \in Ops /\ op.what = "status" /\ op.id = "c" /\ op.value = "failed"
    BY StatusOpIs
  <1> HIDE DEF op
  <1>10. /\ queue' \in [Keys -> Seq(Ops)] /\ HeadCalls'
         /\ \A j \in Keys : \A n \in DOMAIN queue'[j] :
                  \/ \E m \in DOMAIN queue[j] : queue'[j][n] = queue[j][m]
                  \/ OpValid(rows', attempt', j, queue'[j][n])
    <2>1. CASE attempt.canonical > 0
      <3>1. OpValid(rows', attempt', "local", op)
        BY <1>3, <1>9, <2>1 DEF OpValid, Carries, EditFields
      <3> QED BY <1>1, <1>9, <2>1, <3>1, EnqueueKeeps, StoredIds
    <2>2. CASE ~(attempt.canonical > 0)
      BY <1>1, <2>2, QueueSame
    <2> QED BY <2>1, <2>2
  <1> QED BY <1>1, <1>5, <1>7, <1>8, <1>10, RetriesSame, PageSame, Typed, TabStep

\* Retries are registered and taken back by key.
LEMMA WithIs ==
    ASSUME PInv, NEW r \in Retry, retries' = With(r)
    PROVE  /\ OneRetryPerKey' /\ retries' \in SUBSET Retry /\ r \in retries'
           /\ \A q \in retries' : q \in retries \/ q = r
           /\ \A q \in retries : q \in retries' \/ Same(q, r)
  BY Typed DEF With, Same, PInv, OneRetryPerKey

\* A retry taken back leaves the others.
LEMMA WithoutIs ==
    ASSUME PInv, NEW what, NEW id, retries' = Without(what, id)
    PROVE  /\ OneRetryPerKey' /\ retries' \in SUBSET Retry
           /\ \A q \in retries' : q \in retries /\ ~(q.what = what /\ q.id = id)
           /\ \A q \in retries : q \in retries' \/ (q.what = what /\ q.id = id)
  BY Typed DEF Without, PInv, OneRetryPerKey

\* The slots a creation is answered in
Creators == {"create"} \cup Presses

\* The creation is answered, the first time or again.
LEMMA CreateArrivesIs ==
    ASSUME PInv, NEW c \in Creators, CreateArrives(c)
    PROVE  /\ c \in Slots /\ c \notin Keys
           /\ net[c].what = "create" /\ net[c].id = "c"
           /\ net[c] # NoCall /\ attempt.begun
           /\ net' \in [Slots -> Calls \cup {NoCall}] /\ net'[c] = NoCall
           /\ \A s \in Slots : s # c => net'[s] = net[s]
           /\ pressing' \in [Presses -> Retry \cup {NoRetry}]
           /\ \A p \in Presses : \/ pressing'[p] = NoRetry /\ p = c
                                 \/ pressing'[p] = pressing[p] /\ p # c
           /\ SlotKinds'
  <1>1. c \in Slots /\ c \notin Keys /\ net \in [Slots -> Calls \cup {NoCall}]
    BY Typed, PressSlots, StoredIds DEF Creators
  <1>2. net[c] # NoCall /\ Valid(rows, attempt, net[c]) /\ net[c].what = "create"
    BY <1>1, AnswerIs DEF CreateArrives
  <1>3. net[c].id = "c" /\ attempt.begun
    BY <1>2 DEF Valid, Carries
  <1>4. net' = [net EXCEPT ![c] = NoCall]
        /\ pressing' = [p \in Presses |-> IF p = c THEN NoRetry ELSE pressing[p]]
    BY DEF CreateArrives
  <1>5. /\ net' \in [Slots -> Calls \cup {NoCall}] /\ net'[c] = NoCall
        /\ \A s \in Slots : s # c => net'[s] = net[s]
    BY <1>1, <1>4
  <1>6. /\ pressing' \in [Presses -> Retry \cup {NoRetry}]
        /\ \A p \in Presses : \/ pressing'[p] = NoRetry /\ p = c
                              \/ pressing'[p] = pressing[p] /\ p # c
    BY <1>4, Typed
  <1>7. SlotKinds'
    BY <1>1, <1>5, <1>6, PressSlots DEF PInv, CallsValid, SlotKinds
  <1> QED BY <1>1, <1>2, <1>3, <1>5, <1>6, <1>7

LEMMA CreateFailsStep ==
    ASSUME PInv, NEW c \in Creators, CreateArrives(c), ~Ok(c)
    PROVE  PInv'
  <1> DEFINE r == [what |-> "create", id |-> "local", value |-> "none", key |-> 0,
                   queue |-> "local", refresh |-> FALSE]
             Image(s) == IF s.id = "local" THEN [s EXCEPT !.sync = "unsaved"] ELSE s
  <1>1. /\ Quiet
        /\ sessions' = [n \in DOMAIN sessions |-> Image(sessions[n])]
        /\ retries' = With(r)
        /\ UNCHANGED <<attempt, queue, rows, stray, page, left>>
    BY DEF CreateArrives, CreateFails, Mapped
  <1>2. /\ c \in Slots /\ c \notin Keys /\ attempt.begun
        /\ net' \in [Slots -> Calls \cup {NoCall}] /\ net'[c] = NoCall
        /\ \A s \in Slots : s # c => net'[s] = net[s]
        /\ pressing' \in [Presses -> Retry \cup {NoRetry}]
        /\ \A p \in Presses : pressing'[p] = pressing[p] \/ pressing'[p] = NoRetry
        /\ SlotKinds'
    BY CreateArrivesIs
  <1>3. Growth /\ RowsSound'
    BY <1>1, SameGrowth
  <1>4. \A n \in DOMAIN sessions : /\ Image(sessions[n]) \in Shape(rows, attempt)
                                   /\ Image(sessions[n]).id = sessions[n].id
    <2> TAKE n \in DOMAIN sessions
    <2>1. sessions[n] \in Shape(rows, attempt) /\ sessions[n] \in Session
      BY SessionIs
    <2> DEFINE t == [sessions[n] EXCEPT !.sync = "unsaved"]
    <2>2. t \in Session /\ t.id = sessions[n].id /\ t.messages = sessions[n].messages
          /\ t.sync # "saved" /\ t.version = sessions[n].version
      BY <2>1 DEF Session
    <2> HIDE DEF t
    <2>3. t \in Shape(rows, attempt)
      BY <2>1, <2>2, ReShaped, Facts DEF Attempts
    <2> QED BY <2>1, <2>2, <2>3 DEF t
  <1> HIDE DEF Image
  <1>5. SessionsSound'
    BY <1>1, <1>4, SessionsMapped
  <1>6. r \in Retry /\ RetryValid(attempt', r) /\ r.what = "create"
    <2>1. r \in Retry
      BY StoredIds DEF Retry
    <2>2. r.what = "create" /\ r.id = "local" /\ ~r.refresh /\ r.queue = "local"
      OBVIOUS
    <2>3. attempt'.begun
      BY <1>1, <1>2
    <2> HIDE DEF r
    <2> QED BY <2>1, <2>2, <2>3 DEF RetryValid
  <1> HIDE DEF r
  <1>7. /\ OneRetryPerKey' /\ retries' \in SUBSET Retry /\ r \in retries'
        /\ \A q \in retries' : q \in retries \/ q = r
    BY <1>1, <1>6, WithIs
  <1>8. AttemptSound'
    BY <1>1, <1>2, <1>6, <1>7 DEF CreateUnderWay, PInv, AttemptSound
  <1>11. \A s \in Slots : \/ net'[s] = net[s] \/ net'[s] = NoCall
    BY <1>2
  <1>12. \A j \in Keys : net'[j] = net[j]
    BY <1>2 DEF Slots
  <1>13. /\ queue' \in [Keys -> Seq(Ops)] /\ HeadCalls'
         /\ \A j \in Keys : \A n \in DOMAIN queue'[j] :
                  \E m \in DOMAIN queue[j] : queue'[j][n] = queue[j][m]
    BY <1>1, <1>12, QueueSame
  <1>14. \A q \in retries' : q \in retries \/ RetryValid(attempt', q)
    BY <1>6, <1>7
  <1> QED BY <1>1, <1>2, <1>3, <1>5, <1>7, <1>8, <1>11, <1>13, <1>14, PageSame, TabStep

\* The operations that waited for the row are queued.
LEMMA ExtendedQueue ==
    ASSUME PInv, NEW k \in Keys, NEW op \in Ops
    PROVE  /\ [queue EXCEPT ![k] = @ \o <<>>] = queue
           /\ [queue EXCEPT ![k] = @ \o <<op>>] = Enqueued(k, op)
  <1>1. queue \in [Keys -> Seq(Ops)]
    BY Typed
  <1>2. queue[k] \o <<>> = queue[k]
    BY <1>1
  <1>3. queue[k] \o <<op>> = Append(queue[k], op)
    BY <1>1
  <1>4. [queue EXCEPT ![k] = queue[k] \o <<>>] = queue
    BY <1>1, <1>2
  <1> QED BY <1>3, <1>4 DEF Enqueued

LEMMA CreateSucceedsStep ==
    ASSUME PInv, NEW c \in Creators, CreateArrives(c), Ok(c)
    PROVE  PInv'
  <1> DEFINE version == net[c].seen["c"]
             follow == FollowUp
             shown == Shown("c", version, TRUE)
             Image(s) == IF s.id \in {"local", "c"}
                         THEN [shown EXCEPT
                                 !.messages = IF Len(s.messages) > Len(shown.messages)
                                              THEN s.messages ELSE @,
                                 !.status = s.status,
                                 !.sync = IF Len(s.messages) > Len(shown.messages)
                                             \/ follow # <<>> THEN "saving" ELSE @]
                         ELSE s
             mapped == [n \in DOMAIN sessions |-> Image(sessions[n])]
  <1>1. /\ Quiet /\ sessions' = Deduped(mapped)
        /\ attempt' = [attempt EXCEPT !.canonical = KnownAs(version),
                       !.appends = IF attempt.answered
                                   THEN attempt.appends + 1 ELSE attempt.appends]
        /\ queue' = [queue EXCEPT !["local"] = @ \o follow]
        /\ retries' = Without("create", "local")
        /\ UNCHANGED <<rows, stray, page, left>>
    BY DEF CreateArrives, CreateSucceeds, Mapped
  <1>a. attempt' = [attempt EXCEPT !.canonical = KnownAs(version),
                       !.appends = IF attempt.answered
                                   THEN attempt.appends + 1 ELSE attempt.appends]
    BY <1>1
  <1>2. /\ c \in Slots /\ c \notin Keys /\ net[c].what = "create" /\ net[c].id = "c"
        /\ attempt.begun /\ attempt.appends \in Nat /\ attempt.canonical \in Nat
        /\ attempt.canonical <= Len(rows["c"])
        /\ net' \in [Slots -> Calls \cup {NoCall}] /\ net'[c] = NoCall
        /\ \A s \in Slots : s # c => net'[s] = net[s]
        /\ pressing' \in [Presses -> Retry \cup {NoRetry}]
        /\ \A p \in Presses : pressing'[p] = pressing[p] \/ pressing'[p] = NoRetry
        /\ SlotKinds'
    BY CreateArrivesIs, Facts DEF Attempts, PInv, RowsSound, RowsValid
  <1>3. version \in Nat /\ version > 0 /\ version <= Len(rows["c"]) /\ "c" \in Stored
    BY <1>2, AnswerIs, StoredIds DEF CreateArrives
  <1>4. /\ shown \in Session /\ shown.id = "c" /\ shown.messages \in Seq(Int)
        /\ shown.version = version /\ shown.messages = rows["c"][version].messages
        /\ version \in 1 .. Len(rows["c"])
    <2>1. /\ Shown("c", version, TRUE) \in Session /\ Shown("c", version, TRUE).id = "c"
          /\ Shown("c", version, TRUE).version = version
          /\ Shown("c", version, TRUE).messages = rows["c"][version].messages
      BY <1>3, ShownLoaded
    <2>2. Len(rows["c"]) \in Nat
      BY Facts, StoredIds DEF AllRows
    <2>3. shown = Shown("c", version, TRUE)
      OBVIOUS
    <2> HIDE DEF shown, version
    <2>4. /\ shown \in Session /\ shown.id = "c"
          /\ shown.version = version /\ shown.messages = rows["c"][version].messages
      BY <2>1, <2>3
    <2>5. shown.messages \in Seq(Int)
      BY <2>4 DEF Session
    <2>6. version \in 1 .. Len(rows["c"])
      BY <1>3, <2>2
    <2> QED BY <2>4, <2>5, <2>6
  <1> HIDE DEF version, shown
  <1>5. /\ attempt' \in Attempts /\ attempt'.begun /\ attempt'.canonical > 0
        /\ attempt.canonical <= attempt'.canonical /\ attempt'.canonical <= Len(rows["c"])
        /\ attempt'.answered = attempt.answered /\ attempt'.target = attempt.target
    <2>1. /\ KnownAs(version) \in Nat /\ KnownAs(version) > 0
          /\ attempt.canonical <= KnownAs(version) /\ KnownAs(version) <= Len(rows["c"])
      BY <1>2, <1>3 DEF KnownAs, NewerOf
    <2>2. attempt.appends + 1 \in Nat
      BY <1>2
    <2> HIDE DEF KnownAs
    <2> QED BY <1>2, <1>a, <2>1, <2>2, Facts DEF Attempts
  <1>6. AttemptGrows(attempt, attempt')
    BY <1>2, <1>5 DEF AttemptGrows
  <1>7. Growth /\ RowsSound'
    BY <1>1, <1>5, <1>6, TabGrowth
  <1>8. \A n \in DOMAIN sessions : Image(sessions[n]) \in Shape(rows, attempt')
    <2> TAKE n \in DOMAIN sessions
    <2>1. sessions[n] \in Shape(rows, attempt) /\ sessions[n] \in Session
      BY SessionIs
    <2>2. CASE sessions[n].id \in {"local", "c"}
      <3> DEFINE t == Image(sessions[n])
                 longer == Len(sessions[n].messages) > Len(shown.messages)
      <3> HIDE DEF longer
      <3>1. t = [shown EXCEPT !.messages = IF longer THEN sessions[n].messages ELSE @,
                              !.status = sessions[n].status,
                              !.sync = IF longer \/ follow # <<>> THEN "saving" ELSE @]
        BY <2>2 DEF longer
      <3> HIDE DEF t, follow
      <3>2. /\ t \in Session /\ t.id = "c" /\ t.version = version
            /\ t.sync = "saved" => t.messages = shown.messages
        BY <1>4, <2>1, <3>1 DEF Session
      <3>3. t \in Shape(rows, attempt')
        BY <1>3, <1>4, <1>5, <3>2, StoredIds DEF Shape, HeldIn
      <3> QED BY <3>3 DEF t
    <2>3. CASE sessions[n].id \notin {"local", "c"}
      BY <1>5, <2>1, <2>3 DEF Shape
    <2> QED BY <2>2, <2>3
  <1> HIDE DEF Image
  <1>9. SessionsSound'
    <2>1. mapped \in Seq(Shape(rows, attempt'))
      <3>1. \A n \in DOMAIN sessions : mapped[n] \in Shape(rows, attempt')
        BY <1>8
      <3>2. mapped = [n \in DOMAIN sessions |-> mapped[n]]
        OBVIOUS
      <3> HIDE DEF mapped
      <3> QED BY <3>1, <3>2, MapIs, Facts
    <2> HIDE DEF mapped
    <2>2. sessions' \in Seq(Shape(rows, attempt'))
      BY <1>1, <2>1, DedupedIs
    <2> QED BY <1>1, <1>3, <1>5, <2>2 DEF SessionsSound
  <1> HIDE DEF mapped
  <1>10. /\ OneRetryPerKey' /\ retries' \in SUBSET Retry
         /\ \A q \in retries' : q \in retries
    BY <1>1, WithoutIs
  <1>13. AttemptSound'
    BY <1>5 DEF PInv, AttemptSound
  <1>16. \A s \in Slots : \/ net'[s] = net[s] \/ net'[s] = NoCall
    BY <1>2
  <1>17. \A j \in Keys : net'[j] = net[j]
    BY <1>2 DEF Slots
  <1>18. /\ queue' \in [Keys -> Seq(Ops)] /\ HeadCalls'
         /\ \A j \in Keys : \A n \in DOMAIN queue'[j] :
                  \/ \E m \in DOMAIN queue[j] : queue'[j][n] = queue[j][m]
                  \/ OpValid(rows', attempt', j, queue'[j][n])
    <2>1. "local" \in Keys
      BY StoredIds
    <2>2. CASE follow = <<>>
      <3>1. queue' = queue
        BY <1>1, <2>1, <2>2, AppendOpIs, ExtendedQueue
      <3> QED BY <1>17, <3>1, QueueSame
    <2>3. CASE follow # <<>>
      <3>1. \E op \in Ops : follow = <<op>> /\ OpValid(rows', attempt', "local", op)
        <4>1. CASE attempt.answered
          <5> DEFINE op == AppendOp
          <5>1. op \in Ops /\ op.what = "append" /\ op.id = "c" /\ op.key > 0
            BY AppendOpIs
          <5>2. follow = <<op>>
            BY <4>1 DEF FollowUp
          <5> HIDE DEF op
          <5>3. OpValid(rows', attempt', "local", op)
            BY <1>5, <4>1, <5>1 DEF OpValid, Carries, EditFields
          <5> QED BY <5>1, <5>2, <5>3
        <4>2. CASE ~attempt.answered /\ attempt.target = "failed"
          <5> DEFINE op == StatusOp
          <5>1. op \in Ops /\ op.what = "status" /\ op.id = "c" /\ op.value = "failed"
            BY StatusOpIs
          <5>2. follow = <<op>>
            BY <4>2 DEF FollowUp
          <5> HIDE DEF op
          <5>3. OpValid(rows', attempt', "local", op)
            BY <1>5, <4>2, <5>1 DEF OpValid, Carries, EditFields
          <5> QED BY <5>1, <5>2, <5>3
        <4> QED BY <2>3, <4>1, <4>2 DEF FollowUp
      <3>2. PICK op \in Ops : follow = <<op>> /\ OpValid(rows', attempt', "local", op)
        BY <3>1
      <3> HIDE DEF follow
      <3>3. queue' = Enqueued("local", op)
        BY <1>1, <2>1, <3>2, ExtendedQueue
      <3> QED BY <1>17, <2>1, <3>2, <3>3, EnqueueKeeps
    <2> QED BY <2>2, <2>3
  <1> QED BY <1>1, <1>2, <1>7, <1>9, <1>10, <1>13, <1>16, <1>18, PageSame, TabStep

\* An edit as it is queued
EditOp(id, field, value) ==
    [Op(field, id, value, 0) EXCEPT !.waits = queue[MutationKey(id)] # <<>>,
                                             !.base = First(id)]

\* An edit of something that is shown is valid.
LEMMA EditOpIs ==
    ASSUME PInv, NEW id \in Keys, NEW field \in EditFields, NEW value,
           field = "title" => value \in Titles, field = "archived" => value = "yes",
           Sessions(id) # {}
    PROVE  LET op == EditOp(id, field, value)
           IN  /\ op \in Ops /\ op.what = field /\ op.id = id /\ op.value = value
               /\ MutationKey(id) \in Keys
               /\ OpValid(rows, attempt, MutationKey(id), op)
  <1> DEFINE op == EditOp(id, field, value)
             w == queue[MutationKey(id)] # <<>>
             b == First(id)
  <1>1. b \in Shape(rows, attempt) /\ b \in Session /\ b.id = id
    BY FirstIs
  <1>2. w \in BOOLEAN /\ value \in Values
    BY DEF Values, EditFields
  <1>3. op = [Op(field, id, value, 0) EXCEPT !.waits = w, !.base = b]
    BY DEF EditOp
  <1> HIDE DEF op, w, b
  <1>31. op = [what |-> field, id |-> id, value |-> value, key |-> 0,
              waits |-> w, base |-> b]
    BY <1>2, <1>3 DEF Op
  <1>4. op \in Ops /\ op.what = field /\ op.id = id /\ op.value = value
        /\ op.base = b
    BY <1>1, <1>2, <1>31 DEF Ops
  <1>5. MutationKey(id) \in Keys /\ (MutationKey(id) = "c" => id = "c")
        /\ (MutationKey(id) = "local" /\ attempt.canonical = 0 => id = "local")
    BY StoredIds DEF MutationKey, IsKnown
  <1>6. Carries(attempt, op)
    BY <1>4, StoredIds DEF Carries, EditFields
  <1>7. b \in Base(rows, attempt, op)
    BY <1>1, <1>4, StoredIds DEF Base, Shape
  <1>8. OpValid(rows, attempt, MutationKey(id), op)
    BY <1>4, <1>5, <1>6, <1>7 DEF OpValid
  <1> QED BY <1>4, <1>5, <1>8 DEF op

\* An edit is queued, and takes back the retry of its field.
LEMMA EditOfIs ==
    ASSUME PInv, NEW id \in Keys, NEW field \in EditFields, NEW value,
           field = "title" => value \in Titles, field = "archived" => value = "yes",
           Sessions(id) # {}, EditOf(id, field, value),
           UNCHANGED <<rows, attempt>>
    PROVE  /\ SessionsSound' /\ OneRetryPerKey' /\ retries' \in SUBSET Retry
           /\ queue' = Enqueued(MutationKey(id), EditOp(id, field, value))
           /\ \A q \in retries' : q \in retries
           /\ \A q \in retries : q \in retries' \/ q.what = field
  <1> DEFINE Image(s) == IF s.id = id THEN [s EXCEPT !.sync = "saving", ![field] = value] ELSE s
  <1>1. /\ retries' = Without(field, id)
        /\ sessions' = [n \in DOMAIN sessions |-> Image(sessions[n])]
        /\ queue' = Enqueued(MutationKey(id), EditOp(id, field, value))
    BY DEF EditOf, EditOp, Mapped
  <1>2. \A n \in DOMAIN sessions : /\ Image(sessions[n]) \in Shape(rows, attempt)
                                   /\ Image(sessions[n]).id = sessions[n].id
    <2> TAKE n \in DOMAIN sessions
    <2>1. sessions[n] \in Shape(rows, attempt) /\ sessions[n] \in Session
      BY SessionIs
    <2> DEFINE t == [sessions[n] EXCEPT !.sync = "saving", ![field] = value]
    <2>2. t \in Session /\ t.id = sessions[n].id /\ t.messages = sessions[n].messages
          /\ t.sync # "saved" /\ t.version = sessions[n].version
      <3>1. CASE field = "title"
        BY <2>1, <3>1 DEF Session
      <3>2. CASE field = "archived"
        BY <2>1, <3>2 DEF Session
      <3> QED BY <3>1, <3>2 DEF EditFields
    <2> HIDE DEF t
    <2>3. t \in Shape(rows, attempt)
      BY <2>1, <2>2, ReShaped, Facts DEF Attempts
    <2> QED BY <2>1, <2>2, <2>3 DEF t
  <1> HIDE DEF Image
  <1>3. SessionsSound'
    BY <1>1, <1>2, SessionsMapped
  <1>4. /\ OneRetryPerKey' /\ retries' \in SUBSET Retry
        /\ \A q \in retries' : q \in retries
        /\ \A q \in retries : q \in retries' \/ q.what = field
    BY <1>1, WithoutIs
  <1> QED BY <1>1, <1>3, <1>4

LEMMA EditStep ==
    ASSUME PInv, NEW id \in Keys, NEW field \in EditFields, NEW value,
           field = "title" => value \in Titles, field = "archived" => value = "yes",
           Edit(id, field, value)
    PROVE  PInv'
  <1> DEFINE op == EditOp(id, field, value)
             k == MutationKey(id)
  <1>1. /\ Sessions(id) # {} /\ EditOf(id, field, value)
        /\ left.edits > 0 /\ left' = [left EXCEPT !.edits = @ - 1]
        /\ UNCHANGED <<rows, net, stray, attempt, pressing, load, selected>>
    BY DEF Edit, page
  <1>3. /\ op \in Ops /\ k \in Keys /\ OpValid(rows, attempt, k, op)
    BY <1>1, EditOpIs
  <1>4. /\ SessionsSound' /\ OneRetryPerKey' /\ retries' \in SUBSET Retry
        /\ queue' = Enqueued(k, op) /\ \A q \in retries' : q \in retries
        /\ \A q \in retries : q \in retries' \/ q.what = field
    BY <1>1, EditOfIs
  <1> HIDE DEF op, k
  <1>5. Growth /\ RowsSound'
    BY <1>1, SameGrowth
  <1>6. /\ queue' \in [Keys -> Seq(Ops)] /\ HeadCalls'
        /\ \A j \in Keys : \A n \in DOMAIN queue'[j] :
                  \/ \E m \in DOMAIN queue[j] : queue'[j][n] = queue[j][m]
                  \/ OpValid(rows', attempt', j, queue'[j][n])
    BY <1>1, <1>3, <1>4, EnqueueKeeps
  <1>7. CreateUnderWay => CreateUnderWay'
    BY <1>1, <1>4, CreatesSame DEF EditFields
  <1>8. AttemptSound' /\ SlotKinds'
    BY <1>1, <1>7 DEF PInv, AttemptSound, CallsValid, SlotKinds
  <1>10. load' \in {"failed", "loading", "loaded"} /\ selected' \in Stored \cup {"none"}
         /\ left' \in Left
    <2>1. left \in Left /\ load \in {"failed", "loading", "loaded"}
          /\ selected \in Stored \cup {"none"}
      BY Typed
    <2> QED BY <1>1, <2>1 DEF Left
  <1>11. /\ net' \in [Slots -> Calls \cup {NoCall}]
         /\ pressing' \in [Presses -> Retry \cup {NoRetry}]
    BY <1>1, Typed
  <1> QED BY <1>1, <1>4, <1>5, <1>6, <1>8, <1>10, <1>11, TabStep

LEMMA RenameStep == ASSUME PInv, Rename PROVE PInv'
  BY EditStep DEF Rename, EditFields

LEMMA ArchiveOneStep == ASSUME PInv, ArchiveOne PROVE PInv'
  BY EditStep DEF ArchiveOne, EditFields

-----------------------------------------------------------------------------
(* Forks.                                                                  *)

\* A fork is offered at messages only that the row holds.
LEMMA DurableIs ==
    ASSUME PInv, Sessions("c") # {}, NEW message, Durable(message)
    PROVE  /\ message \in Nat /\ rows["c"] # <<>>
           /\ Says(Final(rows, "c").messages, message)
  <1> DEFINE s == First("c")
             kept == rows["c"][attempt.canonical].messages
  <1>1. s \in Shape(rows, attempt) /\ s \in Session /\ s.id = "c"
    BY FirstIs
  <1>2. "c" \in Stored /\ s.version \in 1 .. Len(rows["c"])
    BY <1>1, StoredIds DEF Shape, HeldIn
  <1>3. attempt.canonical \in Nat /\ attempt.canonical <= Len(rows["c"])
        /\ rows["c"] \in Seq(StoredRow) /\ RowsValid(rows, attempt)
    BY <1>2, Facts DEF PInv, RowsSound, RowsValid, Attempts, AllRows
  <1> HIDE DEF s
  <1>4. /\ Len(rows["c"]) \in DOMAIN rows["c"] /\ rows["c"] # <<>>
        /\ Final(rows, "c").messages \in Seq(Nat)
    <2>1. Len(rows["c"]) \in DOMAIN rows["c"] /\ rows["c"] # <<>>
      BY <1>2, <1>3
    <2>2. rows["c"][Len(rows["c"])] \in StoredRow
      BY <1>3, <2>1
    <2> QED BY <2>1, <2>2 DEF Final, StoredRow, Transcripts
  <1>5. Says(Final(rows, "c").messages, message)
    <2>1. CASE attempt.canonical > 0
      <3>1. IsAttempt(s)
        BY <1>1, <2>1 DEF IsAttempt, IsKnown
      <3>2. \E n \in DOMAIN kept : kept[n] = message
        BY <3>1 DEF Durable, s
      <3>3. attempt.canonical \in DOMAIN rows["c"] /\ attempt.canonical <= Len(rows["c"])
        BY <1>3, <2>1
      <3>4. \A i \in DOMAIN kept : Says(Final(rows, "c").messages, kept[i])
        BY <1>3, <1>4, <3>3 DEF RowsValid, Final
      <3> QED BY <3>2, <3>4
    <2>2. CASE ~(attempt.canonical > 0)
      <3>1. ~IsAttempt(s) /\ attempt.canonical = 0
        BY <1>1, <1>3, <2>2 DEF IsAttempt, IsKnown
      <3>2. \E n \in DOMAIN s.messages : s.messages[n] = message
        BY <3>1 DEF Durable, s
      <3>3. s.messages \in {<<>>, M0}
        BY <1>1, <3>1 DEF Shape
      <3>4. s.messages = M0
        BY <3>2, <3>3
      <3>5. Final(rows, "c").messages = M0
        BY <1>3, <1>4, <3>1 DEF RowsValid, Final
      <3> QED BY <3>2, <3>4, <3>5 DEF Says
    <2> QED BY <2>1, <2>2
  <1>6. message \in Nat
    BY <1>4, <1>5 DEF Says
  <1> QED BY <1>4, <1>5, <1>6

LEMMA ForkStep ==
    ASSUME PInv, Fork
    PROVE  PInv'
  <1> DEFINE s == First("c")
             message == Last(s.messages)
             op == Op("fork", "c", s.title, message)
             k == MutationKey("c")
  <1>1. /\ Sessions("c") # {} /\ left.forks > 0 /\ left' = [left EXCEPT !.forks = @ - 1]
        /\ CanFork(message) /\ queue' = Enqueued(k, op)
        /\ UNCHANGED <<rows, net, stray, sessions, attempt, retries, pressing, page>>
    BY DEF Fork
  <1>2. s.title \in Titles
    <2>1. s \in Session
      BY <1>1, FirstIs
    <2> HIDE DEF s
    <2> QED BY <2>1 DEF Session
  <1>3. message \in Nat
    BY <1>1, DurableIs DEF CanFork
  <1> HIDE DEF s, message
  <1>4. op \in Ops /\ op.what = "fork" /\ op.id = "c" /\ op.value \in Titles
    BY <1>2, <1>3, StoredIds DEF Values, Op, Ops
  <1> HIDE DEF op
  <1>5. k \in Keys /\ (k = "local" => attempt.canonical > 0)
    BY StoredIds DEF MutationKey, IsKnown
  <1> HIDE DEF k
  <1>6. OpValid(rows, attempt, k, op)
    BY <1>4, <1>5, Facts, StoredIds DEF Attempts, OpValid, Carries, EditFields
  <1>7. Growth /\ RowsSound'
    BY <1>1, SameGrowth
  <1>8. /\ queue' \in [Keys -> Seq(Ops)] /\ HeadCalls'
        /\ \A j \in Keys : \A n \in DOMAIN queue'[j] :
                  \/ \E m \in DOMAIN queue[j] : queue'[j][n] = queue[j][m]
                  \/ OpValid(rows', attempt', j, queue'[j][n])
    BY <1>1, <1>4, <1>5, <1>6, <1>7, EnqueueKeeps
  <1>9. AttemptSound' /\ SlotKinds' /\ SessionsSound'
    BY <1>1 DEF PInv, CallsValid, SlotKinds, AttemptSound, CreateUnderWay,
                SessionsSound, Sessions
  <1>10. /\ load' \in {"failed", "loading", "loaded"} /\ selected' \in Stored \cup {"none"}
         /\ left' \in Left
    <2>1. left \in Left /\ load \in {"failed", "loading", "loaded"}
          /\ selected \in Stored \cup {"none"}
      BY Typed
    <2> QED BY <1>1, <2>1 DEF Left, page
  <1>11. net' \in [Slots -> Calls \cup {NoCall}]
    BY <1>1, Typed
  <1> QED BY <1>1, <1>7, <1>8, <1>9, <1>10, <1>11, RetriesSame, TabStep

-----------------------------------------------------------------------------
(* Operations leave their queue.                                           *)

\* What is known of the attempt only grows, once there is a row.
AttemptKnows ==
    \/ attempt' = attempt
    \/ /\ attempt.canonical > 0 /\ attempt' \in Attempts
       /\ attempt.canonical <= attempt'.canonical /\ attempt'.canonical <= Len(rows["c"])
       /\ attempt'.begun = attempt.begun /\ attempt'.answered = attempt.answered
       /\ attempt'.target = attempt.target /\ attempt'.appends = attempt.appends

\* The newer of two versions is known.
LEMMA KnownIs ==
    ASSUME PInv, attempt.canonical > 0, NEW version \in Nat, version <= Len(rows["c"]),
           attempt' = [attempt EXCEPT !.canonical = KnownAs(version)]
    PROVE  AttemptKnows
  <1>1. attempt \in Attempts /\ attempt.canonical <= Len(rows["c"])
        /\ Len(rows["c"]) \in Nat
    BY Facts, StoredIds DEF PInv, RowsSound, RowsValid, AllRows
  <1>2. /\ KnownAs(version) \in Nat /\ attempt.canonical <= KnownAs(version)
        /\ KnownAs(version) <= Len(rows["c"])
    BY <1>1 DEF KnownAs, NewerOf, Attempts
  <1> HIDE DEF KnownAs
  <1> QED BY <1>1, <1>2 DEF AttemptKnows, Attempts

\* Knowing more is growth, and keeps what is known of the attempt.
LEMMA KnowsGrowth ==
    ASSUME PInv, AttemptKnows, rows' = rows
    PROVE  Growth /\ RowsSound' /\ attempt' \in Attempts
           /\ (attempt'.canonical > 0 <=> attempt.canonical > 0)
           /\ attempt'.begun = attempt.begun /\ attempt'.answered = attempt.answered
           /\ attempt'.target = attempt.target
  <1>1. CASE attempt' = attempt
    BY <1>1, SameGrowth, Facts
  <1>2. CASE attempt' # attempt
    BY <1>2, Facts, TabGrowth DEF AttemptKnows, AttemptGrows, Attempts
  <1> QED BY <1>1, <1>2

LEMMA KnowsAttempt ==
    ASSUME PInv, AttemptKnows, rows' = rows, CreateUnderWay => CreateUnderWay'
    PROVE  AttemptSound'
  <1>1. CASE attempt' = attempt
    BY <1>1 DEF PInv, AttemptSound
  <1>2. CASE attempt' # attempt
    BY <1>2, Facts DEF AttemptKnows, Attempts, PInv, AttemptSound
  <1> QED BY <1>1, <1>2

\* The operation an answer belongs to
LEMMA HeadIs ==
    ASSUME PInv, NEW k \in Keys, queue[k] # <<>>
    PROVE  /\ Head(queue[k]) \in Ops /\ OpValid(rows, attempt, k, Head(queue[k]))
           /\ 1 \in DOMAIN queue[k] /\ Head(queue[k]) = queue[k][1]
           /\ net[k] # NoCall => /\ net[k].what = Head(queue[k]).what
                                 /\ net[k].id = Head(queue[k]).id
  BY Typed DEF PInv, QueuesValid, HeadCalls

\* An answer is taken, or an operation given up.
LEMMA ArriveStep ==
    ASSUME PInv, NEW k \in Keys, queue[k] # <<>>, queue' = Popped(k),
           net' = [net EXCEPT ![k] = NoCall],
           AttemptKnows, UNCHANGED <<rows, stray, pressing, load, selected, left>>, SessionsSound',
           OneRetryPerKey', retries' \in SUBSET Retry,
           \A q \in retries : q.what = "create" => q \in retries',
           \A q \in retries' : q \in retries \/ RetryValid(attempt', q)
    PROVE  PInv'
  <1>1. Growth /\ RowsSound'
    BY KnowsGrowth
  <1>2. /\ net \in [Slots -> Calls \cup {NoCall}] /\ k \in Slots
        /\ {"create", "list", "detail"} \cup Presses \subseteq Slots
        /\ k \notin {"create", "list", "detail"} \cup Presses
    BY Typed, StoredIds, PressSlots DEF Slots
  <1>3. /\ net' \in [Slots -> Calls \cup {NoCall}] /\ net'[k] = NoCall
        /\ \A s \in Slots : s # k => net'[s] = net[s]
    BY <1>2
  <1>4. CreateUnderWay => CreateUnderWay'
    <2>1. net[k] # NoCall => net[k].what # "create"
      BY HeadIs DEF Ops, EditFields
    <2> QED BY <1>3, <2>1, CreatesSame
  <1>5. AttemptSound'
    BY <1>4, KnowsAttempt
  <1>6. SlotKinds'
    BY <1>2, <1>3 DEF PInv, CallsValid, SlotKinds
  <1>7. /\ queue' \in [Keys -> Seq(Ops)] /\ HeadCalls'
        /\ \A j \in Keys : \A n \in DOMAIN queue'[j] :
                  \E m \in DOMAIN queue[j] : queue'[j][n] = queue[j][m]
    BY <1>3, PopKeeps DEF Slots
  <1>8. \A s \in Slots : net'[s] = net[s] \/ net'[s] = NoCall
    BY <1>3
  <1>9. load' \in {"failed", "loading", "loaded"} /\ selected' \in Stored \cup {"none"}
        /\ left' \in Left
    BY Typed
  <1> QED BY <1>1, <1>3, <1>5, <1>6, <1>7, <1>8, <1>9, Typed, TabStep

\* An answer arrives to an operation.
LEMMA ArrivedIs ==
    ASSUME PInv, NEW k \in Keys, Arrived(k)
    PROVE  k \in Slots /\ net[k] # NoCall /\ queue[k] # <<>>
  BY AnswerIs DEF Slots, PInv, HeadCalls

\* What fails leaves a retry of itself.
LEMMA RetryOfIs ==
    ASSUME NEW op \in Ops, NEW id \in Keys, NEW k \in Keys, NEW outcome
    PROVE  LET r == RetryOf(op, id, k, outcome)
           IN  /\ r \in Retry /\ r.what = op.what /\ r.id = id /\ r.value = op.value
               /\ r.key = op.key /\ r.queue = k /\ (r.refresh => op.what # "fork")
  <1> DEFINE refresh == outcome = "conflict" /\ op.what # "fork"
             r == RetryOf(op, id, k, outcome)
  <1>1. r = [what |-> op.what, id |-> id, value |-> op.value, key |-> op.key, queue |-> k,
             refresh |-> refresh]
    BY DEF RetryOf
  <1>2. refresh \in BOOLEAN /\ (refresh => op.what # "fork")
    OBVIOUS
  <1>3. /\ op.what \in Fields \cup {"create", "append", "fork"} /\ op.value \in Values
        /\ op.key \in Nat /\ id \in Stored \cup {"local"}
    BY StoredIds DEF Ops, EditFields, Fields
  <1> HIDE DEF r, refresh
  <1>4. r \in Retry
    BY <1>1, <1>2, <1>3 DEF Retry, Values
  <1> QED BY <1>1, <1>2, <1>4 DEF r

\* Knowing more leaves sessions sound.
LEMMA ShapeKnows ==
    ASSUME PInv, AttemptKnows, NEW s \in Shape(rows, attempt)
    PROVE  s \in Shape(rows, attempt')
  <1>1. CASE attempt' = attempt
    BY <1>1
  <1>2. CASE attempt' # attempt
    BY <1>2, Facts DEF AttemptKnows, Attempts, Shape
  <1> QED BY <1>1, <1>2

\* Sessions are changed where they stand, and duplicates dropped or not.
LEMMA SessionsArrive ==
    ASSUME PInv, AttemptKnows, UNCHANGED rows, NEW mapped,
           mapped = [n \in DOMAIN sessions |-> mapped[n]],
           \A n \in DOMAIN sessions : /\ mapped[n] \in Shape(rows, attempt)
                                      /\ mapped[n].id = sessions[n].id,
           \/ sessions' = mapped
           \/ sessions' = Deduped(mapped)
    PROVE  SessionsSound'
  <1>1. \A n \in DOMAIN sessions : mapped[n] \in Shape(rows, attempt')
    BY ShapeKnows
  <1>2. mapped \in Seq(Shape(rows, attempt')) /\ DOMAIN mapped = DOMAIN sessions
    BY <1>1, Facts, MapIs
  <1>4. CASE sessions' = mapped
    BY <1>2, <1>4 DEF SessionsSound
  <1>5. CASE sessions' = Deduped(mapped)
    BY <1>2, <1>5, DedupedIs DEF SessionsSound
  <1> QED BY <1>4, <1>5

LEMMA EditArrivesStep ==
    ASSUME PInv, NEW k \in Keys, EditArrives(k)
    PROVE  PInv'
  <1> DEFINE op == Head(queue[k])
             version == net[k].seen[op.id]
             following == FollowedBy(k, 1)
             preserve == FALSE
             Failed(s) == IF s.id = op.id THEN op.base ELSE s
             Taken(s) == IF s.id = op.id
                         THEN Reconciled(op.id, version, s, s.status, following, preserve) ELSE s
  <1>1. /\ Arrived(k) /\ op.what \in EditFields
        /\ queue' = Popped(k) /\ net' = [net EXCEPT ![k] = NoCall]
        /\ UNCHANGED <<rows, stray, pressing, page, left>>
    BY DEF EditArrives, EditFields
  <1>2. /\ ~Ok(k) => /\ sessions' = [n \in DOMAIN sessions |-> Failed(sessions[n])]
                     /\ retries' = With(RetryOf(op, op.id, k, net[k].outcome))
                     /\ attempt' = attempt
        /\ Ok(k) => /\ sessions' = [n \in DOMAIN sessions |-> Taken(sessions[n])]
                    /\ retries' = Without(op.what, op.id)
                    /\ attempt' = IF IsKnown(op.id)
                                  THEN [attempt EXCEPT !.canonical = KnownAs(version)]
                                  ELSE attempt
    BY DEF EditArrives, EditFails, EditSucceeds, Mapped
  <1>3. k \in Slots /\ net[k] # NoCall /\ queue[k] # <<>>
    BY <1>1, ArrivedIs
  <1>4. op \in Ops /\ OpValid(rows, attempt, k, op) /\ net[k].what = op.what /\ net[k].id = op.id
    BY <1>3, HeadIs
  <1>5. op.base \in Base(rows, attempt, op) /\ op.id \in Keys /\ Carries(attempt, op)
    BY <1>1, <1>4 DEF OpValid, Carries, EditFields, Ops
  <1>6. Ok(k) => /\ op.id = "c" /\ version \in Nat /\ version > 0 /\ version <= Len(rows["c"])
                 /\ "c" \in Stored
    <2> SUFFICES ASSUME Ok(k) PROVE /\ op.id = "c" /\ version \in Nat /\ version > 0
                                    /\ version <= Len(rows["c"]) /\ "c" \in Stored
      OBVIOUS
    <2>1. net[k].what # "list"
      BY <1>1, <1>4 DEF EditFields
    <2>2. op.id \in Stored /\ net[k].seen[op.id] > 0 /\ net[k].seen[op.id] <= Len(rows[op.id])
          /\ net[k].seen[op.id] \in Nat
      BY <1>1, <1>3, <1>4, <2>1, AnswerIs
    <2>3. op.id = "c"
      BY <1>5, <2>2, StoredIds
    <2> QED BY <2>2, <2>3
  <1>8. CASE ~Ok(k)
    <2> DEFINE r == RetryOf(op, op.id, k, net[k].outcome)
    <2>1. r \in Retry /\ r.what = op.what /\ r.id = op.id /\ r.value = op.value
      BY <1>4, <1>5, RetryOfIs
    <2>2. retries' = With(r) /\ AttemptKnows
      BY <1>2, <1>8 DEF AttemptKnows
    <2> HIDE DEF r
    <2>3. RetryValid(attempt', r)
      BY <1>1, <1>2, <1>5, <1>8, <2>1 DEF RetryValid, Carries, EditFields
    <2>4. /\ OneRetryPerKey' /\ retries' \in SUBSET Retry
          /\ \A q \in retries' : q \in retries \/ q = r
          /\ \A q \in retries : q \in retries' \/ Same(q, r)
      BY <2>1, <2>2, WithIs
    <2>5. \A q \in retries : q.what = "create" => q \in retries'
      BY <1>1, <2>1, <2>4 DEF EditFields, Same
    <2> DEFINE mapped == [n \in DOMAIN sessions |-> Failed(sessions[n])]
    <2>6. \A n \in DOMAIN sessions : /\ mapped[n] \in Shape(rows, attempt)
                                     /\ mapped[n].id = sessions[n].id
      <3> TAKE n \in DOMAIN sessions
      <3>1. sessions[n] \in Shape(rows, attempt)
            /\ (sessions[n].id = "local" => attempt.begun /\ attempt.canonical = 0)
        BY SessionIs
      <3>2. CASE sessions[n].id = op.id
        BY <1>5, <3>1, <3>2, StoredIds DEF Base, Shape
      <3>3. CASE sessions[n].id # op.id
        BY <3>1, <3>3
      <3> QED BY <3>2, <3>3
    <2>7. mapped = [n \in DOMAIN sessions |-> mapped[n]] /\ sessions' = mapped
      BY <1>2, <1>8
    <2> HIDE DEF mapped
    <2>8. SessionsSound'
      BY <1>1, <2>2, <2>6, <2>7, SessionsArrive
    <2>9. UNCHANGED <<load, selected>>
      BY <1>1 DEF page
    <2> QED BY <1>1, <1>3, <2>2, <2>3, <2>4, <2>5, <2>8, <2>9, ArriveStep
  <1>9. CASE Ok(k)
    <2>1. AttemptKnows
      <3>1. CASE IsKnown(op.id)
        BY <1>2, <1>6, <1>9, <3>1, KnownIs DEF IsKnown
      <3>2. CASE ~IsKnown(op.id)
        BY <1>2, <1>9, <3>2 DEF AttemptKnows
      <3> QED BY <3>1, <3>2
    <2>2. /\ OneRetryPerKey' /\ retries' \in SUBSET Retry
          /\ \A q \in retries' : q \in retries
          /\ \A q \in retries : q \in retries' \/ q.what = op.what
      BY <1>2, <1>9, WithoutIs
    <2>3. \A q \in retries : q.what = "create" => q \in retries'
      BY <1>1, <2>2 DEF EditFields
    <2>4. following \in BOOLEAN /\ preserve \in BOOLEAN
      BY DEF FollowedBy
    <2> DEFINE mapped == [n \in DOMAIN sessions |-> Taken(sessions[n])]
    <2> HIDE DEF version, following, preserve
    <2>5. \A n \in DOMAIN sessions : /\ mapped[n] \in Shape(rows, attempt)
                                     /\ mapped[n].id = sessions[n].id
      <3> TAKE n \in DOMAIN sessions
      <3>1. sessions[n] \in Shape(rows, attempt) /\ sessions[n] \in Session
        BY SessionIs
      <3>2. CASE sessions[n].id = op.id
        <4> DEFINE s == sessions[n]
                   status == s.status
        <4>1. s.id = "c" /\ status \in {"running", "idle", "failed"}
          BY <1>6, <1>9, <3>1, <3>2 DEF Session
        <4>2. mapped[n] = Reconciled("c", version, s, status, following, preserve)
          BY <1>6, <1>9, <3>2
        <4> HIDE DEF s, status
        <4>3. /\ Reconciled("c", version, s, status, following, preserve) \in Shape(rows, attempt)
              /\ Reconciled("c", version, s, status, following, preserve).id = "c"
          BY <1>6, <1>9, <2>4, <3>1, <4>1, ReconciledIs DEF s
        <4> QED BY <4>1, <4>2, <4>3 DEF s
      <3>3. CASE sessions[n].id # op.id
        BY <3>1, <3>3
      <3> QED BY <3>2, <3>3
    <2>6. mapped = [n \in DOMAIN sessions |-> mapped[n]] /\ sessions' = mapped
      BY <1>2, <1>9
    <2> HIDE DEF mapped
    <2>7. SessionsSound'
      BY <1>1, <2>1, <2>5, <2>6, SessionsArrive
    <2>8. UNCHANGED <<load, selected>>
      BY <1>1 DEF page
    <2> QED BY <1>1, <1>3, <2>1, <2>2, <2>3, <2>7, <2>8, ArriveStep
  <1> QED BY <1>8, <1>9

\* An outcome has an operation for a conversation that is known.
LEMMA OutcomeOpIs ==
    ASSUME PInv, NEW k \in Keys, NEW op, OpValid(rows, attempt, k, op),
           op.what \in {"append", "status"}
    PROVE  /\ op.id = "c" /\ attempt.canonical > 0
           /\ op.what = "append" => op.key > 0 /\ attempt.answered
           /\ op.what = "status" => op.value = "failed" /\ attempt.target = "failed"
  BY DEF OpValid, Carries, EditFields

LEMMA OutcomeArrivesStep ==
    ASSUME PInv, OutcomeArrives
    PROVE  PInv'
  <1> DEFINE k == "local"
             op == Head(queue[k])
             version == net[k].seen["c"]
             status == IF op.what = "append" THEN "idle" ELSE "failed"
             following == FollowedBy(k, 2)
             preserve == FALSE
             Unsaved(s) == IF IsAttempt(s) THEN [s EXCEPT !.sync = "unsaved"] ELSE s
             Taken(s) == IF IsAttempt(s)
                         THEN Reconciled("c", version, s, status, following, preserve) ELSE s
  <1>1. /\ Arrived(k) /\ op.what \in {"append", "status"}
        /\ queue' = Popped(k) /\ net' = [net EXCEPT ![k] = NoCall]
        /\ UNCHANGED <<rows, stray, pressing, page, left>>
    BY DEF OutcomeArrives
  <1>2. /\ ~Ok(k) => /\ sessions' = [n \in DOMAIN sessions |-> Unsaved(sessions[n])]
                     /\ retries' = With(RetryOf(op, k, k, net[k].outcome))
                     /\ attempt' = attempt
        /\ Ok(k) => /\ sessions' = Deduped([n \in DOMAIN sessions |-> Taken(sessions[n])])
                    /\ retries' = Without(op.what, "local")
                    /\ attempt' = [attempt EXCEPT !.canonical = KnownAs(version)]
    BY DEF OutcomeArrives, WithSync, Mapped
  <1>0. k \in Keys
    BY StoredIds
  <1>3. k \in Slots /\ net[k] # NoCall /\ queue[k] # <<>>
    BY <1>0, <1>1, ArrivedIs
  <1>4. op \in Ops /\ OpValid(rows, attempt, k, op) /\ net[k].what = op.what /\ net[k].id = op.id
    BY <1>0, <1>3, HeadIs
  <1>5. /\ op.id = "c" /\ attempt.canonical > 0
        /\ op.what = "append" => op.key > 0 /\ attempt.answered
        /\ op.what = "status" => op.value = "failed" /\ attempt.target = "failed"
    BY <1>0, <1>1, <1>4, OutcomeOpIs
  <1>6. Ok(k) => version \in Nat /\ version > 0 /\ version <= Len(rows["c"])
    <2> SUFFICES ASSUME Ok(k) PROVE version \in Nat /\ version > 0 /\ version <= Len(rows["c"])
      OBVIOUS
    <2>1. net[k].what # "list" /\ net[k].id = "c" /\ "c" \in Stored
      BY <1>1, <1>4, <1>5, StoredIds
    <2> QED BY <1>1, <1>3, <2>1, AnswerIs
  <1>7. UNCHANGED <<load, selected>>
    BY <1>1 DEF page
  <1>8. CASE ~Ok(k)
    <2> DEFINE r == RetryOf(op, k, k, net[k].outcome)
    <2>1. r \in Retry /\ r.what = op.what /\ r.id = k /\ r.value = op.value /\ r.key = op.key
          /\ r.queue = k
      BY <1>0, <1>4, RetryOfIs
    <2>2. retries' = With(r) /\ AttemptKnows
      BY <1>2, <1>8 DEF AttemptKnows
    <2> HIDE DEF r
    <2>3. RetryValid(attempt', r)
      BY <1>1, <1>2, <1>5, <1>8, <2>1 DEF RetryValid
    <2>4. /\ OneRetryPerKey' /\ retries' \in SUBSET Retry
          /\ \A q \in retries' : q \in retries \/ q = r
          /\ \A q \in retries : q \in retries' \/ Same(q, r)
      BY <2>1, <2>2, WithIs
    <2>5. \A q \in retries : q.what = "create" => q \in retries'
      BY <1>1, <2>1, <2>4 DEF Same
    <2> DEFINE mapped == [n \in DOMAIN sessions |-> Unsaved(sessions[n])]
    <2>6. \A n \in DOMAIN sessions : /\ mapped[n] \in Shape(rows, attempt)
                                     /\ mapped[n].id = sessions[n].id
      <3> TAKE n \in DOMAIN sessions
      <3>1. sessions[n] \in Shape(rows, attempt) /\ sessions[n] \in Session
        BY SessionIs
      <3> DEFINE t == [sessions[n] EXCEPT !.sync = "unsaved"]
      <3>2. t \in Session /\ t.id = sessions[n].id /\ t.messages = sessions[n].messages
            /\ t.sync # "saved" /\ t.version = sessions[n].version
        BY <3>1 DEF Session
      <3> HIDE DEF t
      <3>3. t \in Shape(rows, attempt)
        BY <3>1, <3>2, ReShaped, Facts DEF Attempts
      <3> QED BY <3>1, <3>2, <3>3 DEF t
    <2>7. mapped = [n \in DOMAIN sessions |-> mapped[n]] /\ sessions' = mapped
      BY <1>2, <1>8
    <2> HIDE DEF mapped
    <2>8. SessionsSound'
      BY <1>1, <2>2, <2>6, <2>7, SessionsArrive
    <2> QED BY <1>0, <1>1, <1>3, <1>7, <2>2, <2>3, <2>4, <2>5, <2>8, ArriveStep
  <1>9. CASE Ok(k)
    <2>1. AttemptKnows
      BY <1>2, <1>5, <1>6, <1>9, KnownIs
    <2>2. /\ OneRetryPerKey' /\ retries' \in SUBSET Retry
          /\ \A q \in retries' : q \in retries
          /\ \A q \in retries : q \in retries' \/ q.what = op.what
      BY <1>2, <1>9, WithoutIs
    <2>3. \A q \in retries : q.what = "create" => q \in retries'
      BY <1>1, <2>2
    <2>4. following \in BOOLEAN /\ preserve \in BOOLEAN /\ status \in {"running", "idle", "failed"}
      BY DEF FollowedBy
    <2> DEFINE mapped == [n \in DOMAIN sessions |-> Taken(sessions[n])]
    <2> HIDE DEF version, following, preserve, status
    <2>5. \A n \in DOMAIN sessions : /\ mapped[n] \in Shape(rows, attempt)
                                     /\ mapped[n].id = sessions[n].id
      <3> TAKE n \in DOMAIN sessions
      <3>1. sessions[n] \in Shape(rows, attempt)
            /\ (sessions[n].id = "local" => attempt.canonical = 0)
        BY SessionIs
      <3>2. CASE IsAttempt(sessions[n])
        <4> DEFINE s == sessions[n]
        <4>1. s.id = "c"
          BY <1>5, <3>1, <3>2 DEF IsAttempt, IsKnown
        <4>2. mapped[n] = Reconciled("c", version, s, status, following, preserve)
          BY <3>2
        <4> HIDE DEF s
        <4>3. /\ Reconciled("c", version, s, status, following, preserve) \in Shape(rows, attempt)
              /\ Reconciled("c", version, s, status, following, preserve).id = "c"
          BY <1>6, <1>9, <2>4, <3>1, <4>1, ReconciledIs DEF s
        <4> QED BY <4>1, <4>2, <4>3 DEF s
      <3>3. CASE ~IsAttempt(sessions[n])
        BY <3>1, <3>3
      <3> QED BY <3>2, <3>3
    <2>6. mapped = [n \in DOMAIN sessions |-> mapped[n]] /\ sessions' = Deduped(mapped)
      BY <1>2, <1>9
    <2> HIDE DEF mapped
    <2>7. SessionsSound'
      BY <1>1, <2>1, <2>5, <2>6, SessionsArrive
    <2> QED BY <1>0, <1>1, <1>3, <1>7, <2>1, <2>2, <2>3, <2>7, ArriveStep
  <1> QED BY <1>8, <1>9

LEMMA ForkArrivesStep ==
    ASSUME PInv, NEW k \in Keys, ForkArrives(k)
    PROVE  PInv'
  <1> DEFINE op == Head(queue[k])
             version == net[k].seen["f"]
             fork == Shown("f", version, TRUE)
  <1>1. /\ Arrived(k) /\ op.what = "fork"
        /\ queue' = Popped(k) /\ net' = [net EXCEPT ![k] = NoCall]
        /\ UNCHANGED <<rows, stray, attempt, pressing, page, left>>
    BY DEF ForkArrives
  <1>2. /\ ~Ok(k) => /\ sessions' = sessions
                     /\ retries' = With(RetryOf(op, "c", k, net[k].outcome))
        /\ Ok(k) => /\ sessions' = <<fork>> \o sessions
                    /\ retries' = Without("fork", "c")
    BY DEF ForkArrives
  <1>3. k \in Slots /\ net[k] # NoCall /\ queue[k] # <<>>
    BY <1>1, ArrivedIs
  <1>4. op \in Ops /\ OpValid(rows, attempt, k, op) /\ net[k].what = op.what /\ net[k].id = op.id
    BY <1>3, HeadIs
  <1>5. /\ op.id = "c" /\ op.value \in Titles /\ (k = "local" => attempt.canonical > 0)
    BY <1>1, <1>4, Facts DEF OpValid, Carries, Attempts
  <1>6. UNCHANGED <<load, selected>>
    BY <1>1 DEF page
  <1>7. AttemptKnows
    BY <1>1 DEF AttemptKnows
  <1>8. CASE ~Ok(k)
    <2> DEFINE r == RetryOf(op, "c", k, net[k].outcome)
    <2>1. r \in Retry /\ r.what = "fork" /\ r.id = "c" /\ r.value = op.value
          /\ r.queue = k /\ ~r.refresh
      BY <1>1, <1>4, RetryOfIs, StoredIds
    <2>2. retries' = With(r)
      BY <1>2, <1>8
    <2> HIDE DEF r
    <2>3. RetryValid(attempt', r)
      BY <1>1, <1>5, <2>1 DEF RetryValid
    <2>4. /\ OneRetryPerKey' /\ retries' \in SUBSET Retry
          /\ \A q \in retries' : q \in retries \/ q = r
          /\ \A q \in retries : q \in retries' \/ Same(q, r)
      BY <2>1, <2>2, WithIs
    <2>5. \A q \in retries : q.what = "create" => q \in retries'
      BY <2>1, <2>4 DEF Same
    <2>6. SessionsSound'
      BY <1>1, <1>2, <1>8 DEF PInv, SessionsSound
    <2> QED BY <1>1, <1>3, <1>6, <1>7, <2>3, <2>4, <2>5, <2>6, ArriveStep
  <1>9. CASE Ok(k)
    <2>1. /\ OneRetryPerKey' /\ retries' \in SUBSET Retry
          /\ \A q \in retries' : q \in retries
          /\ \A q \in retries : q \in retries' \/ q.what = "fork"
      BY <1>2, <1>9, WithoutIs
    <2>2. \A q \in retries : q.what = "create" => q \in retries'
      BY <2>1
    <2>3. version \in Nat /\ version > 0 /\ version <= Len(rows["f"]) /\ "f" \in Stored
      BY <1>1, <1>3, <1>4, <1>9, AnswerIs, StoredIds
    <2>4. fork \in Shape(rows, attempt)
      <3> HIDE DEF version
      <3> QED BY <2>3, ShownLoaded
    <2> HIDE DEF fork
    <2>5. SessionsSound'
      <3> DEFINE all == <<fork>> \o sessions
      <3>1. <<fork>> \in Seq(Shape(rows, attempt)) /\ Len(<<fork>>) = 1
        BY <2>4
      <3>2. sessions \in Seq(Shape(rows, attempt))
        BY Facts
      <3>3. /\ all \in Seq(Shape(rows, attempt)) /\ Len(all) = Len(sessions) + 1
            /\ \A n \in 1 .. Len(sessions) : all[n + 1] = sessions[n]
        BY <3>1, <3>2
      <3>4. sessions' = all
        BY <1>2, <1>9
      <3> HIDE DEF all
      <3> QED BY <1>1, <3>3, <3>4 DEF SessionsSound
    <2> QED BY <1>1, <1>3, <1>6, <1>7, <2>1, <2>2, <2>5, ArriveStep
  <1> QED BY <1>8, <1>9

\* The first operation of a queue makes its call.
LEMMA SendStep ==
    ASSUME PInv, NEW k \in Keys, queue[k] # <<>>,
           NEW call \in Calls, Valid(rows, attempt, call),
           call.what = Head(queue[k]).what, call.id = Head(queue[k]).id,
           net' = [net EXCEPT ![k] = call],
           queue' \in [Keys -> Seq(Ops)],
           \A j \in Keys : DOMAIN queue'[j] = DOMAIN queue[j],
           \A j \in Keys : \A n \in DOMAIN queue[j] :
                  /\ queue'[j][n].what = queue[j][n].what /\ queue'[j][n].id = queue[j][n].id
                  /\ \/ queue'[j][n] = queue[j][n]
                     \/ OpValid(rows, attempt, j, queue'[j][n]),
           UNCHANGED <<rows, stray, attempt, retries, pressing, page, left>>, SessionsSound'
    PROVE  PInv'
  <1>1. Growth /\ RowsSound'
    BY SameGrowth
  <1>2. /\ net \in [Slots -> Calls \cup {NoCall}] /\ k \in Slots
        /\ {"create", "list", "detail"} \cup Presses \subseteq Slots
        /\ k \notin {"create", "list", "detail"} \cup Presses
    BY Typed, StoredIds, PressSlots DEF Slots
  <1>3. /\ net' \in [Slots -> Calls \cup {NoCall}] /\ net'[k] = call
        /\ \A s \in Slots : s # k => net'[s] = net[s]
    BY <1>2
  <1>4. HeadCalls'
    <2> SUFFICES ASSUME NEW j \in Keys, net'[j] # NoCall
                 PROVE  /\ queue'[j] # <<>>
                        /\ net'[j].what = Head(queue'[j]).what /\ net'[j].id = Head(queue'[j]).id
      BY DEF HeadCalls
    <2>1. j \in Slots
      BY DEF Slots
    <2>2. /\ queue[j] # <<>>
          /\ net'[j].what = Head(queue[j]).what /\ net'[j].id = Head(queue[j]).id
      BY <1>3, <2>1 DEF PInv, HeadCalls
    <2>3. 1 \in DOMAIN queue[j] /\ Head(queue[j]) = queue[j][1]
      BY <2>2, HeadIs
    <2>4. 1 \in DOMAIN queue'[j] /\ queue'[j] \in Seq(Ops)
      BY <2>3
    <2>5. queue'[j] # <<>> /\ Head(queue'[j]) = queue'[j][1]
      BY <2>4
    <2> QED BY <2>2, <2>3, <2>5
  <1>5. AttemptSound' /\ SlotKinds'
    <2>1. net[k] = NoCall \/ net[k].what # "create"
      BY HeadIs DEF Ops, EditFields
    <2>2. CreateUnderWay => CreateUnderWay'
      BY <1>3, <2>1, CreatesSame
    <2>3. AttemptSound'
      BY <2>2 DEF PInv, AttemptSound
    <2>4. SlotKinds'
      BY <1>2, <1>3 DEF PInv, CallsValid, SlotKinds
    <2> QED BY <2>3, <2>4
  <1>7. \A s \in Slots : net'[s] = net[s] \/ Valid(rows', attempt', net'[s])
    BY <1>3
  <1>8. \A j \in Keys : \A n \in DOMAIN queue'[j] :
                  \/ \E m \in DOMAIN queue[j] : queue'[j][n] = queue[j][m]
                  \/ OpValid(rows', attempt', j, queue'[j][n])
    OBVIOUS
  <1> QED BY <1>1, <1>3, <1>4, <1>5, <1>7, <1>8, RetriesSame, PageSame, TabStep

\* An operation is given up.
LEMMA GiveUpStep ==
    ASSUME PInv, NEW k \in Keys, queue[k] # <<>>, net[k] = NoCall, queue' = Popped(k),
           UNCHANGED <<rows, stray, net, sessions, attempt, pressing, load, selected, left>>,
           retries' = retries \/ retries' = Without("fork", "c")
    PROVE  PInv'
  <1>1. net' = [net EXCEPT ![k] = NoCall]
    BY Typed
  <1>2. AttemptKnows
    BY DEF AttemptKnows
  <1>3. SessionsSound'
    BY DEF PInv, SessionsSound
  <1>4. /\ OneRetryPerKey' /\ retries' \in SUBSET Retry
        /\ \A q \in retries' : q \in retries
        /\ \A q \in retries : q \in retries' \/ q.what = "fork"
    <2>1. CASE retries' = retries
      BY <2>1, Typed DEF PInv, OneRetryPerKey
    <2>2. CASE retries' = Without("fork", "c")
      BY <2>2, WithoutIs
    <2> QED BY <2>1, <2>2
  <1>5. \A q \in retries : q.what = "create" => q \in retries'
    BY <1>4
  <1> QED BY <1>1, <1>2, <1>3, <1>4, <1>5, ArriveStep

LEMMA StartEditStep ==
    ASSUME PInv, NEW k \in Keys, queue[k] # <<>>, net[k] = NoCall,
           Head(queue[k]).what \in EditFields, StartEdit(k, Head(queue[k])),
           UNCHANGED <<rows, stray, attempt, pressing, load, selected, left>>
    PROVE  PInv'
  <1> DEFINE op == Head(queue[k])
             first == First(op.id)
             base == IF op.waits THEN [first EXCEPT ![op.what] = op.base[op.what]] ELSE op.base
             call == Call(op.what, op.id, op.value, 0, base.version)
             Image(s) == IF s.id = op.id
                         THEN [s EXCEPT !.sync = "saving", ![op.what] = op.value] ELSE s
  <1>1. /\ op \in Ops /\ OpValid(rows, attempt, k, op) /\ 1 \in DOMAIN queue[k]
        /\ op = queue[k][1]
    BY HeadIs
  <1>2. /\ op.what \in {"title", "archived"} /\ op.base \in Base(rows, attempt, op)
        /\ op.id \in Keys /\ op.value \in Values
        /\ (op.what = "title" => op.value \in Titles) /\ (op.what = "archived" => op.value = "yes")
    BY <1>1 DEF OpValid, Carries, EditFields, Ops
  <1>4. CASE Sessions(op.id) = {}
    BY <1>4, GiveUpStep DEF StartEdit
  <1>5. CASE Sessions(op.id) # {}
    <2>1. /\ queue' = [queue EXCEPT ![k][1].base = base]
          /\ sessions' = [n \in DOMAIN sessions |-> Image(sessions[n])]
          /\ net' = [net EXCEPT ![k] = call]
          /\ UNCHANGED retries
      BY <1>5 DEF StartEdit, Mapped
    <2>2. first \in Shape(rows, attempt) /\ first \in Session /\ first.id = op.id
      BY <1>5, FirstIs
    <2>3. base \in Base(rows, attempt, op) /\ base \in Session
      <3>1. op.base \in Session /\ op.base.id = op.id
        BY <1>2 DEF Base
      <3> HIDE DEF first
      <3>2. CASE op.waits
        <4> DEFINE b == [first EXCEPT ![op.what] = op.base[op.what]]
        <4>1. b \in Session /\ b.id = first.id /\ b.messages = first.messages
              /\ b.sync = first.sync /\ b.version = first.version
              /\ b.transcript = first.transcript
          <5>1. CASE op.what = "title"
            BY <2>2, <3>1, <5>1 DEF Session
          <5>2. CASE op.what = "archived"
            BY <2>2, <3>1, <5>2 DEF Session
          <5> QED BY <1>2, <5>1, <5>2
        <4> HIDE DEF b
        <4>2. b \in Base(rows, attempt, op)
          BY <1>2, <2>2, <4>1, StoredIds DEF Base, Shape, HeldIn
        <4> QED BY <3>2, <4>1, <4>2 DEF b
      <3>3. CASE ~op.waits
        BY <1>2, <3>1, <3>3
      <3> QED BY <3>2, <3>3
    <2> HIDE DEF base, first
    <2>4. \A n \in DOMAIN sessions : /\ Image(sessions[n]) \in Shape(rows, attempt)
                                     /\ Image(sessions[n]).id = sessions[n].id
      <3> TAKE n \in DOMAIN sessions
      <3>1. sessions[n] \in Shape(rows, attempt) /\ sessions[n] \in Session
        BY SessionIs
      <3> DEFINE t == [sessions[n] EXCEPT !.sync = "saving", ![op.what] = op.value]
      <3>2. t \in Session /\ t.id = sessions[n].id /\ t.messages = sessions[n].messages
            /\ t.sync # "saved" /\ t.version = sessions[n].version
        <4>1. CASE op.what = "title"
          BY <1>2, <3>1, <4>1 DEF Session
        <4>2. CASE op.what = "archived"
          BY <1>2, <3>1, <4>2 DEF Session
        <4> QED BY <1>2, <4>1, <4>2
      <3> HIDE DEF t
      <3>3. t \in Shape(rows, attempt)
        BY <3>1, <3>2, ReShaped, Facts DEF Attempts
      <3> QED BY <3>1, <3>2, <3>3 DEF t
    <2> HIDE DEF Image
    <2>5. SessionsSound'
      BY <2>1, <2>4, SessionsMapped
    <2>6. /\ call \in Calls /\ call.what = op.what /\ call.id = op.id /\ call.value = op.value
          /\ call.phase = "sent" /\ call.outcome = "none"
      <3>1. op.what \in Kinds /\ op.id \in Ids /\ base.version \in Nat
        BY <1>2, <2>3, StoredIds DEF Session, Fields, Kinds, Ids
      <3>2. call = Call(op.what, op.id, op.value, 0, base.version)
        OBVIOUS
      <3> HIDE DEF call, op
      <3> QED BY <1>2, <3>1, <3>2, SentCall
    <2> HIDE DEF call
    <2>7. Valid(rows, attempt, call)
      BY <1>2, <2>6 DEF Valid, Carries, EditFields
    <2> DEFINE moved == [op EXCEPT !.base = base]
    <2>8. /\ moved \in Ops /\ moved.what = op.what /\ moved.id = op.id /\ moved.value = op.value
          /\ moved.base = base /\ moved.key = op.key
      BY <1>1, <2>3 DEF Ops
    <2>9. queue' = [queue EXCEPT ![k] = [queue[k] EXCEPT ![1] = moved]]
      BY <1>1, <2>1
    <2> HIDE DEF moved
    <2>10. OpValid(rows, attempt, k, moved)
      BY <1>1, <2>3, <2>8 DEF OpValid, Carries, Base
    <2>11. queue \in [Keys -> Seq(Ops)]
      BY Typed
    <2>12. [queue[k] EXCEPT ![1] = moved] \in Seq(Ops)
           /\ DOMAIN [queue[k] EXCEPT ![1] = moved] = DOMAIN queue[k]
           /\ [queue[k] EXCEPT ![1] = moved][1] = moved
           /\ \A n \in DOMAIN queue[k] : n # 1 => [queue[k] EXCEPT ![1] = moved][n] = queue[k][n]
      BY <1>1, <2>8, <2>11
    <2>13. queue' \in [Keys -> Seq(Ops)] /\ queue'[k] = [queue[k] EXCEPT ![1] = moved]
           /\ \A j \in Keys : j # k => queue'[j] = queue[j]
      BY <2>9, <2>11, <2>12
    <2>14. /\ \A j \in Keys : DOMAIN queue'[j] = DOMAIN queue[j]
           /\ \A j \in Keys : \A n \in DOMAIN queue[j] :
                  /\ queue'[j][n].what = queue[j][n].what /\ queue'[j][n].id = queue[j][n].id
                  /\ \/ queue'[j][n] = queue[j][n]
                     \/ OpValid(rows, attempt, j, queue'[j][n])
      BY <1>1, <2>8, <2>10, <2>12, <2>13
    <2>15. UNCHANGED <<page>>
      BY <2>1 DEF page
    <2> QED BY <2>1, <2>5, <2>6, <2>7, <2>13, <2>14, <2>15, SendStep
  <1> QED BY <1>4, <1>5

\* Nothing of a queue is different.
LEMMA SameOps ==
    ASSUME PInv, queue' = queue
    PROVE  /\ queue' \in [Keys -> Seq(Ops)]
           /\ \A j \in Keys : DOMAIN queue'[j] = DOMAIN queue[j]
           /\ \A j \in Keys : \A n \in DOMAIN queue[j] :
                  /\ queue'[j][n].what = queue[j][n].what /\ queue'[j][n].id = queue[j][n].id
                  /\ queue'[j][n] = queue[j][n]
  BY Typed

LEMMA StartStep ==
    ASSUME PInv, NEW k \in Keys, Start(k)
    PROVE  PInv'
  <1> DEFINE op == Head(queue[k])
  <1>1. /\ queue[k] # <<>> /\ net[k] = NoCall
        /\ UNCHANGED <<rows, stray, attempt, pressing, load, selected, left>>
    BY DEF Start, page
  <1>2. op \in Ops /\ OpValid(rows, attempt, k, op)
    BY <1>1, HeadIs
  <1>3. CASE op.what \in {"title", "archived"}
    BY <1>1, <1>3, StartEditStep DEF Start, EditFields
  <1>4. CASE op.what = "fork"
    <2> DEFINE call == Call("fork", "c", op.value, op.key, 0)
    <2>1. StartFork(k, op)
      BY <1>4 DEF Start
    <2>2. op.id = "c" /\ op.value \in Titles /\ op.key \in Nat
      BY <1>2, <1>4 DEF OpValid, Carries, Ops
    <2>3. CASE CanFork(op.key)
      <3>1. /\ net' = [net EXCEPT ![k] = call]
            /\ UNCHANGED <<queue, retries, sessions>>
        BY <2>1, <2>3 DEF StartFork
      <3>2. rows["c"] # <<>> /\ Says(Final(rows, "c").messages, op.key)
        BY <2>3, DurableIs DEF CanFork
      <3>3. /\ call \in Calls /\ call.what = "fork" /\ call.id = "c" /\ call.value = op.value
            /\ call.key = op.key /\ call.phase = "sent" /\ call.outcome = "none"
        <4>1. "c" \in Ids /\ "fork" \in Kinds /\ op.value \in Values
          BY <2>2, StoredIds DEF Values, Ids, Kinds
        <4>2. call = Call("fork", "c", op.value, op.key, 0)
          OBVIOUS
        <4> HIDE DEF call, op
        <4> QED BY <2>2, <4>1, <4>2, SentCall
      <3> HIDE DEF call
      <3>4. Valid(rows, attempt, call)
        BY <2>2, <3>2, <3>3 DEF Valid, Carries, EditFields
      <3>5. SessionsSound' /\ UNCHANGED page
        BY <1>1, <3>1 DEF PInv, SessionsSound, page
      <3> QED BY <1>1, <1>4, <2>2, <3>1, <3>3, <3>4, <3>5, SameOps, SendStep
    <2>4. CASE ~CanFork(op.key)
      BY <1>1, <2>1, <2>4, Typed, GiveUpStep DEF StartFork
    <2> QED BY <2>3, <2>4
  <1>5. CASE op.what \notin {"title", "archived", "fork"}
    <2> DEFINE call == Call(op.what, "c", op.value, op.key, attempt.canonical)
    <2>1. /\ net' = [net EXCEPT ![k] = call]
          /\ UNCHANGED <<queue, sessions, retries>>
      BY <1>5 DEF Start
    <2>2. op.what \in {"append", "status"}
      BY <1>2, <1>5 DEF Ops, EditFields
    <2>3. /\ op.id = "c" /\ attempt.canonical > 0
          /\ op.what = "append" => op.key > 0 /\ attempt.answered
          /\ op.what = "status" => op.value = "failed" /\ attempt.target = "failed"
      BY <1>2, <2>2, OutcomeOpIs
    <2>4. /\ call \in Calls /\ call.what = op.what /\ call.id = "c" /\ call.value = op.value
          /\ call.key = op.key /\ call.phase = "sent" /\ call.outcome = "none"
      <3>1. op.what \in Kinds /\ "c" \in Ids /\ op.value \in Values /\ op.key \in Nat
            /\ attempt.canonical \in Nat
        BY <1>2, <2>2, StoredIds, Facts DEF Ops, Fields, Attempts, Kinds, Ids
      <3>2. call = Call(op.what, "c", op.value, op.key, attempt.canonical)
        OBVIOUS
      <3> HIDE DEF call, op
      <3> QED BY <3>1, <3>2, SentCall
    <2> HIDE DEF call
    <2>5. Valid(rows, attempt, call)
      BY <2>2, <2>3, <2>4 DEF Valid, Carries, EditFields
    <2>6. SessionsSound' /\ UNCHANGED page
      BY <1>1, <2>1 DEF PInv, SessionsSound, page
    <2> QED BY <1>1, <2>1, <2>3, <2>4, <2>5, <2>6, SameOps, SendStep
  <1> QED BY <1>3, <1>4, <1>5

-----------------------------------------------------------------------------
(* Presses.                                                                *)

LEMMA PressStep ==
    ASSUME PInv, NEW r \in retries, Press(r)
    PROVE  PInv'
  <1> DEFINE free == {q \in Presses : pressing[q] = NoRetry}
             p == CHOOSE q \in free : TRUE
             call == Call("get", "c", "none", 0, 0)
  <1>1. /\ free # {} /\ pressing' = [pressing EXCEPT ![p] = r]
        /\ net' = IF r.refresh THEN [net EXCEPT ![p] = call] ELSE net
        /\ left.presses > 0 /\ left' = [left EXCEPT !.presses = @ - 1]
        /\ UNCHANGED <<rows, stray, sessions, attempt, queue, retries, load, selected>>
    BY DEF Press, page
  <1>2. p \in Presses /\ pressing[p] = NoRetry
    BY <1>1
  <1> HIDE DEF free, p
  <1>3. r \in Retry /\ RetryValid(attempt, r) /\ r.refresh \in BOOLEAN /\ r # NoRetry
    <2>1. r \in Retry /\ RetryValid(attempt, r)
      BY Typed DEF PInv, RetriesValid
    <2>2. r.refresh \in BOOLEAN /\ r.what # "none"
      BY <2>1 DEF Retry, Fields
    <2> QED BY <2>1, <2>2 DEF NoRetry
  <1>4. /\ pressing' \in [Presses -> Retry \cup {NoRetry}] /\ pressing'[p] = r
        /\ \A q \in Presses : q # p => pressing'[q] = pressing[q]
    BY <1>1, <1>2, <1>3, Typed
  <1>5. call \in Calls /\ Valid(rows, attempt, call) /\ call.what = "get" /\ call.id = "c"
    BY GetIs, StoredIds
  <1> HIDE DEF call
  <1>6. /\ net \in [Slots -> Calls \cup {NoCall}] /\ p \in Slots
        /\ {"create", "list", "detail"} \cup Presses \subseteq Slots
        /\ p \notin Keys /\ p # "create" /\ p # "list" /\ p # "detail"
        /\ \A k \in Keys : k \in Slots
    BY <1>2, Typed, StoredIds, PressSlots DEF Slots
  <1>7. net[p] = NoCall
    BY <1>2 DEF PInv, CallsValid, SlotKinds
  <1>8. /\ net' \in [Slots -> Calls \cup {NoCall}]
        /\ \A s \in Slots : s # p => net'[s] = net[s]
        /\ IF r.refresh THEN net'[p] = call ELSE net'[p] = NoCall
    BY <1>1, <1>3, <1>5, <1>6, <1>7
  <1>9. Growth /\ RowsSound'
    BY <1>1, SameGrowth
  <1>10. SlotKinds'
    BY <1>3, <1>4, <1>5, <1>6, <1>8 DEF PInv, CallsValid, SlotKinds
  <1>11. AttemptSound'
    <2>1. CreateUnderWay => CreateUnderWay'
      BY <1>1, <1>7, <1>8, CreatesSame
    <2> QED BY <1>1, <2>1 DEF PInv, AttemptSound
  <1>12. SessionsSound' /\ OneRetryPerKey' /\ retries' \in SUBSET Retry
    BY <1>1, Typed DEF PInv, SessionsSound, OneRetryPerKey
  <1>13. /\ queue' \in [Keys -> Seq(Ops)] /\ HeadCalls'
         /\ \A j \in Keys : \A n \in DOMAIN queue'[j] :
                \E m \in DOMAIN queue[j] : queue'[j][n] = queue[j][m]
    BY <1>1, <1>6, <1>8, QueueSame
  <1>14. \A s \in Slots : \/ net'[s] = net[s] \/ net'[s] = NoCall
                          \/ Valid(rows', attempt', net'[s])
    BY <1>1, <1>3, <1>5, <1>8
  <1>15. /\ load' \in {"failed", "loading", "loaded"} /\ selected' \in Stored \cup {"none"}
         /\ left' \in Left
    <2>1. left \in Left /\ load \in {"failed", "loading", "loaded"}
          /\ selected \in Stored \cup {"none"}
      BY Typed
    <2> QED BY <1>1, <2>1 DEF Left
  <1>16. \A q \in Presses : pressing'[q] = pressing[q] \/ RetryValid(attempt', pressing'[q])
    BY <1>1, <1>3, <1>4
  <1> QED BY <1>1, <1>4, <1>8, <1>9, <1>10, <1>11, <1>12, <1>13, <1>14, <1>15, <1>16, TabStep

LEMMA RefreshArrivesStep ==
    ASSUME PInv, NEW p \in Presses, RefreshArrives(p)
    PROVE  PInv'
  <1> DEFINE r == pressing[p]
             version == net[p].seen["c"]
             following == FollowedBy(r.queue, 1)
             preserve == r.what = "append"
             Taken(s) == IF s.id = "c" \/ (attempt.canonical > 0 /\ s.id = "local")
                         THEN Reconciled("c", version, s, s.status, following, preserve) ELSE s
  <1>1. /\ Arrived(p) /\ net[p].what = "get" /\ net' = [net EXCEPT ![p] = NoCall]
        /\ UNCHANGED <<rows, stray, queue, page, left>>
    BY DEF RefreshArrives
  <1>2. /\ ~Ok(p) => /\ retries' = With(r) /\ pressing' = [pressing EXCEPT ![p] = NoRetry]
                     /\ attempt' = attempt /\ sessions' = sessions
        /\ Ok(p) =>
             /\ attempt' = IF attempt.canonical > 0
                           THEN [attempt EXCEPT !.canonical = KnownAs(version)] ELSE attempt
             /\ sessions' = Deduped([n \in DOMAIN sessions |-> Taken(sessions[n])])
             /\ pressing' = pressing /\ retries' = retries
    BY DEF RefreshArrives, Mapped
  <1>3. /\ net \in [Slots -> Calls \cup {NoCall}] /\ p \in Slots
        /\ {"create", "list", "detail"} \cup Presses \subseteq Slots
        /\ p \notin Keys /\ p # "create" /\ p # "list" /\ p # "detail"
        /\ \A k \in Keys : k \in Slots
    BY Typed, StoredIds, PressSlots DEF Slots
  <1>4. net[p] # NoCall
    BY <1>1, <1>3, AnswerIs
  <1>5. /\ net[p].id = "c" /\ r # NoRetry /\ r \in Retry /\ r.refresh
        /\ RetryValid(attempt, r) /\ r.what # "create"
    <2>1. net[p].id = "c" /\ r # NoRetry /\ r.refresh
      BY <1>1, <1>4 DEF PInv, CallsValid, SlotKinds
    <2>2. r \in Retry /\ RetryValid(attempt, r)
      BY <2>1, Typed DEF PInv, RetriesValid
    <2> HIDE DEF r
    <2> QED BY <2>1, <2>2 DEF RetryValid
  <1>6. Ok(p) => version \in Nat /\ version > 0 /\ version <= Len(rows["c"])
    <2> SUFFICES ASSUME Ok(p)
                 PROVE  version \in Nat /\ version > 0 /\ version <= Len(rows["c"])
      OBVIOUS
    <2> QED BY <1>1, <1>3, <1>5, AnswerIs, StoredIds
  <1>7. AttemptKnows
    <2>1. CASE Ok(p) /\ attempt.canonical > 0
      BY <1>2, <1>6, <2>1, KnownIs
    <2>2. CASE ~(Ok(p) /\ attempt.canonical > 0)
      BY <1>2, <2>2 DEF AttemptKnows
    <2> QED BY <2>1, <2>2
  <1>8. SessionsSound'
    <2>1. CASE ~Ok(p)
      BY <1>1, <1>2, <2>1 DEF PInv, SessionsSound
    <2>2. CASE Ok(p)
      <3>1. following \in BOOLEAN /\ preserve \in BOOLEAN
        BY DEF FollowedBy
      <3> DEFINE mapped == [n \in DOMAIN sessions |-> Taken(sessions[n])]
      <3> HIDE DEF version, following, preserve
      <3>2. \A n \in DOMAIN sessions : /\ mapped[n] \in Shape(rows, attempt)
                                       /\ mapped[n].id = sessions[n].id
        <4> TAKE n \in DOMAIN sessions
        <4>1. sessions[n] \in Shape(rows, attempt) /\ sessions[n] \in Session
              /\ (sessions[n].id = "local" => attempt.canonical = 0)
          BY SessionIs
        <4>2. CASE sessions[n].id = "c"
          <5> DEFINE s == sessions[n]
                     status == s.status
          <5>1. mapped[n] = Reconciled("c", version, s, status, following, preserve)
            BY <4>2
          <5>2. s.id = "c" /\ s \in Shape(rows, attempt) /\ status \in {"running", "idle", "failed"}
            BY <4>1, <4>2 DEF Session
          <5> HIDE DEF s, status
          <5>3. /\ Reconciled("c", version, s, status, following, preserve) \in Shape(rows, attempt)
                /\ Reconciled("c", version, s, status, following, preserve).id = "c"
            BY <1>6, <2>2, <3>1, <5>2, ReconciledIs
          <5> QED BY <4>2, <5>1, <5>3
        <4>3. CASE sessions[n].id # "c"
          BY <4>1, <4>3
        <4> QED BY <4>2, <4>3
      <3>3. mapped = [n \in DOMAIN sessions |-> mapped[n]] /\ sessions' = Deduped(mapped)
        BY <1>2, <2>2
      <3> HIDE DEF mapped
      <3> QED BY <1>1, <1>7, <3>2, <3>3, SessionsArrive
    <2> QED BY <2>1, <2>2
  <1> HIDE DEF Taken
  <1>9. Growth /\ RowsSound' /\ (attempt'.canonical > 0 <=> attempt.canonical > 0)
    BY <1>1, <1>7, KnowsGrowth
  <1>10. /\ net' \in [Slots -> Calls \cup {NoCall}] /\ net'[p] = NoCall
         /\ \A s \in Slots : s # p => net'[s] = net[s]
    BY <1>1, <1>3
  <1>11. /\ pressing' \in [Presses -> Retry \cup {NoRetry}]
         /\ \A q \in Presses : \/ pressing'[q] = pressing[q]
                               \/ q = p /\ pressing'[q] = NoRetry
    <2>1. CASE pressing' = pressing
      BY <2>1, Typed
    <2>2. CASE pressing' = [pressing EXCEPT ![p] = NoRetry]
      BY <2>2, Typed
    <2> QED BY <1>2, <2>1, <2>2
  <1>12. /\ OneRetryPerKey' /\ retries' \in SUBSET Retry
         /\ \A q \in retries : q.what = "create" => q \in retries'
         /\ \A q \in retries' : q \in retries \/ RetryValid(attempt', q)
    <2>1. CASE Ok(p)
      BY <1>2, <2>1, Typed DEF PInv, OneRetryPerKey
    <2>2. CASE ~Ok(p)
      <3>1. retries' = With(r) /\ attempt' = attempt
        BY <1>2, <2>2
      <3> HIDE DEF r
      <3>2. /\ OneRetryPerKey' /\ retries' \in SUBSET Retry
            /\ \A q \in retries' : q \in retries \/ q = r
            /\ \A q \in retries : q \in retries' \/ Same(q, r)
        BY <1>5, <3>1, WithIs
      <3> QED BY <1>5, <3>1, <3>2 DEF Same
    <2> QED BY <2>1, <2>2
  <1>13. CreateUnderWay => CreateUnderWay'
    BY <1>1, <1>10, <1>12, CreatesSame
  <1>14. AttemptSound'
    BY <1>1, <1>7, <1>13, KnowsAttempt
  <1>15. SlotKinds'
    BY <1>3, <1>10, <1>11 DEF PInv, CallsValid, SlotKinds
  <1>16. /\ queue' \in [Keys -> Seq(Ops)] /\ HeadCalls'
         /\ \A j \in Keys : \A n \in DOMAIN queue'[j] :
                \E m \in DOMAIN queue[j] : queue'[j][n] = queue[j][m]
    BY <1>1, <1>3, <1>10, QueueSame
  <1>17. \A s \in Slots : net'[s] = net[s] \/ net'[s] = NoCall
    BY <1>10
  <1> QED BY <1>1, <1>8, <1>9, <1>10, <1>11, <1>12, <1>14, <1>15, <1>16, <1>17, PageSame, TabStep

\* The retry that was pressed, at its turn
LEMMA RedoIs ==
    ASSUME PInv, NEW p \in Presses, Redo(p)
    PROVE  /\ pressing[p] \in Retry /\ RetryValid(attempt, pressing[p]) /\ net[p] = NoCall
           /\ UNCHANGED <<rows, stray, attempt, page, left>>
           /\ pressing' = [pressing EXCEPT ![p] = NoRetry] =>
                 /\ pressing' \in [Presses -> Retry \cup {NoRetry}]
                 /\ \A q \in Presses : pressing'[q] = pressing[q] \/ pressing'[q] = NoRetry
                 /\ net' = net => SlotKinds'
  <1>1. /\ pressing[p] # NoRetry /\ net[p] = NoCall
        /\ UNCHANGED <<rows, stray, attempt, page, left>>
    BY DEF Redo
  <1>2. pressing[p] \in Retry /\ RetryValid(attempt, pressing[p])
    BY <1>1, Typed DEF PInv, RetriesValid
  <1>3. pressing' = [pressing EXCEPT ![p] = NoRetry] =>
            /\ pressing' \in [Presses -> Retry \cup {NoRetry}]
            /\ \A q \in Presses : \/ pressing'[q] = pressing[q]
                                  \/ q = p /\ pressing'[q] = NoRetry
    BY Typed
  <1>4. pressing' = [pressing EXCEPT ![p] = NoRetry] /\ net' = net => SlotKinds'
    BY <1>1, <1>3 DEF PInv, CallsValid, SlotKinds
  <1> QED BY <1>1, <1>2, <1>3, <1>4

\* A retry becomes an operation of its queue.
LEMMA RedoQueued ==
    ASSUME PInv, NEW p \in Presses, Redo(p), NEW k \in Keys, NEW op \in Ops,
           OpValid(rows, attempt, k, op), queue' = Enqueued(k, op),
           pressing' = [pressing EXCEPT ![p] = NoRetry],
           UNCHANGED net, SessionsSound', OneRetryPerKey', retries' \in SUBSET Retry,
           \A q \in retries' : q \in retries,
           \A q \in retries : q.what = "create" => q \in retries'
    PROVE  PInv'
  <1>1. /\ UNCHANGED <<rows, stray, attempt, page, left>>
        /\ pressing' \in [Presses -> Retry \cup {NoRetry}]
        /\ \A q \in Presses : pressing'[q] = pressing[q] \/ pressing'[q] = NoRetry
        /\ SlotKinds'
    BY RedoIs
  <1>2. Growth /\ RowsSound'
    BY <1>1, SameGrowth
  <1>3. /\ queue' \in [Keys -> Seq(Ops)] /\ HeadCalls'
        /\ \A j \in Keys : \A n \in DOMAIN queue'[j] :
                  \/ \E m \in DOMAIN queue[j] : queue'[j][n] = queue[j][m]
                  \/ OpValid(rows', attempt', j, queue'[j][n])
    BY <1>1, EnqueueKeeps
  <1>4. AttemptSound'
    <2>1. CreateUnderWay => CreateUnderWay'
      BY CreatesSame
    <2> QED BY <1>1, <2>1 DEF PInv, AttemptSound
  <1>5. net' \in [Slots -> Calls \cup {NoCall}]
    BY Typed
  <1> QED BY <1>1, <1>2, <1>3, <1>4, <1>5, PageSame, TabStep

LEMMA RedoCreateStep ==
    ASSUME PInv, NEW p \in Presses, Redo(p), pressing[p].what = "create", RedoCreate(p)
    PROVE  PInv'
  <1> DEFINE call == Call("create", "c", FirstTitle, 0, 0)
             none == 0
  <1>1. /\ pressing[p] \in Retry /\ RetryValid(attempt, pressing[p]) /\ net[p] = NoCall
        /\ UNCHANGED <<rows, stray, attempt, page, left>>
    BY RedoIs
  <1>2. /\ net' = [net EXCEPT ![p] = call] /\ UNCHANGED <<queue, retries, pressing>>
    BY DEF RedoCreate
  <1>3. sessions' = [n \in DOMAIN sessions |-> IF sessions[n].id = "local"
                        THEN [sessions[n] EXCEPT !.sync = "saving"] ELSE sessions[n]]
    BY DEF RedoCreate, Mapped
  <1>4. pressing[p] # NoRetry
    BY DEF Redo
  <1>5. attempt.begun /\ attempt.canonical \in Nat
    BY <1>1, Facts DEF RetryValid, Attempts
  <1>6. Growth /\ RowsSound'
    BY <1>1, SameGrowth
  <1>7. call \in Calls /\ call # NoCall /\ Valid(rows, attempt, call) /\ call.what = "create"
        /\ call.id = "c"
    <2>1. /\ "create" \in Kinds /\ "c" \in Ids /\ FirstTitle \in Values /\ none \in Nat
          /\ call = Call("create", "c", FirstTitle, none, none)
      BY TitlesAssumption DEF Kinds, Ids, Values, Stored
    <2> HIDE DEF call, none
    <2>2. /\ call \in Calls /\ call # NoCall
          /\ call.what = "create" /\ call.id = "c" /\ call.phase = "sent" /\ call.outcome = "none"
      BY <2>1, SentCall
    <2> QED BY <1>5, <2>2 DEF Valid, Carries, Fields
  <1> HIDE DEF call
  <1>8. /\ net \in [Slots -> Calls \cup {NoCall}] /\ p \in Slots
        /\ {"create", "list", "detail"} \cup Presses \subseteq Slots
        /\ p \notin Keys /\ p # "create" /\ p # "list" /\ p # "detail"
        /\ \A k \in Keys : k \in Slots
    BY Typed, StoredIds, PressSlots DEF Slots
  <1>9. /\ net' \in [Slots -> Calls \cup {NoCall}] /\ net'[p] = call
        /\ \A s \in Slots : s # p => net'[s] = net[s]
    BY <1>2, <1>7, <1>8
  <1>10. SlotKinds'
    BY <1>2, <1>4, <1>7, <1>8, <1>9 DEF PInv, CallsValid, SlotKinds
  <1>12. AttemptSound'
    <2>1. CreateUnderWay'
      BY <1>7, <1>8, <1>9 DEF CreateUnderWay
    <2> QED BY <1>1, <2>1 DEF PInv, AttemptSound
  <1>13. SessionsSound'
    <2>1. \A n \in DOMAIN sessions : /\ sessions'[n] \in Shape(rows, attempt)
                                     /\ sessions'[n].id = sessions[n].id
      <3> TAKE n \in DOMAIN sessions
      <3>1. sessions[n] \in Shape(rows, attempt) /\ sessions[n] \in Session
        BY SessionIs
      <3>2. CASE sessions[n].id # "local"
        BY <1>3, <3>1, <3>2
      <3>3. CASE sessions[n].id = "local"
        <4> DEFINE s == sessions[n]
                   t == [s EXCEPT !.sync = "saving"]
        <4>1. /\ t \in Session /\ t.id = s.id /\ t.messages = s.messages /\ t.sync = "saving"
              /\ t.version = s.version
          BY <3>1 DEF Session
        <4>2. sessions'[n] = t
          BY <1>3, <3>3
        <4> HIDE DEF t
        <4>3. t \in Shape(rows, attempt)
          BY <1>5, <3>1, <4>1, ReShaped
        <4> QED BY <4>1, <4>2, <4>3
      <3> QED BY <3>2, <3>3
    <2> QED BY <1>1, <1>3, <2>1, SessionsMapped
  <1>14. OneRetryPerKey' /\ retries' \in SUBSET Retry
    BY <1>2, Typed DEF PInv, OneRetryPerKey
  <1>15. /\ queue' \in [Keys -> Seq(Ops)] /\ HeadCalls'
         /\ \A j \in Keys : \A n \in DOMAIN queue'[j] :
                \E m \in DOMAIN queue[j] : queue'[j][n] = queue[j][m]
    BY <1>2, <1>8, <1>9, QueueSame
  <1>16. \A s \in Slots : net'[s] = net[s] \/ Valid(rows', attempt', net'[s])
    BY <1>1, <1>7, <1>9
  <1> QED BY <1>1, <1>2, <1>6, <1>9, <1>10, <1>12, <1>13, <1>14, <1>15, <1>16,
             PageSame, Typed, TabStep

LEMMA RedoEditStep ==
    ASSUME PInv, NEW p \in Presses, Redo(p), pressing[p].what \in EditFields,
           RedoEdit(pressing[p]), pressing' = [pressing EXCEPT ![p] = NoRetry], UNCHANGED net
    PROVE  PInv'
  <1> DEFINE r == pressing[p]
             field == r.what
             id == r.id
             value == r.value
             op == EditOp(id, field, value)
             k == MutationKey(id)
  <1>1. /\ RetryValid(attempt, r) /\ UNCHANGED <<rows, stray, attempt, page, left>>
        /\ pressing' \in [Presses -> Retry \cup {NoRetry}]
        /\ \A q \in Presses : pressing'[q] = pressing[q] \/ pressing'[q] = NoRetry
        /\ SlotKinds'
    BY RedoIs
  <1>3. /\ field \in EditFields /\ id \in Keys /\ field # "create"
        /\ field = "title" => value \in Titles
        /\ field = "archived" => value = "yes"
    BY <1>1 DEF RetryValid, EditFields
  <1>4. CASE Sessions(id) = {}
    <2>1. UNCHANGED <<retries, sessions, queue>>
      BY <1>4 DEF RedoEdit
    <2>2. Growth /\ RowsSound'
      BY <1>1, SameGrowth
    <2>4. CreateUnderWay => CreateUnderWay'
      BY <2>1, CreatesSame
    <2>5. AttemptSound'
      BY <1>1, <2>4 DEF PInv, AttemptSound
    <2>6. SessionsSound' /\ OneRetryPerKey' /\ retries' \in SUBSET Retry
      BY <1>1, <2>1, Typed DEF PInv, SessionsSound, OneRetryPerKey
    <2>7. /\ queue' \in [Keys -> Seq(Ops)] /\ HeadCalls'
          /\ \A j \in Keys : \A n \in DOMAIN queue'[j] :
                \E m \in DOMAIN queue[j] : queue'[j][n] = queue[j][m]
      BY <2>1, QueueSame
    <2>8. net' \in [Slots -> Calls \cup {NoCall}]
      BY Typed
    <2> QED BY <1>1, <2>1, <2>2, <2>5, <2>6, <2>7, <2>8, PageSame, TabStep
  <1>5. CASE Sessions(id) # {}
    <2>1. EditOf(id, field, value)
      BY <1>5 DEF RedoEdit
    <2>2. UNCHANGED <<rows, attempt>>
      BY <1>1
    <2> HIDE DEF r, field, id, value
    <2>3. op \in Ops /\ k \in Keys /\ OpValid(rows, attempt, k, op)
      BY <1>3, <1>5, <2>2, EditOpIs
    <2>4. /\ SessionsSound' /\ OneRetryPerKey' /\ retries' \in SUBSET Retry
          /\ queue' = Enqueued(k, op) /\ \A q \in retries' : q \in retries
          /\ \A q \in retries : q \in retries' \/ q.what = field
      BY <1>3, <1>5, <2>1, <2>2, EditOfIs
    <2>5. \A q \in retries : q.what = "create" => q \in retries'
      BY <1>3, <2>4
    <2> HIDE DEF op, k
    <2> QED BY <2>3, <2>4, <2>5, RedoQueued
  <1> QED BY <1>4, <1>5

\* What is shown is marked as being saved.
LEMMA SyncSound ==
    ASSUME PInv, NEW sync \in {"saving", "unsaved"}, sessions' = WithSync(sync),
           UNCHANGED <<rows, attempt>>
    PROVE  SessionsSound'
  <1>1. sessions' = [n \in DOMAIN sessions |-> IF IsAttempt(sessions[n])
                        THEN [sessions[n] EXCEPT !.sync = sync] ELSE sessions[n]]
    BY DEF WithSync, Mapped
  <1>2. \A n \in DOMAIN sessions : /\ sessions'[n] \in Shape(rows, attempt)
                                   /\ sessions'[n].id = sessions[n].id
    <2> TAKE n \in DOMAIN sessions
    <2>1. sessions[n] \in Shape(rows, attempt) /\ sessions[n] \in Session
      BY SessionIs
    <2>2. CASE ~IsAttempt(sessions[n])
      BY <1>1, <2>1, <2>2
    <2>3. CASE IsAttempt(sessions[n])
      <3> DEFINE s == sessions[n]
                 t == [s EXCEPT !.sync = sync]
      <3>1. t \in Session /\ t.id = s.id /\ t.messages = s.messages /\ t.sync # "saved"
            /\ t.version = s.version
        BY <2>1 DEF Session
      <3>2. sessions'[n] = t
        BY <1>1, <2>3
      <3>3. attempt.canonical \in Nat
        BY Facts DEF Attempts
      <3> HIDE DEF t
      <3>4. t \in Shape(rows, attempt)
        BY <2>1, <3>1, <3>3, ReShaped
      <3> QED BY <3>1, <3>2, <3>4
    <2> QED BY <2>2, <2>3
  <1> QED BY <1>1, <1>2, SessionsMapped

LEMMA RedoCallStep ==
    ASSUME PInv, NEW p \in Presses, Redo(p), pressing[p].what \in {"append", "status", "fork"},
           RedoCall(pressing[p]), pressing' = [pressing EXCEPT ![p] = NoRetry], UNCHANGED net
    PROVE  PInv'
  <1> DEFINE r == pressing[p]
             op == Op(r.what, "c", r.value, r.key)
             k == r.queue
             saving == "saving"
  <1>1. r \in Retry /\ RetryValid(attempt, r) /\ UNCHANGED <<rows, stray, attempt, page, left>>
    BY RedoIs
  <1>2. /\ sessions' = sessions \/ sessions' = WithSync(saving)
        /\ queue' = Enqueued(k, op) /\ UNCHANGED retries
    BY DEF RedoCall
  <1>3. /\ k \in Keys /\ r.value \in Values /\ r.key \in Nat
    BY <1>1 DEF Retry, Values
  <1>4. /\ op \in Ops /\ op.what = r.what /\ op.id = "c" /\ op.value = r.value /\ op.key = r.key
    BY <1>3, StoredIds DEF Op, Ops
  <1>5. OpValid(rows, attempt, k, op)
    <2>1. op.what \notin EditFields /\ op.what \in {"append", "status", "fork"}
      BY <1>4 DEF EditFields
    <2>2. Carries(attempt, op)
      BY <1>1, <1>4, <2>1 DEF Carries, RetryValid
    <2>3. /\ k = "local" => attempt.canonical > 0
          /\ k = "c" => op.what = "fork"
      BY <1>1, <1>4, <2>1 DEF RetryValid
    <2>4. attempt.canonical \in Nat
      BY Facts DEF Attempts
    <2> HIDE DEF op, k
    <2> QED BY <1>4, <2>1, <2>2, <2>3, <2>4 DEF OpValid
  <1>6. SessionsSound'
    <2>1. CASE sessions' = sessions
      BY <1>1, <2>1 DEF PInv, SessionsSound
    <2>2. CASE sessions' = WithSync(saving)
      <3>1. saving \in {"saving", "unsaved"} /\ UNCHANGED <<rows, attempt>>
        BY <1>1
      <3> HIDE DEF saving
      <3> QED BY <2>2, <3>1, SyncSound
    <2> QED BY <1>2, <2>1, <2>2
  <1>7. OneRetryPerKey' /\ retries' \in SUBSET Retry
    BY <1>2, Typed DEF PInv, OneRetryPerKey
  <1> HIDE DEF op, k
  <1> QED BY <1>2, <1>3, <1>4, <1>5, <1>6, <1>7, RedoQueued DEF k

LEMMA RedoStep ==
    ASSUME PInv, NEW p \in Presses, Redo(p)
    PROVE  PInv'
  <1>1. pressing[p] \in Retry
    BY RedoIs
  <1>2. \/ pressing[p].what = "create" /\ RedoCreate(p)
        \/ /\ pressing[p].what \in EditFields /\ RedoEdit(pressing[p])
           /\ pressing' = [pressing EXCEPT ![p] = NoRetry] /\ UNCHANGED net
        \/ /\ pressing[p].what \in {"append", "status", "fork"} /\ RedoCall(pressing[p])
           /\ pressing' = [pressing EXCEPT ![p] = NoRetry] /\ UNCHANGED net
    BY <1>1 DEF Redo, EditFields, Retry, Fields
  <1> QED BY <1>2, RedoCreateStep, RedoEditStep, RedoCallStep

-----------------------------------------------------------------------------
(* The invariant holds at all times.                                       *)

LEMMA InitPInv ==
    ASSUME Init
    PROVE  PInv
  <1>1. /\ rows = [id \in Stored |-> <<>>] /\ sessions = <<>>
        /\ attempt = [begun |-> FALSE, canonical |-> 0, answered |-> FALSE,
                      target |-> "running", appends |-> 0]
        /\ queue = [k \in Keys |-> <<>>] /\ net = [s \in Slots |-> NoCall]
        /\ stray = {} /\ retries = {} /\ pressing = [p \in Presses |-> NoRetry]
        /\ left \in Stories /\ load = left.load /\ selected = "none"
    BY DEF Init
  <1>2. left \in Left
    BY <1>1, StoriesAssumption DEF Left
  <1>3. load \in {"loaded", "failed"}
    BY <1>1, <1>2 DEF Left
  <1>4. attempt \in [begun : BOOLEAN, canonical : Nat, answered : BOOLEAN,
                    target : {"running", "idle", "failed"}, appends : Nat]
    BY <1>1
  <1>5. /\ pressing \in [Presses -> Retry \cup {NoRetry}]
        /\ \A p \in Presses : pressing[p] = NoRetry
    BY <1>1
  <1>6. rows \in [Stored -> Seq(StoredRow)] /\ queue \in [Keys -> Seq(Ops)]
        /\ sessions \in Seq(Session) /\ net \in [Slots -> Calls \cup {NoCall}]
    BY <1>1
  <1>7. TypeInv
    BY <1>1, <1>2, <1>3, <1>4, <1>5, <1>6 DEF TypeInv
  <1>8. \A k \in Keys : queue[k] = <<>> /\ DOMAIN queue[k] = {}
    BY <1>1
  <1>9. \A s \in Slots : net[s] = NoCall
    BY <1>1
  <1>10. {"local", "c", "create", "list", "detail"} \cup Presses \subseteq Slots
    BY StoredIds DEF Slots
  <1>11. OneRetryPerKey /\ CallsValid /\ HeadCalls /\ QueuesValid /\ RetriesValid
    BY <1>1, <1>5, <1>8, <1>9, <1>10, StoredIds
       DEF OneRetryPerKey, CallsValid, SlotsValid, SlotKinds, StraysValid, HeadCalls, QueuesValid,
           RetriesValid
  <1>12. RowsSound
    BY <1>1, StoredIds DEF RowsSound, RowsValid
  <1>13. SessionsSound
    BY <1>1 DEF SessionsSound
  <1>14. AttemptSound
    BY <1>1, <1>9, <1>10 DEF AttemptSound
  <1> QED BY <1>7, <1>11, <1>12, <1>13, <1>14 DEF PInv

LEMMA StutterPInv ==
    ASSUME PInv, UNCHANGED vars
    PROVE  PInv'
  <1>1. UNCHANGED <<rows, net, stray, sessions, attempt, queue, retries, pressing, load,
                    selected, left>>
    BY DEF vars, tab, page
  <1> QED BY <1>1 DEF PInv, TypeInv, OneRetryPerKey, CallsValid, SlotsValid, SlotKinds,
          StraysValid, HeadCalls, RowsSound, SessionsSound, QueuesValid,
          RetriesValid, AttemptSound, CreateUnderWay

\* Every action of the specification keeps it.
LEMMA NextPInv ==
    ASSUME PInv, Next
    PROVE  PInv'
  <1>1. CASE Begin \/ Answer \/ Fail \/ NoAnswer \/ (\E s \in Creators : CreateArrives(s))
    BY <1>1, BeginStep, AnswerStep, FailStep, NoAnswerStep, CreateFailsStep, CreateSucceedsStep
  <1>2. CASE Rename \/ ArchiveOne \/ Fork \/ OutcomeArrives
    BY <1>2, RenameStep, ArchiveOneStep, ForkStep, OutcomeArrivesStep
  <1>3. ASSUME NEW k \in Keys, Start(k) \/ EditArrives(k) \/ ForkArrives(k) PROVE PInv'
    BY <1>3, StartStep, EditArrivesStep, ForkArrivesStep
  <1>4. CASE (\E r \in retries : Press(r)) \/ \E p \in Presses : RefreshArrives(p) \/ Redo(p)
    BY <1>4, PressStep, RefreshArrivesStep, RedoStep
  <1>5. CASE PressLoad \/ ListArrives \/ (\E id \in Stored : Select(id)) \/ DetailArrives
    BY <1>5, PressLoadStep, ListArrivesStep, SelectStep, DetailArrivesStep
  <1>6. ASSUME NEW s \in Slots, Serve(s) \/ Lose(s) PROVE PInv'
    BY <1>6, ServeStep, LoseStep
  <1>7. CASE (\E call \in stray : ServeStray(call)) \/ OtherTab
    BY <1>7, ServeStrayStep, OtherTabStep
  <1> QED BY <1>1, <1>2, <1>3, <1>4, <1>5, <1>6, <1>7 DEF Next, Creators

\* The pieces of the tab agree about the command, at all times.
LEMMA PInvariant == Spec => []PInv
  <1>1. PInv /\ [Next]_vars => PInv'
    BY NextPInv, StutterPInv
  <1> QED BY InitPInv, <1>1, PTL DEF Spec

\* At all times rows, sessions, calls, operations and retries are of their types,
\* whatever is lost and whenever it is acted on (use-document-conversations.ts,
\* conversation-repository.ts).
THEOREM TypeCorrect == Spec => []TypeOK
  <1>1. PInv => TypeOK
    <2> SUFFICES ASSUME PInv PROVE TypeOK
      OBVIOUS
    <2>1. \A id \in Stored : \A n \in DOMAIN rows[id] : rows[id][n] \in Row
      <3> TAKE id \in Stored
      <3> TAKE n \in DOMAIN rows[id]
      <3>1. rows[id] \in Seq(StoredRow)
        BY DEF PInv, TypeInv
      <3>2. rows[id][n] \in StoredRow
        BY <3>1
      <3> QED BY <3>2 DEF StoredRow, Transcripts, Row
    <2>2. \A n \in DOMAIN sessions : sessions[n] \in Session
      BY SessionIs
    <2> QED BY <2>1, <2>2 DEF TypeOK, PInv, TypeInv, OneRetryPerKey
  <1> QED BY <1>1, PInvariant, PTL

-----------------------------------------------------------------------------
(* The outcome of the command is carried on.                               *)

\* The outcome of the command, kind by kind
Outcomes == {"append", "status"}
Needed(what) == IF what = "append" THEN attempt.answered ELSE attempt.target = "failed"
Settled(what) ==
    IF what = "append" THEN StoredAnswer
    ELSE rows["c"] # <<>> /\ Final(rows, "c").status = "failed"
Queued(what) == \E n \in DOMAIN queue["local"] : queue["local"][n].what = what
Retried(what) == \E r \in retries : r.what = what

\* The two ways of putting it
LEMMA OutcomeIs ==
    OutcomeUnderWay <=>
        \A what \in Outcomes :
            attempt.canonical > 0 /\ Needed(what) => Settled(what) \/ Queued(what) \/ Retried(what)
  BY DEF OutcomeUnderWay, Outcomes, Needed, Settled, Queued, Retried, Held

\* An answer that is stored stays stored.
LEMMA StoredAnswerGrows ==
    ASSUME PInv, Growth, StoredAnswer
    PROVE  StoredAnswer'
  <1>1. /\ rows["c"] \in Seq(StoredRow) /\ rows'["c"] \in Seq(StoredRow)
        /\ Len(rows["c"]) <= Len(rows'["c"])
        /\ \A n \in 1 .. Len(rows["c"]) : rows'["c"][n] = rows["c"][n]
    BY Facts, StoredIds DEF Growth, AllRows, RowsGrow
  <1>2. PICK n \in DOMAIN rows["c"] : \E m \in DOMAIN rows["c"][n].messages :
            rows["c"][n].messages[m] > 0
    BY DEF StoredAnswer
  <1>3. n \in DOMAIN rows'["c"] /\ rows'["c"][n] = rows["c"][n]
    BY <1>1
  <1> QED BY <1>2, <1>3 DEF StoredAnswer

\* What is stored stays so.
LEMMA SettledGrows ==
    ASSUME PInv, Growth, NEW what \in Outcomes, Needed(what), Settled(what)
    PROVE  Settled(what)'
  <1>1. CASE what = "append"
    BY <1>1, StoredAnswerGrows DEF Settled
  <1>2. CASE what # "append"
    BY <1>2, Facts, StoredIds, NonEmptyGrows DEF Growth, Settled, Needed, RowsGrow
  <1> QED BY <1>1, <1>2

\* The outcome's operation stays, or its retry.
LEMMA OutcomeKept ==
    ASSUME PInv, OutcomeUnderWay, Growth,
           \A what \in Outcomes : attempt'.canonical > 0 /\ Needed(what)' =>
               \/ Settled(what)' \/ Queued(what)' \/ Retried(what)'
               \/ /\ attempt.canonical > 0 /\ Needed(what)
                  /\ Queued(what) => Queued(what)'
                  /\ Retried(what) => Retried(what)'
    PROVE  OutcomeUnderWay'
  <1> SUFFICES ASSUME NEW what \in Outcomes, attempt'.canonical > 0, Needed(what)'
               PROVE  Settled(what)' \/ Queued(what)' \/ Retried(what)'
    BY DEF OutcomeUnderWay, Outcomes, Needed, Settled, Queued, Retried, Held
  <1>1. CASE /\ attempt.canonical > 0 /\ Needed(what)
             /\ Queued(what) => Queued(what)'
             /\ Retried(what) => Retried(what)'
    <2>1. Settled(what) \/ Queued(what) \/ Retried(what)
      BY <1>1, OutcomeIs
    <2> QED BY <1>1, <2>1, SettledGrows
  <1> QED BY <1>1

\* What is queued moves up or stays.
LEMMA QueuedOn ==
    ASSUME PInv, NEW k \in Keys
    PROVE  /\ \A op \in Ops : queue' = Enqueued(k, op) =>
                  /\ \A what : Queued(what) => Queued(what)'
                  /\ k = "local" => Queued(op.what)'
           /\ queue[k] # <<>> /\ queue' = Popped(k) =>
                  \A what : what # Head(queue[k]).what /\ Queued(what) => Queued(what)'
  <1>0. "local" \in Keys
    BY StoredIds
  <1>1. ASSUME NEW op \in Ops, queue' = Enqueued(k, op)
        PROVE  /\ \A what : Queued(what) => Queued(what)'
               /\ k = "local" => Queued(op.what)'
    <2>1. /\ Len(queue'[k]) = Len(queue[k]) + 1 /\ queue'[k][Len(queue[k]) + 1] = op
          /\ \A j \in Keys : \A n \in DOMAIN queue[j] :
                        n \in DOMAIN queue'[j] /\ queue'[j][n] = queue[j][n]
          /\ queue' \in [Keys -> Seq(Ops)]
      BY <1>1, EnqueuedIs
    <2>2. queue[k] \in Seq(Ops) /\ queue'[k] \in Seq(Ops)
      BY <2>1, Typed
    <2>3. Len(queue[k]) + 1 \in DOMAIN queue'[k]
      BY <2>1, <2>2
    <2> QED BY <1>0, <2>1, <2>3 DEF Queued
  <1>2. ASSUME queue[k] # <<>>, queue' = Popped(k)
        PROVE  \A what : what # Head(queue[k]).what /\ Queued(what) => Queued(what)'
    <2>1. /\ \A j \in Keys : j # k => queue'[j] = queue[j]
          /\ \A n \in DOMAIN queue[k] : n # 1 => n - 1 \in DOMAIN queue'[k]
                                                        /\ queue'[k][n - 1] = queue[k][n]
          /\ Head(queue[k]) = queue[k][1]
      BY <1>2, PoppedIs
    <2> SUFFICES ASSUME NEW what, what # Head(queue[k]).what, Queued(what) PROVE Queued(what)'
      OBVIOUS
    <2>2. PICK n \in DOMAIN queue["local"] : queue["local"][n].what = what
      BY DEF Queued
    <2>3. CASE k = "local"
      BY <2>1, <2>2, <2>3 DEF Queued
    <2>4. CASE k # "local"
      BY <1>0, <2>1, <2>2, <2>4 DEF Queued
    <2> QED BY <2>3, <2>4
  <1> QED BY <1>1, <1>2

\* A step that takes back no outcome
LEMMA OutcomeAlone ==
    ASSUME PInv, OutcomeUnderWay, Growth,
           attempt'.canonical > 0 => attempt.canonical > 0,
           \A what \in Outcomes : /\ Needed(what)' => Needed(what)
                                  /\ Queued(what) => Queued(what)',
           \A r \in retries : r.what \in Outcomes => \E q \in retries' : q.what = r.what
    PROVE  OutcomeUnderWay'
  BY OutcomeKept DEF Retried

\* The server, the network and other tabs
LEMMA ServerOutcome ==
    ASSUME PInv, OutcomeUnderWay, Growth, UNCHANGED tab
    PROVE  OutcomeUnderWay'
  BY OutcomeAlone DEF tab, page, Needed, Queued

\* A step of the tab that leaves its queues and its retries alone
LEMMA ShowOutcome ==
    ASSUME PInv, OutcomeUnderWay, UNCHANGED <<rows, attempt, queue, retries>>
    PROVE  OutcomeUnderWay'
  BY SameGrowth, OutcomeAlone DEF Needed, Queued

LEMMA OutcomeServed ==
    ASSUME PInv, OutcomeUnderWay,
           \/ \E s \in Slots : Serve(s) \/ Lose(s)
           \/ (\E call \in stray : ServeStray(call)) \/ OtherTab
    PROVE  OutcomeUnderWay'
  <1>1. ASSUME NEW s \in Slots, Serve(s) PROVE OutcomeUnderWay'
    BY <1>1, ServeIs, ServerOutcome
  <1>2. ASSUME NEW s \in Slots, Lose(s) PROVE OutcomeUnderWay'
    BY <1>2, ShowOutcome DEF Lose, tab
  <1>3. ASSUME NEW call \in stray, ServeStray(call) PROVE OutcomeUnderWay'
    BY <1>3, ServeStrayIs, ServerOutcome
  <1>4. CASE OtherTab
    BY <1>4, OtherTabIs, ServerOutcome
  <1> QED BY <1>1, <1>2, <1>3, <1>4

LEMMA OutcomeShown ==
    ASSUME PInv, OutcomeUnderWay,
           \/ PressLoad \/ ListArrives \/ (\E id \in Stored : Select(id)) \/ DetailArrives
           \/ \E r \in retries : Press(r)
    PROVE  OutcomeUnderWay'
  <1>1. UNCHANGED <<rows, attempt, queue, retries>>
    BY DEF PressLoad, ListArrives, Select, DetailArrives, Press
  <1> QED BY <1>1, ShowOutcome

\* The command begins, or ends without an outcome.
LEMMA OutcomeNone ==
    ASSUME PInv, OutcomeUnderWay, Begin \/ NoAnswer
    PROVE  OutcomeUnderWay'
  <1>1. /\ UNCHANGED <<rows, queue, retries>>
        /\ \/ attempt' = [attempt EXCEPT !.begun = TRUE]
           \/ attempt.target = "running" /\ attempt' = [attempt EXCEPT !.target = "idle"]
    BY DEF Begin, NoAnswer
  <1>2. attempt \in Attempts /\ attempt.canonical <= Len(rows["c"])
    BY Facts DEF PInv, RowsSound, RowsValid
  <1>3. /\ attempt' \in Attempts /\ attempt'.canonical = attempt.canonical
        /\ AttemptGrows(attempt, attempt')
        /\ attempt'.answered = attempt.answered
        /\ attempt'.target = "failed" => attempt.target = "failed"
    <2>1. CASE attempt' = [attempt EXCEPT !.begun = TRUE]
      <3>1. /\ attempt' \in Attempts /\ attempt'.canonical = attempt.canonical
            /\ attempt'.begun /\ attempt'.answered = attempt.answered
            /\ attempt'.target = attempt.target
        BY <1>2, <2>1 DEF Attempts
      <3> QED BY <1>2, <3>1 DEF Attempts, AttemptGrows
    <2>2. CASE attempt.target = "running" /\ attempt' = [attempt EXCEPT !.target = "idle"]
      <3>1. /\ attempt' \in Attempts /\ attempt'.canonical = attempt.canonical
            /\ attempt'.begun = attempt.begun /\ attempt'.answered = attempt.answered
            /\ attempt'.target = "idle"
        BY <1>2, <2>2 DEF Attempts
      <3> QED BY <1>2, <2>2, <3>1 DEF Attempts, AttemptGrows
    <2> QED BY <1>1, <2>1, <2>2
  <1>4. Growth
    BY <1>1, <1>2, <1>3, TabGrowth
  <1> QED BY <1>1, <1>3, <1>4, OutcomeAlone DEF Needed, Queued

\* The outcome is there, and queued when the conversation is known.
LEMMA OutcomeComes ==
    ASSUME PInv, OutcomeUnderWay, Answer \/ Fail
    PROVE  OutcomeUnderWay'
  <1>1. /\ UNCHANGED <<rows, retries>> /\ attempt.begun /\ attempt.target = "running"
        /\ \/ /\ attempt' = [attempt EXCEPT !.answered = TRUE, !.target = "idle",
                              !.appends = IF attempt.canonical > 0
                                          THEN attempt.appends + 1 ELSE attempt.appends]
              /\ queue' = IF attempt.canonical > 0 THEN Enqueued("local", AppendOp) ELSE queue
           \/ /\ attempt' = [attempt EXCEPT !.target = "failed"]
              /\ queue' = IF attempt.canonical > 0 THEN Enqueued("local", StatusOp) ELSE queue
    BY DEF Answer, Fail, Outcome
  <1>2. /\ attempt \in Attempts /\ attempt.canonical <= Len(rows["c"]) /\ ~attempt.answered
        /\ attempt.appends + 1 \in Nat
    BY <1>1, Facts DEF PInv, RowsSound, RowsValid, AttemptSound, Attempts
  <1>3. /\ attempt' \in Attempts /\ attempt'.canonical = attempt.canonical
        /\ AttemptGrows(attempt, attempt')
    <2>1. CASE attempt' = [attempt EXCEPT !.target = "failed"]
      <3>1. /\ attempt' \in Attempts /\ attempt'.canonical = attempt.canonical
            /\ attempt'.begun = attempt.begun /\ attempt'.answered = attempt.answered
        BY <1>2, <2>1 DEF Attempts
      <3> QED BY <1>1, <1>2, <3>1 DEF Attempts, AttemptGrows
    <2>2. CASE attempt' = [attempt EXCEPT !.answered = TRUE, !.target = "idle",
                              !.appends = IF attempt.canonical > 0
                                          THEN attempt.appends + 1 ELSE attempt.appends]
      <3>1. /\ attempt' \in Attempts /\ attempt'.canonical = attempt.canonical
            /\ attempt'.begun = attempt.begun /\ attempt'.answered = TRUE
        BY <1>2, <2>2 DEF Attempts
      <3> QED BY <1>1, <1>2, <3>1 DEF Attempts, AttemptGrows
    <2> QED BY <1>1, <2>1, <2>2
  <1>4. Growth
    BY <1>1, <1>2, <1>3, TabGrowth
  <1>5. attempt.canonical > 0 => \A what \in Outcomes : Needed(what)' => Queued(what)'
    <2> SUFFICES ASSUME attempt.canonical > 0, NEW what \in Outcomes, Needed(what)'
                 PROVE  Queued(what)'
      OBVIOUS
    <2>1. CASE /\ attempt'.answered /\ attempt'.target = "idle"
               /\ queue' = Enqueued("local", AppendOp)
      BY <2>1, AppendOpIs, StoredIds, QueuedOn DEF Needed, Outcomes
    <2>2. CASE ~attempt'.answered /\ queue' = Enqueued("local", StatusOp)
      BY <2>2, StatusOpIs, StoredIds, QueuedOn DEF Needed, Outcomes
    <2> QED BY <1>1, <1>2, <2>1, <2>2 DEF Attempts
  <1> QED BY <1>3, <1>4, <1>5, OutcomeKept

\* The creation that succeeds queues it.
LEMMA OutcomeFollows ==
    ASSUME PInv, OutcomeUnderWay, PInv', NEW c \in Creators, CreateArrives(c)
    PROVE  OutcomeUnderWay'
  <1>1. CASE ~Ok(c)
    <2> DEFINE r == [what |-> "create", id |-> "local", value |-> "none", key |-> 0,
                     queue |-> "local", refresh |-> FALSE]
    <2>1. UNCHANGED <<rows, attempt, queue>> /\ retries' = With(r)
      BY <1>1 DEF CreateArrives, CreateFails
    <2>2. r.what = "create"
      OBVIOUS
    <2> HIDE DEF r
    <2>3. \A q \in retries : q.what \in Outcomes => q \in retries'
      BY <2>1, <2>2 DEF With, Same, Outcomes
    <2> QED BY <2>1, <2>3, SameGrowth, OutcomeAlone DEF Needed, Queued
  <1>2. CASE Ok(c)
    <2> DEFINE version == net[c].seen["c"]
    <2>1. /\ rows' = rows /\ queue' = [queue EXCEPT !["local"] = @ \o FollowUp]
          /\ attempt' = [attempt EXCEPT !.canonical = KnownAs(version),
                         !.appends = IF attempt.answered
                                     THEN attempt.appends + 1 ELSE attempt.appends]
          /\ UNCHANGED page
      BY <1>2 DEF CreateArrives, CreateSucceeds
    <2>2. attempt \in Attempts /\ attempt' \in Attempts
      BY Facts DEF PInv, TypeInv, Attempts
    <2>3. /\ attempt'.answered = attempt.answered /\ attempt'.target = attempt.target
          /\ attempt.answered => attempt.target = "idle"
      BY <2>1, <2>2 DEF Attempts, PInv, AttemptSound
    <2>4. "local" \in Keys
      BY StoredIds
    <2>5. ASSUME NEW what \in Outcomes, Needed(what)' PROVE Queued(what)'
      <3>1. CASE attempt.answered
        <4>1. queue' = Enqueued("local", AppendOp) /\ AppendOp \in Ops /\ AppendOp.what = "append"
          BY <2>1, <2>4, <3>1, AppendOpIs, ExtendedQueue DEF FollowUp
        <4> QED BY <2>3, <2>4, <2>5, <3>1, <4>1, QueuedOn DEF Needed, Outcomes
      <3>2. CASE ~attempt.answered
        <4>1. attempt.target = "failed" /\ what = "status"
          BY <2>3, <2>5, <3>2 DEF Needed, Outcomes
        <4>2. queue' = Enqueued("local", StatusOp) /\ StatusOp \in Ops /\ StatusOp.what = "status"
          BY <2>1, <2>4, <3>2, <4>1, StatusOpIs, ExtendedQueue DEF FollowUp
        <4> QED BY <2>4, <4>1, <4>2, QueuedOn
      <3> QED BY <3>1, <3>2
    <2> QED BY <2>5 DEF OutcomeUnderWay, Needed, Queued, Held, Outcomes
  <1> QED BY <1>1, <1>2

\* An edit or a fork queues its operation, and takes back its own retry at most.
LEMMA OutcomeBeside ==
    ASSUME PInv, OutcomeUnderWay, UNCHANGED <<rows, attempt>>,
           NEW k \in Keys, NEW op \in Ops, queue' = Enqueued(k, op),
           \A r \in retries : r.what \in Outcomes => r \in retries'
    PROVE  OutcomeUnderWay'
  BY SameGrowth, QueuedOn, OutcomeAlone DEF Needed

\* An operation that is no outcome leaves its queue.
LEMMA OutcomeBehind ==
    ASSUME PInv, OutcomeUnderWay, AttemptKnows, rows' = rows,
           NEW k \in Keys, queue[k] # <<>>, queue' = Popped(k),
           Head(queue[k]).what \notin Outcomes,
           \A r \in retries : r.what \in Outcomes => r \in retries'
    PROVE  OutcomeUnderWay'
  BY KnowsGrowth, QueuedOn, OutcomeAlone DEF Needed

LEMMA OutcomeEdited ==
    ASSUME PInv, OutcomeUnderWay, Rename \/ ArchiveOne \/ Fork
    PROVE  OutcomeUnderWay'
  <1>1. CASE Fork
    <2> DEFINE message == Last(First("c").messages)
               op == Op("fork", "c", First("c").title, message)
               k == MutationKey("c")
    <2>1. /\ Sessions("c") # {} /\ CanFork(message) /\ queue' = Enqueued(k, op)
          /\ UNCHANGED <<rows, attempt, retries>>
      BY <1>1 DEF Fork
    <2>2. First("c").title \in Titles
      BY <2>1, FirstIs DEF Session
    <2>3. message \in Nat
      BY <2>1, DurableIs DEF CanFork
    <2> HIDE DEF message
    <2>4. op \in Ops /\ k \in Keys
      BY <2>2, <2>3, StoredIds DEF Values, Op, Ops, MutationKey
    <2> HIDE DEF op, k
    <2> QED BY <2>1, <2>4, OutcomeBeside
  <1>2. ASSUME NEW id \in Keys, NEW field \in EditFields, NEW value,
               field = "title" => value \in Titles, field = "archived" => value = "yes",
               Edit(id, field, value)
        PROVE  OutcomeUnderWay'
    <2> DEFINE op == EditOp(id, field, value)
               k == MutationKey(id)
    <2>1. Sessions(id) # {} /\ EditOf(id, field, value) /\ UNCHANGED <<rows, attempt>>
      BY <1>2 DEF Edit
    <2>2. op \in Ops /\ k \in Keys
      BY <1>2, <2>1, EditOpIs
    <2>3. queue' = Enqueued(k, op) /\ \A q \in retries : q \in retries' \/ q.what = field
      BY <1>2, <2>1, EditOfIs
    <2>4. \A q \in retries : q.what \in Outcomes => q \in retries'
      BY <1>2, <2>3 DEF EditFields, Outcomes
    <2> HIDE DEF op, k
    <2> QED BY <2>1, <2>2, <2>3, <2>4, OutcomeBeside
  <1> QED BY <1>1, <1>2 DEF Rename, ArchiveOne, EditFields

\* An operation starts, or is given up.
LEMMA OutcomeStarted ==
    ASSUME PInv, OutcomeUnderWay, NEW k \in Keys, Start(k)
    PROVE  OutcomeUnderWay'
  <1> DEFINE op == Head(queue[k])
  <1>1. queue[k] # <<>> /\ UNCHANGED <<rows, attempt>>
    BY DEF Start
  <1>2. op \in Ops /\ 1 \in DOMAIN queue[k] /\ op = queue[k][1]
    BY <1>1, HeadIs
  <1>3. AttemptKnows
    BY <1>1 DEF AttemptKnows
  <1>4. CASE UNCHANGED <<queue, retries>>
    BY <1>1, <1>4, ShowOutcome
  <1>5. CASE op.what = "fork" /\ queue' = Popped(k) /\ retries' = Without("fork", "c")
    <2>1. \A r \in retries : r.what \in Outcomes => r \in retries'
      BY <1>5 DEF Without, Outcomes
    <2> QED BY <1>1, <1>3, <1>5, <2>1, OutcomeBehind DEF Outcomes
  <1>6. CASE op.what \in {"title", "archived"} /\ queue' = Popped(k) /\ retries' = retries
    BY <1>1, <1>3, <1>6, OutcomeBehind DEF Outcomes
  <1>7. ASSUME NEW base, queue' = [queue EXCEPT ![k][1].base = base], retries' = retries
        PROVE  OutcomeUnderWay'
    <2> DEFINE moved == [op EXCEPT !.base = base]
    <2>1. queue \in [Keys -> Seq(Ops)] /\ "local" \in Keys
      BY Typed, StoredIds
    <2>2. moved.what = op.what
      BY <1>2 DEF Ops
    <2>3. queue' = [queue EXCEPT ![k] = [queue[k] EXCEPT ![1] = moved]]
      BY <1>2, <1>7
    <2> HIDE DEF moved
    <2>4. \A n \in DOMAIN queue["local"] :
              n \in DOMAIN queue'["local"] /\ queue'["local"][n].what = queue["local"][n].what
      BY <1>2, <2>1, <2>2, <2>3
    <2>5. \A what : Queued(what) => Queued(what)'
      BY <2>4 DEF Queued
    <2> QED BY <1>1, <1>7, <2>5, SameGrowth, OutcomeAlone DEF Needed
  <1> QED BY <1>4, <1>5, <1>6, <1>7 DEF Start, StartEdit, StartFork

\* An edit or a fork is answered.
LEMMA OutcomePassed ==
    ASSUME PInv, OutcomeUnderWay, NEW k \in Keys, EditArrives(k) \/ ForkArrives(k)
    PROVE  OutcomeUnderWay'
  <1> DEFINE op == Head(queue[k])
             version == net[k].seen[op.id]
  <1>1. /\ Arrived(k) /\ op.what \in EditFields \cup {"fork"} /\ queue' = Popped(k)
        /\ rows' = rows
        /\ \/ retries' = Without(op.what, op.id) \/ retries' = Without("fork", "c")
           \/ \E r : r.what = op.what /\ retries' = With(r)
        /\ \/ attempt' = attempt
           \/ /\ Ok(k) /\ op.what \in EditFields /\ IsKnown(op.id)
              /\ attempt' = [attempt EXCEPT !.canonical = KnownAs(version)]
    BY DEF EditArrives, EditSucceeds, EditFails, ForkArrives, RetryOf, EditFields
  <1>2. queue[k] # <<>> /\ k \in Slots
    BY <1>1, ArrivedIs
  <1>3. op \in Ops /\ net[k] # NoCall /\ net[k].what = op.what /\ net[k].id = op.id
    BY <1>1, <1>2, HeadIs, ArrivedIs
  <1>4. AttemptKnows
    <2>1. CASE attempt' = attempt
      BY <2>1 DEF AttemptKnows
    <2>2. CASE attempt' # attempt
      <3>1. op.id = "c" /\ attempt.canonical > 0 /\ net[k].what # "list" /\ "c" \in Stored
        BY <1>1, <1>3, <2>2, StoredIds DEF IsKnown, EditFields
      <3>2. version \in Nat /\ version <= Len(rows["c"])
        BY <1>1, <1>2, <1>3, <2>2, <3>1, AnswerIs
      <3> QED BY <1>1, <2>2, <3>1, <3>2, KnownIs
    <2> QED BY <2>1, <2>2
  <1>5. op.what \notin Outcomes
    BY <1>1 DEF Outcomes, EditFields
  <1> HIDE DEF op
  <1>6. \A q \in retries : q.what \in Outcomes => q \in retries'
    BY <1>1, <1>5 DEF Without, With, Same, Outcomes
  <1> QED BY <1>1, <1>2, <1>4, <1>5, <1>6, OutcomeBehind DEF op

\* It is stored, or offered again.
LEMMA OutcomeAnswered ==
    ASSUME PInv, OutcomeUnderWay, OutcomeArrives
    PROVE  OutcomeUnderWay'
  <1> DEFINE k == "local"
             op == Head(queue[k])
             version == net[k].seen["c"]
             r == RetryOf(op, k, k, net[k].outcome)
  <1>1. /\ Arrived(k) /\ op.what \in Outcomes /\ queue' = Popped(k) /\ rows' = rows
        /\ ~Ok(k) => retries' = With(r) /\ attempt' = attempt
        /\ Ok(k) => /\ retries' = Without(op.what, "local")
                    /\ attempt' = [attempt EXCEPT !.canonical = KnownAs(version)]
        /\ r.what = op.what
    BY DEF OutcomeArrives, Outcomes, RetryOf
  <1>2. k \in Keys /\ k \in Slots /\ net[k] # NoCall /\ queue[k] # <<>>
    BY <1>1, ArrivedIs, StoredIds
  <1>3. /\ op \in Ops /\ OpValid(rows, attempt, k, op)
        /\ net[k].what = op.what /\ net[k].id = op.id
    BY <1>2, HeadIs
  <1>4. op.id = "c" /\ attempt.canonical > 0
    BY <1>1, <1>2, <1>3, OutcomeOpIs DEF Outcomes
  <1>5. /\ Carries(attempt, net[k])
        /\ Ok(k) => Effect(rows, net[k])
        /\ Ok(k) => version \in Nat /\ version <= Len(rows["c"])
    BY <1>1, <1>2, AnswerIs, StoredIds DEF Valid
  <1> HIDE DEF op, r
  <1>6. AttemptKnows
    <2>1. CASE ~Ok(k)
      BY <1>1, <2>1 DEF AttemptKnows
    <2>2. CASE Ok(k)
      BY <1>1, <1>4, <1>5, <2>2, KnownIs
    <2> QED BY <2>1, <2>2
  <1>7. /\ Growth /\ attempt'.answered = attempt.answered /\ attempt'.target = attempt.target
    BY <1>1, <1>6, KnowsGrowth
  <1>8. ASSUME NEW what, what = op.what
        PROVE  Settled(what)' \/ Retried(what)'
    <2>1. CASE Ok(k)
      <3>1. Carries(attempt, net[k]) /\ Effect(rows, net[k]) /\ rows["c"] \in Seq(StoredRow)
        BY <1>5, <2>1, Facts, StoredIds DEF AllRows
      <3>2. rows["c"] # <<>> /\ Len(rows["c"]) \in DOMAIN rows["c"]
        BY <1>1, <1>3, <3>1 DEF Effect, Outcomes
      <3>3. CASE what = "append"
        <4>1. net[k].key > 0 /\ Says(Final(rows, "c").messages, net[k].key)
          BY <1>3, <1>8, <3>1, <3>3 DEF Effect, Carries
        <4>2. PICK m \in DOMAIN Final(rows, "c").messages :
                       Final(rows, "c").messages[m] = net[k].key
          BY <4>1 DEF Says
        <4>3. StoredAnswer
          BY <3>2, <4>1, <4>2 DEF Final, StoredAnswer
        <4>4. StoredAnswer'
          BY <1>1, <4>3 DEF StoredAnswer
        <4> QED BY <3>3, <4>4 DEF Settled
      <3>4. CASE what = "status"
        <4>1. Final(rows, "c").status = "failed"
          BY <1>3, <1>8, <3>1, <3>4 DEF Effect
        <4> QED BY <1>1, <3>2, <3>4, <4>1 DEF Final, Settled
      <3> QED BY <1>1, <1>8, <3>3, <3>4 DEF Outcomes
    <2>2. CASE ~Ok(k)
      <3>1. r \in retries'
        BY <1>1, <2>2 DEF With
      <3> QED BY <1>1, <1>8, <3>1 DEF Retried
    <2> QED BY <2>1, <2>2
  <1>9. \A what : what # op.what /\ Queued(what) => Queued(what)'
    BY <1>1, <1>2, QueuedOn DEF op
  <1>10. \A q \in retries : q.what # op.what => q \in retries'
    BY <1>1 DEF With, Without, Same
  <1>11. \A what \in Outcomes : what # op.what /\ Retried(what) => Retried(what)'
    BY <1>10 DEF Retried
  <1>12. \A what \in Outcomes : Needed(what)' => Needed(what)
    BY <1>7 DEF Needed
  <1>13. ASSUME NEW what \in Outcomes, attempt'.canonical > 0, Needed(what)'
         PROVE  \/ Settled(what)' \/ Queued(what)' \/ Retried(what)'
                \/ /\ attempt.canonical > 0 /\ Needed(what)
                   /\ Queued(what) => Queued(what)'
                   /\ Retried(what) => Retried(what)'
    <2>1. CASE what = op.what
      BY <1>8, <2>1
    <2>2. CASE what # op.what
      BY <1>4, <1>9, <1>11, <1>12, <1>13, <2>2
    <2> QED BY <2>1, <2>2
  <1> QED BY <1>7, <1>13, OutcomeKept

\* A retry is refreshed, or made again.
LEMMA OutcomeRetried ==
    ASSUME PInv, OutcomeUnderWay, NEW p \in Presses, RefreshArrives(p) \/ Redo(p)
    PROVE  OutcomeUnderWay'
  <1> DEFINE r == pressing[p]
             version == net[p].seen["c"]
  <1>1. CASE RefreshArrives(p)
    <2>1. /\ Arrived(p) /\ net[p].what = "get" /\ UNCHANGED <<rows, queue>>
          /\ \/ attempt' = attempt
             \/ /\ Ok(p) /\ attempt.canonical > 0
                /\ attempt' = [attempt EXCEPT !.canonical = KnownAs(version)]
          /\ retries' = retries \/ retries' = With(r)
      BY <1>1 DEF RefreshArrives
    <2>2. p \in Slots
      BY PressSlots
    <2>3. AttemptKnows
      <3>1. CASE attempt' = attempt
        BY <3>1 DEF AttemptKnows
      <3>2. CASE attempt' # attempt
        <4>1. version \in Nat /\ version <= Len(rows["c"])
          BY <2>1, <2>2, <3>2, AnswerIs, StoredIds
        <4> QED BY <2>1, <3>2, <4>1, KnownIs
      <3> QED BY <3>1, <3>2
    <2> HIDE DEF r
    <2>4. \A q \in retries : \E t \in retries' : t.what = q.what
      BY <2>1 DEF With, Same
    <2> QED BY <2>1, <2>3, <2>4, KnowsGrowth, OutcomeAlone DEF Needed, Queued
  <1>2. CASE Redo(p)
    <2>1. /\ r \in Retry /\ RetryValid(attempt, r) /\ UNCHANGED <<rows, attempt>>
      BY <1>2, RedoIs
    <2>2. CASE UNCHANGED <<queue, retries>>
      BY <2>1, <2>2, ShowOutcome
    <2>3. CASE r.what \in {"append", "status", "fork"} /\ RedoCall(r)
      <3> DEFINE op == Op(r.what, "c", r.value, r.key)
      <3>1. queue' = Enqueued(r.queue, op) /\ retries' = retries /\ r.queue \in Keys
        BY <2>1, <2>3 DEF RedoCall, Retry
      <3>2. op \in Ops
        BY <2>1, <2>3, StoredIds DEF Op, Ops, Retry, Values
      <3> HIDE DEF op
      <3> QED BY <2>1, <3>1, <3>2, OutcomeBeside
    <2>4. CASE r.what \in EditFields /\ Sessions(r.id) # {} /\ EditOf(r.id, r.what, r.value)
      <3> DEFINE id == r.id
                 field == r.what
                 value == r.value
                 op == EditOp(id, field, value)
                 k == MutationKey(id)
      <3>1. /\ field \in EditFields /\ id \in Keys
            /\ field = "title" => value \in Titles
            /\ field = "archived" => value = "yes"
        BY <2>1, <2>4 DEF RetryValid, EditFields
      <3>2. Sessions(id) # {} /\ EditOf(id, field, value)
        BY <2>4
      <3> HIDE DEF id, field, value
      <3>3. op \in Ops /\ k \in Keys
        BY <3>1, <3>2, EditOpIs
      <3>4. queue' = Enqueued(k, op) /\ \A q \in retries : q \in retries' \/ q.what = field
        BY <2>1, <3>1, <3>2, EditOfIs
      <3>5. \A q \in retries : q.what \in Outcomes => q \in retries'
        BY <3>1, <3>4 DEF EditFields, Outcomes
      <3> HIDE DEF op, k
      <3> QED BY <2>1, <3>3, <3>4, <3>5, OutcomeBeside
    <2> QED BY <1>2, <2>1, <2>2, <2>3, <2>4
        DEF Redo, RedoCreate, RedoEdit, Retry, Fields, EditFields
  <1> QED BY <1>1, <1>2

\* Every action of the specification carries the outcome on.
LEMMA NextOutcome ==
    ASSUME PInv, PInv', OutcomeUnderWay, Next
    PROVE  OutcomeUnderWay'
  BY OutcomeServed, OutcomeShown, OutcomeNone, OutcomeComes, OutcomeFollows, OutcomeEdited,
     OutcomeStarted, OutcomePassed, OutcomeAnswered, OutcomeRetried DEF Next, Creators

LEMMA CInvariant == Spec => []CInv
  <1>1. Init => CInv
    <2> SUFFICES ASSUME Init PROVE CInv
      OBVIOUS
    <2>1. attempt.canonical = 0
      BY DEF Init
    <2> QED BY <2>1, InitPInv DEF CInv, OutcomeUnderWay
  <1>2. CInv /\ [Next]_vars => CInv'
    <2>1. ASSUME CInv, Next PROVE CInv'
      BY <2>1, NextPInv, NextOutcome DEF CInv
    <2>2. ASSUME CInv, UNCHANGED vars PROVE CInv'
      <3>1. PInv'
        BY <2>2, StutterPInv DEF CInv
      <3>2. OutcomeUnderWay'
        BY <2>2, ShowOutcome DEF CInv, vars, tab
      <3> QED BY <3>1, <3>2 DEF CInv
    <2> QED BY <2>1, <2>2
  <1> QED BY <1>1, <1>2, PTL DEF Spec

\* A transcript that is shown as saved is the one stored with the version it is
\* shown in, whatever was lost, pressed again or answered late
\* (reconcilePersistedSession, persistCreate, loadConversationDetail).
THEOREM ShownAsSaved == Spec => []SavedIsStored
  <1>1. PInv => SavedIsStored
    <2> SUFFICES ASSUME PInv, NEW n \in DOMAIN sessions, sessions[n].sync = "saved"
                 PROVE  /\ sessions[n].id \in Stored
                        /\ sessions[n].version \in 1 .. Version(sessions[n].id)
                        /\ sessions[n].transcript = "loaded" =>
                             sessions[n].messages =
                                 rows[sessions[n].id][sessions[n].version].messages
      BY DEF SavedIsStored
    <2>1. sessions[n] \in Shape(rows, attempt) /\ sessions[n] \in Session
      BY SessionIs
    <2>2. sessions[n].id \in Stored
      BY <2>1 DEF Shape, Session
    <2> QED BY <2>1, <2>2 DEF Shape, HeldIn, Version
  <1> QED BY <1>1, PInvariant, PTL

\* What the command came to is stored or still going to be, and what is sent
\* again under one mutation key is stored once, however many calls are lost or
\* acted on late and however often Retry is pressed (completeConversation,
\* failConversation, persistCreate, persistAssistant, appendConversationMessage).
THEOREM OutcomeIsRetained == Spec => []OutcomeRetained
  <1>1. CInv => OutcomeRetained
    <2> SUFFICES ASSUME CInv PROVE OutcomeRetained
      OBVIOUS
    <2>1. ASSUME NEW id \in Stored, Version(id) > 0
          PROVE  /\ Last(rows[id]) = Final(rows, id) /\ Final(rows, id) \in StoredRow
                 /\ rows[id] # <<>>
      <3>1. rows[id] \in Seq(StoredRow) /\ Len(rows[id]) > 0
        BY <2>1 DEF CInv, PInv, TypeInv, Version
      <3> QED BY <3>1, LastIs DEF Final
    <2>2. \A id \in Stored : Version(id) > 0 =>
             LET messages == Last(rows[id]).messages
             IN  \A m, n \in DOMAIN messages : messages[m] = messages[n] => m = n
      BY <2>1 DEF StoredRow, Transcripts
    <2>3. attempt.canonical = 0 /\ attempt.begun => UnderWay("append") /\ UnderWay("status")
      BY DEF CInv, PInv, AttemptSound, CreateUnderWay, UnderWay
    <2>4. /\ attempt.answered => attempt.begun
          /\ attempt.target = "failed" => attempt.begun
          /\ attempt.canonical \in Nat
      BY DEF CInv, PInv, AttemptSound, TypeInv
    <2>5. \A what \in Outcomes : Held(what) => UnderWay(what)
      BY DEF Held, UnderWay
    <2>6. attempt.answered => StoredAnswer \/ UnderWay("append")
      BY <2>3, <2>4, <2>5 DEF CInv, OutcomeUnderWay, Outcomes
    <2>7. attempt.target = "failed" =>
             \/ Version("c") > 0 /\ Last(rows["c"]).status = "failed"
             \/ UnderWay("status")
      <3>1. rows["c"] # <<>> => Version("c") > 0 /\ Last(rows["c"]) = Final(rows, "c")
        BY LastIs, StoredIds DEF CInv, PInv, TypeInv, Version, Final
      <3> QED BY <2>3, <2>4, <2>5, <3>1 DEF CInv, OutcomeUnderWay, Outcomes
    <2> QED BY <2>2, <2>6, <2>7 DEF OutcomeRetained
  <1> QED BY <1>1, CInvariant, PTL

=============================================================================
