--------------------------- MODULE AcceptedHistory ---------------------------
(***************************************************************************)
(* What the durable store of a collaborative document promises to those    *)
(* who write to it and read from it, without generations, checkpoints,     *)
(* tails, budgets or tables:                                               *)
(*                                                                         *)
(*   - accepted updates form one sequence that only grows at its end;      *)
(*   - an idempotency key is spent once, and everyone who asks about it    *)
(*     hears the same position;                                            *)
(*   - readers see the content of a prefix of that sequence, never one     *)
(*     shorter than the prefix recorded as published, which only grows;    *)
(*     before collaboration starts they see what the plain document saved  *)
(*     last.                                                               *)
(*                                                                         *)
(* A write that changes nothing may show readers the whole sequence        *)
(* without recording it; a later publication may then show less of it      *)
(* again, but never less than was recorded.                                *)
(***************************************************************************)
EXTENDS Integers, Sequences

CONSTANTS Ops, Keys

VARIABLES
    started,    \* collaboration has started
    base,       \* the content it started from
    log,        \* accepted updates: [key, payload]
    published,  \* length of the prefix that is recorded as published
    content,    \* what readers see
    noops,      \* keys of updates that changed nothing: [key, seq]
    answers     \* positions that callers were told: [key, seq]

historyVars == <<started, base, log, published, content, noops, answers>>

Spent == {log[i].key : i \in DOMAIN log} \cup {n.key : n \in noops}

StateAt(first, entries, n) ==
    first \cup UNION {entries[i].payload : i \in 1 .. n}

Positions(entries, empties) ==
    {[key |-> entries[i].key, seq |-> i] : i \in DOMAIN entries} \cup empties

Init ==
    /\ started = FALSE
    /\ base = {}
    /\ log = <<>>
    /\ published = 0
    /\ content \in SUBSET Ops
    /\ noops = {}
    /\ answers = {}

\* The plain document is saved while collaboration has not started.
Save ==
    /\ ~started
    /\ content' \in SUBSET Ops
    /\ UNCHANGED <<started, base, log, published, noops, answers>>

\* Any write may be the one that starts collaboration.
MayStart ==
    /\ started' = TRUE
    /\ base' = IF started THEN base ELSE content

\* The prefix that is recorded now is what readers see.
Publish(entries, n) ==
    /\ published' = n
    /\ content' = IF n = published THEN content ELSE StateAt(base', entries, n)

Start ==
    /\ ~started
    /\ MayStart
    /\ UNCHANGED <<log, published, content, noops, answers>>

Accept(key, payload) ==
    /\ MayStart
    /\ key \notin Spent
    /\ log' = Append(log, [key |-> key, payload |-> payload])
    /\ \E n \in {published, Len(log), Len(log) + 1} : Publish(log', n)
    /\ noops' = noops

AcceptNothing(key) ==
    /\ MayStart
    /\ key \notin Spent
    /\ noops' = noops \cup {[key |-> key, seq |-> Len(log)]}
    /\ content' \in {content, StateAt(base', log, Len(log))}
    /\ UNCHANGED <<log, published>>

\* Callers are told positions of spent keys only.
MayAnswer ==
    \/ answers' = answers
    \/ \E p \in Positions(log', noops') : answers' = answers \cup {p}

Write ==
    /\ \/ UNCHANGED <<started, base, log, published, content, noops>>
       \/ \E k \in Keys, ops \in SUBSET Ops : Accept(k, ops)
       \/ \E k \in Keys : AcceptNothing(k)
    /\ MayAnswer

Project ==
    /\ started
    /\ \E n \in published + 1 .. Len(log) : Publish(log, n)
    /\ UNCHANGED <<started, base, log, noops, answers>>

Next == Write \/ Save \/ Start \/ Project

Spec == Init /\ [][Next]_historyVars

=============================================================================
