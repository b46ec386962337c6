------------------------ MODULE BrowserSession_proofs ------------------------
(***************************************************************************)
(* Proofs about one tab's session, for any number of edits, capabilities   *)
(* and failures.                                                           *)
(***************************************************************************)
EXTENDS BrowserSession, FiniteSetTheorems, TLAPS

-----------------------------------------------------------------------------
(* Types.                                                                  *)

Store == [lifecycle : {"connecting", "reconnecting", "authorization_expired", "fatal"},
          permission : {"none", "read", "write"}, hasCompletedInitialSync : BOOLEAN,
          requiresFreshSync : BOOLEAN, delayed : BOOLEAN, transportSynced : BOOLEAN]

Flags == [pending : BOOLEAN, accepting : BOOLEAN, authenticated : BOOLEAN,
          synced : BOOLEAN, sawDisconnect : BOOLEAN]

Messaged == [kind : {"granted", "synced", "ack", "refused", "closed"},
             reason : {"none", "expired", "draining", "storage", "fatal"}]

UpdatesTyped ==
    /\ made \in 0..MaxEdits
    /\ hashing \subseteq Made /\ awaiting \subseteq Made /\ pending \in Seq(Made)
    /\ barrier \subseteq Made /\ acked \subseteq Made
    /\ awaitingTransportBarrier \in BOOLEAN /\ delayTimer \in BOOLEAN
    /\ up \in Seq(SUBSET Made)
    /\ durable \subseteq Made
    /\ Range(pending) \cap barrier = {}

AuthorityTyped ==
    /\ scopes \in Seq(Scopes) /\ Len(scopes) <= MaxTokens
    /\ capability \in 0..Len(scopes) /\ grantedBy \in 0..Len(scopes) /\ served \in 0..Len(scopes)
    /\ reauthentication \in Flags
    /\ phase \in {"connect", "none", "quiesce", "issuing", "reset", "reconnect", "abandon"}
    /\ phase \notin {"none", "connect"} => hasProvider
    /\ timer \in BOOLEAN /\ hasProvider \in BOOLEAN /\ reconnects \in BOOLEAN

WorldTyped ==
    /\ tab \in {"mounted", "leaving", "destroyed", "timed_out"}
    /\ link \in {"off", "connecting", "open", "detached"}
    /\ down \in Seq(Messaged)
    /\ online \in BOOLEAN /\ outages \in 0..MaxOutages

LEMMA TypeParts ==
    TypeOK <=> store \in Store /\ UpdatesTyped /\ AuthorityTyped /\ WorldTyped
  BY DEF TypeOK, Store, Flags, Messaged, UpdatesTyped, AuthorityTyped, WorldTyped

-----------------------------------------------------------------------------
(* Sequences.                                                              *)

LEMMA TailFacts ==
    ASSUME NEW S, NEW s \in Seq(S), s # <<>>
    PROVE  /\ Tail(s) \in Seq(S)
           /\ Len(s) \in Nat /\ Len(s) > 0
           /\ Len(Tail(s)) = Len(s) - 1
           /\ Head(s) = s[1] /\ Head(s) \in S
           /\ \A i \in 1 .. Len(s) - 1 : Tail(s)[i] = s[i + 1]
           /\ Range(s) = {s[1]} \cup Range(Tail(s))
  <1>1. /\ Tail(s) \in Seq(S)
        /\ Len(s) \in Nat /\ Len(s) > 0
        /\ Len(Tail(s)) = Len(s) - 1
        /\ Head(s) = s[1] /\ Head(s) \in S
        /\ \A i \in 1 .. Len(s) - 1 : Tail(s)[i] = s[i + 1]
    OBVIOUS
  <1>2. \A i \in 1 .. Len(s) : i = 1 \/ (i - 1 \in 1 .. Len(s) - 1 /\ s[i] = Tail(s)[i - 1])
    BY <1>1
  <1>3. DOMAIN s = 1 .. Len(s) /\ DOMAIN Tail(s) = 1 .. Len(s) - 1
    BY <1>1
  <1>4. Range(s) \subseteq {s[1]} \cup Range(Tail(s))
    <2>1. ASSUME NEW i \in 1 .. Len(s) PROVE s[i] \in {s[1]} \cup Range(Tail(s))
      <3>1. CASE i = 1
        BY <3>1
      <3>2. CASE i # 1
        <4>1. i - 1 \in DOMAIN Tail(s) /\ s[i] = Tail(s)[i - 1]
          BY <1>2, <1>3, <3>2
        <4> QED BY <4>1 DEF Range
      <3> QED BY <3>1, <3>2
    <2> QED BY <1>3, <2>1 DEF Range
  <1>5. {s[1]} \cup Range(Tail(s)) \subseteq Range(s)
    <2>1. \A i \in 1 .. Len(s) - 1 : i + 1 \in 1 .. Len(s)
      BY <1>1
    <2> QED BY <1>1, <1>3, <2>1 DEF Range
  <1> QED BY <1>1, <1>4, <1>5

LEMMA AppendFacts ==
    ASSUME NEW S, NEW s \in Seq(S), NEW e \in S
    PROVE  /\ Append(s, e) \in Seq(S)
           /\ Append(s, e) # <<>>
           /\ Len(s) \in Nat
           /\ Len(Append(s, e)) = Len(s) + 1
           /\ Append(s, e)[Len(s) + 1] = e
           /\ \A i \in 1 .. Len(s) : Append(s, e)[i] = s[i]
           /\ Range(Append(s, e)) = Range(s) \cup {e}
  <1>1. /\ Append(s, e) \in Seq(S)
        /\ Append(s, e) # <<>>
        /\ Len(s) \in Nat
        /\ Len(Append(s, e)) = Len(s) + 1
        /\ Append(s, e)[Len(s) + 1] = e
        /\ \A i \in 1 .. Len(s) : Append(s, e)[i] = s[i]
        /\ DOMAIN s = 1 .. Len(s)
        /\ DOMAIN Append(s, e) = 1 .. Len(s) + 1
    OBVIOUS
  <1>2. \A i \in 1 .. Len(s) + 1 : i \in 1 .. Len(s) \/ i = Len(s) + 1
    BY <1>1
  <1>3. Range(Append(s, e)) \subseteq Range(s) \cup {e}
    BY <1>1, <1>2 DEF Range
  <1>4. \A i \in 1 .. Len(s) : i \in 1 .. Len(s) + 1
    BY <1>1
  <1>5. Len(s) + 1 \in 1 .. Len(s) + 1
    BY <1>1
  <1>6. Range(s) \cup {e} \subseteq Range(Append(s, e))
    BY <1>1, <1>4, <1>5 DEF Range
  <1> QED BY <1>1, <1>3, <1>6

LEMMA RangeType ==
    ASSUME NEW S, NEW s \in Seq(S)
    PROVE  Range(s) \subseteq S
  BY DEF Range

LEMMA EmptyRange == Range(<<>>) = {}
  BY DEF Range

LEMMA EmptySequence ==
    ASSUME NEW S
    PROVE  <<>> \in Seq(S)
  OBVIOUS

-----------------------------------------------------------------------------
(* The session store.                                                      *)

\* A failed session may do nothing.
HonestStore(s) == s \in Store /\ (s.lifecycle = "fatal" => s.permission = "none")

\* What every transition but authentication does: it gives no permission, and
\* does not heal a failed session.
Tame(s, t) ==
    /\ HonestStore(t)
    /\ t.permission \in {s.permission, "none"}
    /\ s.lifecycle = "fatal" => t.lifecycle = "fatal"

LEMMA TameTransitions ==
    ASSUME NEW s, HonestStore(s)
    PROVE  /\ Tame(s, s)
           /\ Tame(s, BeginReauthenticating(s))
           /\ Tame(s, MarkTransportSynced(s))
           /\ Tame(s, MarkAuthorizationExpired(s))
           /\ Tame(s, MarkDisconnected(s))
           /\ Tame(s, MarkFatal(s))
           /\ Tame(s, MarkStorageDelayed(s))
           /\ BeginReauthenticating(s).permission = "none"
           /\ MarkAuthorizationExpired(s).permission = "none"
           /\ MarkFatal(s).lifecycle = "fatal"
  <1>1. /\ s \in Store
        /\ s.lifecycle = "fatal" => s.permission = "none"
    BY DEF HonestStore
  <1>2. Tame(s, s)
    BY DEF Tame, HonestStore
  <1>3. Tame(s, BeginReauthenticating(s)) /\ BeginReauthenticating(s).permission = "none"
    BY <1>1 DEF Tame, HonestStore, BeginReauthenticating, Store
  <1>4. Tame(s, MarkTransportSynced(s))
    BY <1>1 DEF Tame, HonestStore, MarkTransportSynced, Store, IsTerminal
  <1>5. Tame(s, MarkAuthorizationExpired(s)) /\ MarkAuthorizationExpired(s).permission = "none"
    BY <1>1 DEF Tame, HonestStore, MarkAuthorizationExpired, Store
  <1>6. Tame(s, MarkDisconnected(s))
    BY <1>1 DEF Tame, HonestStore, MarkDisconnected, Store, IsTerminal
  <1>7. Tame(s, MarkFatal(s)) /\ MarkFatal(s).lifecycle = "fatal"
    BY <1>1 DEF Tame, HonestStore, MarkFatal, Store
  <1>8. Tame(s, MarkStorageDelayed(s))
    BY <1>1 DEF Tame, HonestStore, MarkStorageDelayed, Store, IsTerminal
  <1> QED BY <1>2, <1>3, <1>4, <1>5, <1>6, <1>7, <1>8

LEMMA TameConnecting ==
    ASSUME NEW s, HonestStore(s)
    PROVE  Tame(s, BeginConnecting(s))
  <1>1. /\ s \in Store
        /\ s.lifecycle = "fatal" => s.permission = "none"
    BY DEF HonestStore
  <1>2. CASE s.lifecycle = "fatal"
    BY <1>1, <1>2 DEF Tame, HonestStore, BeginConnecting
  <1>3. CASE s.lifecycle # "fatal"
    <2>1. PICK l \in {"connecting", "reconnecting"}, p \in {s.permission, "none"} :
            BeginConnecting(s) = [s EXCEPT !.lifecycle = l, !.permission = p,
                                           !.delayed = FALSE, !.transportSynced = FALSE]
      BY <1>3 DEF BeginConnecting
    <2>2. p \in {"none", "read", "write"}
      BY <1>1 DEF Store
    <2>3. BeginConnecting(s)
            = [lifecycle |-> l, permission |-> p,
               hasCompletedInitialSync |-> s.hasCompletedInitialSync,
               requiresFreshSync |-> s.requiresFreshSync,
               delayed |-> FALSE, transportSynced |-> FALSE]
      BY <1>1, <2>1 DEF Store
    <2>4. s.hasCompletedInitialSync \in BOOLEAN /\ s.requiresFreshSync \in BOOLEAN
      BY <1>1 DEF Store
    <2>5. BeginConnecting(s) \in Store
      BY <2>2, <2>3, <2>4 DEF Store
    <2>6. BeginConnecting(s).lifecycle = l /\ BeginConnecting(s).permission = p
      BY <2>3
    <2> QED BY <1>3, <2>5, <2>6 DEF Tame, HonestStore
  <1> QED BY <1>2, <1>3

LEMMA TameTrans ==
    ASSUME NEW s, NEW t, NEW u, Tame(s, t), Tame(t, u)
    PROVE  Tame(s, u)
  BY DEF Tame

\* Authentication gives the permission of a scope, never to a terminal session.
LEMMA Authenticating ==
    ASSUME NEW s, HonestStore(s), NEW scope
    PROVE  /\ HonestStore(MarkAuthenticated(s, scope))
           /\ s.lifecycle = "fatal" => MarkAuthenticated(s, scope).lifecycle = "fatal"
           /\ IsTerminal(s) => MarkAuthenticated(s, scope) = s
           /\ ~IsTerminal(s) =>
                MarkAuthenticated(s, scope).permission = Permission(scope)
  <1>1. s \in Store
    BY DEF HonestStore
  <1>2. Permission(scope) \in {"none", "read", "write"}
    BY DEF Permission
  <1>3. CASE IsTerminal(s)
    BY <1>3 DEF MarkAuthenticated
  <1>4. CASE ~IsTerminal(s)
    <2>1. s.lifecycle # "fatal"
      BY <1>4 DEF IsTerminal
    <2>2. MarkAuthenticated(s, scope)
            = [s EXCEPT !.permission = Permission(scope),
                        !.hasCompletedInitialSync =
                           s.hasCompletedInitialSync \/ s.transportSynced]
      BY <1>4 DEF MarkAuthenticated
    <2>3. (s.hasCompletedInitialSync \/ s.transportSynced) \in BOOLEAN
      OBVIOUS
    <2>4. /\ MarkAuthenticated(s, scope) \in Store
          /\ MarkAuthenticated(s, scope).permission = Permission(scope)
          /\ MarkAuthenticated(s, scope).lifecycle = s.lifecycle
      <3> DEFINE p == Permission(scope)
                 b == s.hasCompletedInitialSync \/ s.transportSynced
      <3>1. p \in {"none", "read", "write"} /\ b \in BOOLEAN
        BY <1>2, <2>3
      <3>2. MarkAuthenticated(s, scope)
              = [s EXCEPT !.permission = p, !.hasCompletedInitialSync = b]
        BY <2>2
      <3> HIDE DEF p, b
      <3>3. /\ MarkAuthenticated(s, scope) \in Store
            /\ MarkAuthenticated(s, scope).permission = p
            /\ MarkAuthenticated(s, scope).lifecycle = s.lifecycle
        BY <1>1, <3>1, <3>2 DEF Store
      <3> QED BY <3>3 DEF p
    <2> QED BY <1>4, <2>1, <2>4 DEF HonestStore
  <1> QED BY <1>3, <1>4

\* Only the lists of updates and the delay are about storage.
LEMMA TameDelay ==
    ASSUME NEW s, HonestStore(s), NEW b \in BOOLEAN
    PROVE  Tame(s, [s EXCEPT !.delayed = b])
  BY DEF Tame, HonestStore, Store

-----------------------------------------------------------------------------
(* Authority.                                                              *)

\* What the transport is about: nothing is on its way where there is none, and
\* nobody is served, or told so, but on a transport that the sidecar accepted.
LinkShape ==
    /\ link \in {"off", "connecting"} => served = 0 /\ down = <<>>
    /\ link = "off" => served = 0
    /\ \A i \in 1 .. Len(down) : down[i].kind = "granted" => served # 0

\* A tab without a provider waits for its first capability, or for nothing.
Detached ==
    /\ ~hasProvider => link = "off" /\ ~reconnects /\ ~timer
    /\ phase = "connect" => ~hasProvider /\ store.permission = "none"

\* A transport is served with the capability at hand, or its events are ignored;
\* while a capability is replaced there is none; and a permission to write is
\* that of the capability at hand.
AuthorityHeld ==
    /\ served # 0 => served = capability \/ Ignores
    /\ phase \in {"quiesce", "issuing", "abandon"} => capability = 0
    /\ hasProvider /\ store.permission = "write" =>
         capability # 0 /\ grantedBy = capability /\ scopes[capability] = "read-write"

AInv == /\ HonestStore(store) /\ UpdatesTyped /\ AuthorityTyped /\ WorldTyped
        /\ LinkShape /\ Detached /\ AuthorityHeld

LEMMA AInvInit == Init => AInv
  <1> SUFFICES ASSUME Init PROVE AInv
    OBVIOUS
  <1> USE BrowserBounds
  <1>1. HonestStore(store)
    BY DEF Init, HonestStore, Store
  <1>2. UpdatesTyped
    <2>1. pending = <<>> /\ up = <<>> /\ Range(pending) = {}
      BY EmptyRange DEF Init
    <2>2. pending \in Seq(Made) /\ up \in Seq(SUBSET Made)
      BY <2>1
    <2>3. made \in 0 .. MaxEdits
      BY DEF Init
    <2> QED BY <2>1, <2>2, <2>3 DEF Init, UpdatesTyped
  <1>3. AuthorityTyped
    <2>1. scopes \in Seq(Scopes) /\ Len(scopes) = 0
      BY DEF Init
    <2>2. reauthentication \in Flags
      BY DEF Init, Flags
    <2>3. /\ Len(scopes) <= MaxTokens
          /\ capability \in 0 .. Len(scopes) /\ grantedBy \in 0 .. Len(scopes)
          /\ served \in 0 .. Len(scopes)
      BY <2>1 DEF Init
    <2>4. /\ timer \in BOOLEAN /\ hasProvider \in BOOLEAN /\ reconnects \in BOOLEAN
          /\ phase = "connect"
      BY DEF Init
    <2> QED BY <2>1, <2>2, <2>3, <2>4 DEF AuthorityTyped
  <1>4. WorldTyped
    BY DEF Init, WorldTyped
  <1>5. LinkShape /\ Detached /\ AuthorityHeld
    BY DEF Init, LinkShape, Detached, AuthorityHeld
  <1> QED BY <1>1, <1>2, <1>3, <1>4, <1>5 DEF AInv

\* What a step of the session's updates may do, seen from their types.
LEMMA EditsGrow ==
    ASSUME NEW n \in Nat
    PROVE  /\ 1 .. n \subseteq 1 .. (n + 1)
           /\ n + 1 \in 1 .. (n + 1)
           /\ n + 1 \notin 1 .. n
  OBVIOUS

LEMMA MovedTyped ==
    ASSUME UpdatesTyped, MoveToBarrier,
           UNCHANGED <<hashing, awaiting, acked, delayTimer, made, durable>>,
           awaitingTransportBarrier' \in BOOLEAN,
           up' \in {up, <<>>}
    PROVE  UpdatesTyped'
  <1>1. Range(pending) \subseteq Made
    BY RangeType DEF UpdatesTyped
  <1>2. barrier' = barrier \cup Range(pending) /\ pending' = <<>> /\ Range(pending') = {}
    BY EmptyRange DEF MoveToBarrier
  <1>3. Made' = Made
    BY DEF Made
  <1>4. pending' \in Seq(Made) /\ up' \in Seq(SUBSET Made)
    BY <1>2, EmptySequence DEF UpdatesTyped
  <1>5. barrier' \subseteq Made /\ Range(pending') \cap barrier' = {}
    BY <1>1, <1>2 DEF UpdatesTyped
  <1>6. hashing' \subseteq Made' /\ awaiting' \subseteq Made' /\ acked' \subseteq Made'
    BY <1>3 DEF UpdatesTyped
  <1>7. pending' \in Seq(Made')
    BY <1>3, <1>4
  <1>8. up' \in Seq(SUBSET Made')
    BY <1>3, <1>4
  <1>9. awaitingTransportBarrier' \in BOOLEAN /\ delayTimer' \in BOOLEAN
    BY DEF UpdatesTyped
  <1>10. made' \in 0 .. MaxEdits /\ durable' \subseteq Made'
    BY <1>3 DEF UpdatesTyped
  <1> QED BY <1>3, <1>5, <1>6, <1>7, <1>8, <1>9, <1>10 DEF UpdatesTyped

LEMMA DroppedTyped ==
    ASSUME UpdatesTyped,
           hashing' \subseteq hashing, delayTimer' = FALSE, up' = <<>>,
           UNCHANGED <<awaiting, acked, awaitingTransportBarrier, made, durable>>,
           \/ UNCHANGED <<pending, barrier>>
           \/ pending' = <<>> /\ barrier' = {}
    PROVE  UpdatesTyped'
  <1>1. Made' = Made
    BY DEF Made
  <1>2. up' \in Seq(SUBSET Made) /\ pending' \in Seq(Made)
    BY EmptySequence DEF UpdatesTyped
  <1>3. barrier' \subseteq Made /\ Range(pending') \cap barrier' = {}
    BY EmptyRange DEF UpdatesTyped
  <1> QED BY <1>1, <1>2, <1>3 DEF UpdatesTyped

LEMMA QuietTyped ==
    ASSUME UpdatesTyped, UNCHANGED <<updateVars, made, durable>>, up' \in {up, <<>>}
    PROVE  UpdatesTyped'
  <1>1. Made' = Made
    BY DEF Made
  <1>2. up' \in Seq(SUBSET Made)
    BY EmptySequence DEF UpdatesTyped
  <1> QED BY <1>1, <1>2 DEF UpdatesTyped, updateVars

\* The lemmas about the parts that most steps leave alone.
LEMMA ConnectingOpens ==
    ASSUME AInv, link = "off", NEW s, Tame(store, s), NEW flags \in Flags,
           Connecting(s, flags)
    PROVE  /\ Tame(store, store')
           /\ reauthentication' \in Flags
           /\ MoveToBarrier /\ awaitingTransportBarrier' = TRUE
           /\ UNCHANGED <<hashing, awaiting, acked, delayTimer, up>>
           /\ link' = "connecting" /\ reconnects' = TRUE
           /\ served' = 0 /\ down' = <<>>
  <1>1. HonestStore(s)
    BY DEF Tame
  <1>2. Tame(s, BeginReauthenticating(s)) /\ HonestStore(BeginReauthenticating(s))
    BY <1>1, TameTransitions DEF Tame
  <1>3. PICK t \in {s, BeginReauthenticating(s)} : store' = BeginConnecting(t)
    BY DEF Connecting
  <1>4. HonestStore(t) /\ Tame(store, t)
    BY <1>1, <1>2, TameTrans
  <1>5. Tame(t, BeginConnecting(t))
    BY <1>4, TameConnecting
  <1>6. Tame(store, store')
    BY <1>3, <1>4, <1>5, TameTrans
  <1>7. reauthentication' \in Flags
    BY DEF Connecting, Flags
  <1> QED BY <1>6, <1>7 DEF Connecting, AInv, LinkShape

LEMMA TailGranted ==
    ASSUME AInv, down # <<>>, down' = Tail(down), served' = served
    PROVE  /\ down' \in Seq(Messaged)
           /\ \A i \in 1 .. Len(down') : down'[i].kind = "granted" => served' # 0
  <1>1. down \in Seq(Messaged)
    BY DEF AInv, WorldTyped
  <1>2. /\ down' \in Seq(Messaged) /\ Len(down) \in Nat
        /\ Len(down') = Len(down) - 1
        /\ \A i \in 1 .. Len(down) - 1 : down'[i] = down[i + 1]
    BY <1>1, TailFacts
  <1>3. \A i \in 1 .. Len(down) - 1 : i + 1 \in 1 .. Len(down)
    BY <1>2
  <1> QED BY <1>2, <1>3 DEF AInv, LinkShape

LEMMA AppendGranted ==
    ASSUME AInv, NEW m \in Messaged, m.kind # "granted",
           down' = Append(down, m), served' = served
    PROVE  /\ down' \in Seq(Messaged)
           /\ \A i \in 1 .. Len(down') : down'[i].kind = "granted" => served' # 0
  <1>1. down \in Seq(Messaged)
    BY DEF AInv, WorldTyped
  <1>2. /\ down' \in Seq(Messaged) /\ Len(down) \in Nat
        /\ Len(down') = Len(down) + 1
        /\ down'[Len(down) + 1] = m
        /\ \A i \in 1 .. Len(down) : down'[i] = down[i]
    BY <1>1, AppendFacts
  <1>3. \A i \in 1 .. Len(down) + 1 : i \in 1 .. Len(down) \/ i = Len(down) + 1
    BY <1>2
  <1> QED BY <1>2, <1>3 DEF AInv, LinkShape

LEMMA Issued ==
    ASSUME AuthorityTyped, NEW scope \in Scopes, Issues(scope)
    PROVE  /\ scopes' \in Seq(Scopes) /\ Len(scopes) \in Nat
           /\ Len(scopes') = Len(scopes) + 1 /\ Len(scopes') <= MaxTokens
           /\ capability' = Len(scopes')
           /\ \A i \in 0 .. Len(scopes) : i \in 0 .. Len(scopes')
  <1>1. scopes \in Seq(Scopes)
    BY DEF AuthorityTyped
  <1>2. /\ scopes' \in Seq(Scopes) /\ Len(scopes) \in Nat
        /\ Len(scopes') = Len(scopes) + 1
    BY <1>1, AppendFacts DEF Issues
  <1> QED BY <1>2, BrowserBounds DEF Issues, MayRefresh

LEMMA Failed ==
    ASSUME WorldTyped, Fails
    PROVE  outages' \in 0 .. MaxOutages
  BY BrowserBounds DEF WorldTyped, Fails

LEMMA NoCapability ==
    ASSUME AuthorityTyped
    PROVE  0 \in 0 .. Len(scopes)
  <1>1. scopes \in Seq(Scopes)
    BY DEF AuthorityTyped
  <1> QED BY <1>1

LEMMA Refreshing ==
    ASSUME AInv, hasProvider, NEW s, Tame(store, s), RefreshUnlessRunning(s)
    PROVE  /\ Tame(store, store')
           /\ \/ UNCHANGED <<reauthentication, capability, reconnects, phase>>
              \/ /\ reauthentication' \in Flags
                 /\ reauthentication'.pending /\ ~reauthentication'.accepting
                 /\ capability' = 0 /\ reconnects' = FALSE /\ phase' = "quiesce"
                 /\ store'.permission = "none"
  <1>1. CASE phase = "none"
    <2>1. BeginRefresh(s)
      BY <1>1 DEF RefreshUnlessRunning
    <2>2. /\ Tame(s, BeginReauthenticating(s))
          /\ BeginReauthenticating(s).permission = "none"
      BY TameTransitions DEF Tame
    <2>3. Tame(store, store') /\ store'.permission = "none"
      BY <2>1, <2>2, TameTrans DEF BeginRefresh
    <2> QED BY <2>1, <2>3 DEF BeginRefresh, Flags
  <1>2. CASE phase # "none"
    BY <1>2 DEF RefreshUnlessRunning
  <1> QED BY <1>1, <1>2

\* The steps that leave the updates alone.
LEMMA QuiescedKeeps ==
    ASSUME AInv, Quiesced
    PROVE  AInv'
  <1>1. Tame(store, store')
    BY TameTransitions DEF AInv, Quiesced, linkVars, worldVars, updateVars
  <1>2. HonestStore(store)'
    BY <1>1 DEF Tame
  <1>3. UpdatesTyped'
    BY QuietTyped DEF AInv, Quiesced, linkVars, worldVars, updateVars
  <1>4. AuthorityTyped'
    BY DEF AInv, AuthorityTyped, Quiesced, linkVars, worldVars
  <1>5. WorldTyped'
    BY DEF AInv, WorldTyped, Quiesced, linkVars, worldVars
  <1>6. LinkShape'
    BY DEF AInv, LinkShape, Quiesced, linkVars
  <1>7. Detached'
    BY DEF AInv, Detached, Quiesced, linkVars
  <1>8. AuthorityHeld'
    BY DEF AInv, AuthorityHeld, Ignores, Quiesced, linkVars
  <1> QED BY <1>2, <1>3, <1>4, <1>5, <1>6, <1>7, <1>8 DEF AInv

LEMMA IssueFailsKeeps ==
    ASSUME AInv, IssueFails
    PROVE  AInv'
  <1>1. Tame(store, store')
    BY TameTransitions DEF AInv, IssueFails, worldVars, updateVars
  <1>2. HonestStore(store)'
    BY <1>1 DEF Tame
  <1>3. UpdatesTyped'
    BY QuietTyped DEF AInv, IssueFails, worldVars, updateVars
  <1>4. AuthorityTyped'
    BY DEF AInv, AuthorityTyped, IssueFails, worldVars
  <1>5. WorldTyped'
    BY DEF AInv, WorldTyped, IssueFails, worldVars
  <1>6. LinkShape'
    BY DEF AInv, LinkShape, IssueFails
  <1>7. Detached'
    BY DEF AInv, Detached, IssueFails
  <1>8. AuthorityHeld'
    BY DEF AInv, AuthorityHeld, Ignores, IssueFails
  <1> QED BY <1>2, <1>3, <1>4, <1>5, <1>6, <1>7, <1>8 DEF AInv

LEMMA RefreshFailsKeeps ==
    ASSUME AInv, RefreshFails
    PROVE  AInv'
  <1>1. Tame(store, store')
    BY TameTransitions DEF AInv, RefreshFails, linkVars, worldVars, updateVars
  <1>2. HonestStore(store)'
    BY <1>1 DEF Tame
  <1>3. UpdatesTyped'
    BY QuietTyped DEF AInv, RefreshFails, linkVars, worldVars, updateVars
  <1>4. AuthorityTyped'
    BY DEF AInv, AuthorityTyped, RefreshFails, linkVars, worldVars, Flags
  <1>5. WorldTyped'
    BY DEF AInv, WorldTyped, RefreshFails, linkVars, worldVars
  <1>6. LinkShape'
    BY DEF AInv, LinkShape, RefreshFails, linkVars
  <1>7. Detached'
    BY DEF AInv, Detached, RefreshFails, linkVars
  <1>8. AuthorityHeld'
    BY <1>1 DEF Tame, AInv, LinkShape, AuthorityHeld, RefreshFails, linkVars
  <1> QED BY <1>2, <1>3, <1>4, <1>5, <1>6, <1>7, <1>8 DEF AInv

LEMMA NetworkFailsKeeps ==
    ASSUME AInv, NetworkFails
    PROVE  AInv'
  <1>1. Tame(store, store')
    BY TameTransitions DEF AInv, NetworkFails, browserVars, linkVars, updateVars, authorityVars
  <1>2. HonestStore(store)'
    BY <1>1 DEF Tame
  <1>3. UpdatesTyped'
    BY QuietTyped DEF AInv, NetworkFails, browserVars, linkVars, updateVars, authorityVars
  <1>4. AuthorityTyped'
    BY DEF AInv, AuthorityTyped, NetworkFails, browserVars, linkVars, authorityVars
  <1>5. WorldTyped'
    BY Failed DEF AInv, WorldTyped, NetworkFails, browserVars, linkVars
  <1>6. LinkShape'
    BY DEF AInv, LinkShape, NetworkFails, linkVars
  <1>7. Detached'
    BY DEF AInv, Detached, NetworkFails, browserVars, linkVars, authorityVars
  <1>8. AuthorityHeld'
    BY DEF AInv, AuthorityHeld, Ignores, NetworkFails, browserVars, linkVars, authorityVars
  <1> QED BY <1>2, <1>3, <1>4, <1>5, <1>6, <1>7, <1>8 DEF AInv

LEMMA NetworkReturnsKeeps ==
    ASSUME AInv, NetworkReturns
    PROVE  AInv'
  <1>1. Tame(store, store')
    BY TameTransitions DEF AInv, NetworkReturns, browserVars, linkVars, updateVars, authorityVars
  <1>2. HonestStore(store)'
    BY <1>1 DEF Tame
  <1>3. UpdatesTyped'
    BY QuietTyped DEF AInv, NetworkReturns, browserVars, linkVars, updateVars, authorityVars
  <1>4. AuthorityTyped'
    BY DEF AInv, AuthorityTyped, NetworkReturns, browserVars, linkVars, authorityVars
  <1>5. WorldTyped'
    BY DEF AInv, WorldTyped, NetworkReturns, browserVars, linkVars
  <1>6. LinkShape'
    BY DEF AInv, LinkShape, NetworkReturns, linkVars
  <1>7. Detached'
    BY DEF AInv, Detached, NetworkReturns, browserVars, linkVars, authorityVars
  <1>8. AuthorityHeld'
    BY DEF AInv, AuthorityHeld, Ignores, NetworkReturns, browserVars, linkVars, authorityVars
  <1> QED BY <1>2, <1>3, <1>4, <1>5, <1>6, <1>7, <1>8 DEF AInv

LEMMA RefreshTimerFiresKeeps ==
    ASSUME AInv, RefreshTimerFires
    PROVE  AInv'
  <1>1. /\ Tame(store, store')
        /\ \/ UNCHANGED <<reauthentication, capability, reconnects, phase>>
           \/ /\ reauthentication' \in Flags
              /\ reauthentication'.pending /\ ~reauthentication'.accepting
              /\ capability' = 0 /\ reconnects' = FALSE /\ phase' = "quiesce"
              /\ store'.permission = "none"
    BY Refreshing, TameTransitions DEF RefreshTimerFires, AInv, AuthorityTyped, Detached
  <1>2. HonestStore(store)'
    BY <1>1 DEF Tame
  <1>3. UpdatesTyped'
    BY QuietTyped DEF AInv, RefreshTimerFires, updateVars, worldVars
  <1>4. AuthorityTyped'
    BY <1>1, NoCapability DEF AInv, AuthorityTyped, Detached, RefreshTimerFires, worldVars
  <1>5. WorldTyped'
    BY DEF AInv, WorldTyped, RefreshTimerFires, worldVars
  <1>6. LinkShape'
    BY DEF AInv, LinkShape, RefreshTimerFires
  <1>7. Detached'
    BY <1>1 DEF AInv, Detached, RefreshTimerFires
  <1>8. AuthorityHeld'
    BY <1>1 DEF Tame, AInv, AuthorityHeld, Ignores, RefreshTimerFires, worldVars
  <1> QED BY <1>2, <1>3, <1>4, <1>5, <1>6, <1>7, <1>8 DEF AInv

LEMMA IssueSucceedsKeeps ==
    ASSUME AInv, IssueSucceeds
    PROVE  AInv'
  <1>1. Tame(store, store')
    BY TameTransitions DEF AInv, IssueSucceeds, Issues, updateVars
  <1>2. HonestStore(store)'
    BY <1>1 DEF Tame
  <1>3. UpdatesTyped'
    BY QuietTyped DEF AInv, IssueSucceeds, Issues, updateVars
  <1>4. AuthorityTyped'
    <2>1. PICK scope \in Scopes : Issues(scope)
      BY DEF IssueSucceeds
    <2>2. AuthorityTyped
      BY DEF AInv
    <2>3. /\ scopes' \in Seq(Scopes) /\ Len(scopes') <= MaxTokens
          /\ capability' \in 0 .. Len(scopes')
          /\ \A i \in 0 .. Len(scopes) : i \in 0 .. Len(scopes')
      BY <2>1, <2>2, Issued
    <2> QED BY <2>2, <2>3 DEF AuthorityTyped, IssueSucceeds
  <1>5. WorldTyped'
    BY DEF AInv, WorldTyped, IssueSucceeds
  <1>6. LinkShape'
    BY DEF AInv, LinkShape, IssueSucceeds
  <1>7. Detached'
    BY DEF AInv, Detached, IssueSucceeds
  <1>8. AuthorityHeld'
    BY DEF AInv, AuthorityHeld, Ignores, IssueSucceeds
  <1> QED BY <1>2, <1>3, <1>4, <1>5, <1>6, <1>7, <1>8 DEF AInv

LEMMA StorageDelayElapsesKeeps ==
    ASSUME AInv, StorageDelayElapses
    PROVE  AInv'
  <1>1. Tame(store, store')
    BY TameTransitions DEF AInv, StorageDelayElapses, authorityVars, linkVars, worldVars
  <1>2. HonestStore(store)'
    BY <1>1 DEF Tame
  <1>3. UpdatesTyped'
    BY DEF AInv, UpdatesTyped, StorageDelayElapses, worldVars, linkVars, Made
  <1>4. AuthorityTyped'
    BY DEF AInv, AuthorityTyped, StorageDelayElapses, authorityVars, linkVars, worldVars
  <1>5. WorldTyped'
    BY DEF AInv, WorldTyped, StorageDelayElapses, linkVars, worldVars
  <1>6. LinkShape'
    BY DEF AInv, LinkShape, StorageDelayElapses, linkVars
  <1>7. Detached'
    BY <1>1 DEF Tame, AInv, Detached, StorageDelayElapses, authorityVars, linkVars
  <1>8. AuthorityHeld'
    BY <1>1 DEF Tame, AInv, AuthorityHeld, Ignores, StorageDelayElapses, authorityVars, linkVars, worldVars
  <1> QED BY <1>2, <1>3, <1>4, <1>5, <1>6, <1>7, <1>8 DEF AInv

\* The steps that end the provider, or the tab.
LEMMA FailFatalKeeps ==
    ASSUME AInv, FailFatal, hashing' \subseteq hashing
    PROVE  AInv'
  <1>1. Tame(store, store')
    BY TameTransitions DEF AInv, FailFatal
  <1>2. HonestStore(store)'
    BY <1>1 DEF Tame
  <1>3. UpdatesTyped'
    BY DroppedTyped DEF AInv, FailFatal, Teardown, SilentLink, worldVars
  <1>4. /\ reauthentication' \in Flags
        /\ phase' = "none" /\ served' = 0 /\ hasProvider' = FALSE /\ timer' = FALSE
        /\ link' = "off" /\ reconnects' = FALSE /\ down' = <<>> /\ Len(down') = 0
        /\ UNCHANGED <<capability, grantedBy, tab, scopes, online, outages>>
    BY DEF AInv, AuthorityTyped, Flags, FailFatal, Teardown, SilentLink, worldVars
  <1>5. AuthorityTyped'
    BY <1>4, NoCapability DEF AInv, AuthorityTyped
  <1>6. WorldTyped'
    BY <1>4, EmptySequence DEF AInv, WorldTyped
  <1>7. LinkShape' /\ Detached' /\ AuthorityHeld'
    BY <1>4 DEF LinkShape, Detached, AuthorityHeld
  <1> QED BY <1>2, <1>3, <1>5, <1>6, <1>7 DEF AInv

LEMMA DestroyKeeps ==
    ASSUME AInv, NEW end \in {"destroyed", "timed_out"}, Destroy(end)
    PROVE  AInv'
  <1>1. Tame(store, store')
    BY TameTransitions DEF AInv, Destroy
  <1>2. HonestStore(store)'
    BY <1>1 DEF Tame
  <1>3. UpdatesTyped'
    BY DroppedTyped DEF AInv, Destroy, Teardown, SilentLink, worldVars
  <1>4. /\ phase' = "none" /\ served' = 0 /\ hasProvider' = FALSE /\ timer' = FALSE
        /\ link' = "off" /\ reconnects' = FALSE /\ down' = <<>> /\ Len(down') = 0
        /\ capability' = 0 /\ tab' = end
        /\ UNCHANGED <<reauthentication, grantedBy, scopes, online, outages>>
    BY DEF Destroy, Teardown, SilentLink, worldVars
  <1>5. AuthorityTyped'
    <2>1. scopes \in Seq(Scopes)
      BY DEF AInv, AuthorityTyped
    <2>2. 0 \in 0 .. Len(scopes)
      BY <2>1
    <2> QED BY <1>4, <2>2 DEF AInv, AuthorityTyped
  <1>6. WorldTyped'
    BY <1>4, EmptySequence DEF AInv, WorldTyped
  <1>7. LinkShape' /\ Detached' /\ AuthorityHeld'
    BY <1>4 DEF LinkShape, Detached, AuthorityHeld
  <1> QED BY <1>2, <1>3, <1>5, <1>6, <1>7 DEF AInv

LEMMA TransportEndsKeeps ==
    ASSUME AInv, TransportEnds, UNCHANGED online, outages' \in 0 .. MaxOutages
    PROVE  AInv'
  <1>1. Tame(store, store')
    BY TameTransitions DEF AInv, TransportEnds
  <1>2. HonestStore(store)'
    BY <1>1 DEF Tame
  <1>3. UpdatesTyped'
    <2>1. awaitingTransportBarrier' \in BOOLEAN
      BY DEF AInv, UpdatesTyped, TransportEnds
    <2> QED BY <2>1, MovedTyped DEF AInv, TransportEnds
  <1>4. /\ reauthentication' \in Flags
        /\ served' = 0 /\ link' = "off" /\ down' = <<>> /\ Len(down') = 0
        /\ UNCHANGED <<reconnects, capability, phase, timer, grantedBy, hasProvider, tab, scopes>>
    BY DEF AInv, AuthorityTyped, Flags, TransportEnds
  <1>5. 0 \in 0 .. Len(scopes)
    <2>1. scopes \in Seq(Scopes)
      BY DEF AInv, AuthorityTyped
    <2> QED BY <2>1
  <1>6. AuthorityTyped'
    BY <1>4, <1>5 DEF AInv, AuthorityTyped
  <1>7. WorldTyped'
    BY <1>4, EmptySequence DEF AInv, WorldTyped
  <1>8. LinkShape' /\ Detached' /\ AuthorityHeld'
    BY <1>1, <1>4 DEF LinkShape, Detached, AuthorityHeld, AInv, Tame
  <1> QED BY <1>2, <1>3, <1>6, <1>7, <1>8 DEF AInv

LEMMA DismissKeeps ==
    ASSUME AInv, link \in {"connecting", "open"}, hasProvider \/ link # "off",
           NEW kind \in {"refused", "closed"},
           NEW reason \in {"expired", "draining", "storage", "fatal"},
           Dismiss(kind, reason), outages' \in 0 .. MaxOutages
    PROVE  AInv'
  <1>1. HonestStore(store)'
    BY DEF AInv, Dismiss, browserVars, HonestStore
  <1>2. UpdatesTyped'
    BY QuietTyped DEF AInv, Dismiss, browserVars
  <1>3. Message(kind, reason) \in Messaged /\ Message(kind, reason).kind # "granted"
    BY DEF Message, Messaged
  <1>4. /\ down' \in Seq(Messaged)
        /\ \A i \in 1 .. Len(down') : down'[i].kind = "granted" => served' # 0
    BY <1>3, AppendGranted DEF Dismiss
  <1>5. /\ link' = "detached"
        /\ UNCHANGED <<store, authorityVars, hasProvider, tab, made, reconnects, served, scopes, online>>
    BY DEF Dismiss, browserVars
  <1>6. AuthorityTyped'
    BY <1>5 DEF AInv, AuthorityTyped, authorityVars
  <1>7. WorldTyped'
    BY <1>4, <1>5 DEF AInv, WorldTyped
  <1>8. LinkShape' /\ Detached' /\ AuthorityHeld'
    BY <1>4, <1>5 DEF LinkShape, Detached, AuthorityHeld, AInv, authorityVars, Ignores
  <1> QED BY <1>1, <1>2, <1>6, <1>7, <1>8 DEF AInv

\* The steps that open a transport.
LEMMA FirstIssueSucceedsKeeps ==
    ASSUME AInv, FirstIssueSucceeds
    PROVE  AInv'
  <1>1. link = "off"
    BY DEF AInv, Detached, FirstIssueSucceeds
  <1>2. HonestStore(store) /\ reauthentication \in Flags
    BY DEF AInv, AuthorityTyped
  <1>3. Tame(store, store)
    BY <1>2, TameTransitions
  <1>4. /\ Tame(store, store')
        /\ reauthentication' \in Flags
        /\ MoveToBarrier /\ awaitingTransportBarrier' = TRUE
        /\ UNCHANGED <<hashing, awaiting, acked, delayTimer, up>>
        /\ link' = "connecting" /\ reconnects' = TRUE
        /\ served' = 0 /\ down' = <<>>
    BY <1>1, <1>2, <1>3, ConnectingOpens DEF FirstIssueSucceeds, Flags
  <1>5. Tame(store, store') /\ Len(down') = 0
    BY <1>4
  <1>6. HonestStore(store)'
    BY <1>5 DEF Tame
  <1>7. UpdatesTyped'
    BY <1>4, MovedTyped DEF AInv, FirstIssueSucceeds, worldVars
  <1>8. AuthorityTyped'
    <2>1. PICK scope \in Scopes : Issues(scope)
      BY DEF FirstIssueSucceeds
    <2>2. AuthorityTyped
      BY DEF AInv
    <2>3. /\ scopes' \in Seq(Scopes) /\ Len(scopes') <= MaxTokens
          /\ capability' \in 0 .. Len(scopes')
          /\ \A i \in 0 .. Len(scopes) : i \in 0 .. Len(scopes')
      BY <2>1, <2>2, Issued
    <2>4. 0 \in 0 .. Len(scopes')
      BY <2>2, <2>3, NoCapability
    <2> QED BY <1>4, <2>2, <2>3, <2>4 DEF AuthorityTyped, FirstIssueSucceeds
  <1>9. WorldTyped'
    BY <1>4 DEF AInv, WorldTyped, FirstIssueSucceeds
  <1>10. LinkShape'
    BY <1>4 DEF LinkShape
  <1>11. Detached'
    BY DEF Detached, FirstIssueSucceeds
  <1>12. AuthorityHeld'
    BY <1>4 DEF Tame, AInv, Detached, AuthorityHeld, FirstIssueSucceeds
  <1> QED BY <1>6, <1>7, <1>8, <1>9, <1>10, <1>11, <1>12 DEF AInv

LEMMA StrayReconnectionKeeps ==
    ASSUME AInv, StrayReconnection
    PROVE  AInv'
  <1>1. link = "off"
    BY DEF AInv, Detached, StrayReconnection
  <1>2. HonestStore(store) /\ reauthentication \in Flags
    BY DEF AInv, AuthorityTyped
  <1>3. Tame(store, store)
    BY <1>2, TameTransitions
  <1>4. /\ Tame(store, store')
        /\ reauthentication' \in Flags
        /\ MoveToBarrier /\ awaitingTransportBarrier' = TRUE
        /\ UNCHANGED <<hashing, awaiting, acked, delayTimer, up>>
        /\ link' = "connecting" /\ reconnects' = TRUE
        /\ served' = 0 /\ down' = <<>>
    BY <1>1, <1>2, <1>3, ConnectingOpens DEF StrayReconnection, Flags
  <1>5. Tame(store, store') /\ Len(down') = 0
    BY <1>4
  <1>6. HonestStore(store)'
    BY <1>5 DEF Tame
  <1>7. UpdatesTyped'
    BY <1>4, MovedTyped DEF AInv, StrayReconnection, worldVars
  <1>8. AuthorityTyped'
    BY <1>4 DEF AInv, AuthorityTyped, StrayReconnection, worldVars
  <1>9. WorldTyped'
    BY <1>4 DEF AInv, WorldTyped, StrayReconnection, worldVars
  <1>10. LinkShape'
    BY <1>4 DEF LinkShape
  <1>11. Detached'
    BY DEF AInv, AuthorityTyped, Detached, StrayReconnection
  <1>12. AuthorityHeld'
    BY <1>4 DEF Tame, AInv, AuthorityHeld, StrayReconnection
  <1> QED BY <1>6, <1>7, <1>8, <1>9, <1>10, <1>11, <1>12 DEF AInv

LEMMA ReconnectKeeps ==
    ASSUME AInv, Reconnect
    PROVE  AInv'
  <1>1. link = "off"
    BY DEF AInv, Detached, Reconnect
  <1>2. HonestStore(store) /\ reauthentication \in Flags
    BY DEF AInv, AuthorityTyped
  <1>3. Tame(store, store)
    BY <1>2, TameTransitions
  <1>4. /\ Tame(store, store')
        /\ reauthentication' \in Flags
        /\ MoveToBarrier /\ awaitingTransportBarrier' = TRUE
        /\ UNCHANGED <<hashing, awaiting, acked, delayTimer, up>>
        /\ link' = "connecting" /\ reconnects' = TRUE
        /\ served' = 0 /\ down' = <<>>
    BY <1>1, <1>2, <1>3, ConnectingOpens DEF Reconnect, Flags
  <1>5. Tame(store, store') /\ Len(down') = 0
    BY <1>4
  <1>6. HonestStore(store)'
    BY <1>5 DEF Tame
  <1>7. UpdatesTyped'
    BY <1>4, MovedTyped DEF AInv, Reconnect, worldVars
  <1>8. AuthorityTyped'
    BY <1>4 DEF AInv, AuthorityTyped, Reconnect, worldVars
  <1>9. WorldTyped'
    BY <1>4 DEF AInv, WorldTyped, Reconnect, worldVars
  <1>10. LinkShape'
    BY <1>4 DEF LinkShape
  <1>11. Detached'
    BY DEF AInv, Detached, Reconnect
  <1>12. AuthorityHeld'
    BY <1>4 DEF Tame, AInv, AuthorityHeld, Reconnect, worldVars
  <1> QED BY <1>6, <1>7, <1>8, <1>9, <1>10, <1>11, <1>12 DEF AInv

LEMMA ResetTransportKeeps ==
    ASSUME AInv, ResetTransport
    PROVE  AInv'
  <1>1. link = "off"
    BY DEF AInv, Detached, ResetTransport
  <1>2. HonestStore(store) /\ reauthentication \in Flags
    BY DEF AInv, AuthorityTyped
  <1>3. Tame(store, BeginReauthenticating(store))
    BY <1>2, TameTransitions
  <1>4. /\ Tame(store, store')
        /\ reauthentication' \in Flags
        /\ MoveToBarrier /\ awaitingTransportBarrier' = TRUE
        /\ UNCHANGED <<hashing, awaiting, acked, delayTimer, up>>
        /\ link' = "connecting" /\ reconnects' = TRUE
        /\ served' = 0 /\ down' = <<>>
    BY <1>1, <1>2, <1>3, ConnectingOpens DEF ResetTransport, Flags
  <1>5. Tame(store, store') /\ Len(down') = 0
    BY <1>4
  <1>6. HonestStore(store)'
    BY <1>5 DEF Tame
  <1>7. UpdatesTyped'
    BY <1>4, MovedTyped DEF AInv, ResetTransport, worldVars
  <1>8. AuthorityTyped'
    BY <1>4 DEF AInv, AuthorityTyped, ResetTransport, worldVars
  <1>9. WorldTyped'
    BY <1>4 DEF AInv, WorldTyped, ResetTransport, worldVars
  <1>10. LinkShape'
    BY <1>4 DEF LinkShape
  <1>11. Detached'
    BY DEF AInv, AuthorityTyped, Detached, ResetTransport
  <1>12. AuthorityHeld'
    BY <1>4 DEF Tame, AInv, AuthorityHeld, ResetTransport, worldVars
  <1> QED BY <1>6, <1>7, <1>8, <1>9, <1>10, <1>11, <1>12 DEF AInv

LEMMA FirstIssueFailsKeeps ==
    ASSUME AInv, FirstIssueFails
    PROVE  AInv'
  <1>1. Tame(store, store')
    BY TameTransitions DEF AInv, FirstIssueFails
  <1>2. HonestStore(store)'
    BY <1>1 DEF Tame
  <1>3. UpdatesTyped'
    BY DroppedTyped DEF AInv, FirstIssueFails, Teardown, SilentLink, worldVars
  <1>4. /\ phase' = "none" /\ served' = 0 /\ hasProvider' = FALSE /\ timer' = FALSE
        /\ link' = "off" /\ reconnects' = FALSE /\ down' = <<>> /\ Len(down') = 0
        /\ UNCHANGED <<capability, reauthentication, grantedBy, tab, scopes, online, outages>>
    BY DEF FirstIssueFails, Teardown, SilentLink, worldVars
  <1>5. AuthorityTyped'
    BY <1>4, NoCapability DEF AInv, AuthorityTyped
  <1>6. WorldTyped'
    BY <1>4, EmptySequence DEF AInv, WorldTyped
  <1>7. LinkShape' /\ Detached' /\ AuthorityHeld'
    BY <1>4 DEF LinkShape, Detached, AuthorityHeld
  <1> QED BY <1>2, <1>3, <1>5, <1>6, <1>7 DEF AInv

\* The messages.
LEMMA ReceiveGrantedKeeps ==
    ASSUME AInv, ReceiveGranted
    PROVE  AInv'
  <1>1. /\ down # <<>> /\ Head(down).kind = "granted" /\ down' = Tail(down)
        /\ UNCHANGED <<updateVars, capability, hasProvider, tab, made,
                       link, reconnects, served, up, worldVars>>
    BY DEF ReceiveGranted, Receive
  <1>2. served # 0
    <2>1. down[1].kind = "granted" /\ 1 \in 1 .. Len(down)
      BY <1>1, TailFacts DEF AInv, WorldTyped
    <2> QED BY <2>1 DEF AInv, LinkShape
  <1>3. /\ down' \in Seq(Messaged)
        /\ \A i \in 1 .. Len(down') : down'[i].kind = "granted" => served' # 0
    BY <1>1, TailGranted
  <1>4. \/ Ignores /\ UNCHANGED <<store, grantedBy, reauthentication>>
        \/ /\ ~Ignores
           /\ store' = MarkAuthenticated(store, scopes[served])
           /\ grantedBy' = IF IsTerminal(store) THEN grantedBy ELSE served
    BY DEF ReceiveGranted
  <1>5. reauthentication' \in Flags
    BY DEF ReceiveGranted, FinishedReauthentication, Flags, AInv, AuthorityTyped
  <1>6. HonestStore(store)'
    BY <1>4, Authenticating DEF AInv
  <1>7. UpdatesTyped'
    BY <1>1, QuietTyped DEF AInv, worldVars
  <1>8. AuthorityTyped'
    BY <1>1, <1>4, <1>5 DEF AInv, AuthorityTyped, ReceiveGranted, Connected, worldVars
  <1>9. WorldTyped'
    BY <1>1, <1>3 DEF AInv, WorldTyped, worldVars
  <1>10. LinkShape'
    BY <1>1, <1>3 DEF AInv, LinkShape
  <1>11. /\ hasProvider /\ link # "off"
         /\ phase' # "connect" /\ (phase' \in {"quiesce", "issuing", "abandon"} => phase' = phase)
    BY <1>2 DEF AInv, LinkShape, Detached, ReceiveGranted, Connected
  <1>12. Detached'
    BY <1>1, <1>11 DEF AInv, Detached
  <1>13. AuthorityHeld'
    <2>1. CASE Ignores
      BY <1>1, <1>4, <1>11, <2>1 DEF AInv, AuthorityHeld, Ignores, worldVars
    <2>2. CASE ~Ignores
      <3>1. served = capability
        BY <1>2, <2>2 DEF AInv, AuthorityHeld
      <3>2. CASE IsTerminal(store)
        <4>1. store' = store /\ grantedBy' = grantedBy
          BY <1>4, <2>2, <3>2, Authenticating DEF AInv
        <4> QED BY <1>1, <1>11, <3>1, <4>1 DEF AInv, AuthorityHeld, worldVars
      <3>3. CASE ~IsTerminal(store)
        <4>1. store'.permission = Permission(scopes[served]) /\ grantedBy' = served
          BY <1>4, <2>2, <3>3, Authenticating DEF AInv
        <4>2. store'.permission = "write" => scopes[served] = "read-write"
          BY <4>1 DEF Permission
        <4> QED BY <1>1, <1>2, <1>11, <3>1, <4>1, <4>2 DEF AInv, AuthorityHeld, worldVars
      <3> QED BY <3>2, <3>3
    <2> QED BY <2>1, <2>2
  <1> QED BY <1>6, <1>7, <1>8, <1>9, <1>10, <1>12, <1>13 DEF AInv

LEMMA ReceiveSyncedKeeps ==
    ASSUME AInv, ReceiveSynced
    PROVE  AInv'
  <1>1. /\ down # <<>> /\ down' = Tail(down)
        /\ UNCHANGED <<updateVars, capability, phase, timer, grantedBy, hasProvider, tab, made,
                       link, reconnects, served, worldVars>>
    BY DEF ReceiveSynced, Receive
  <1>2. /\ down' \in Seq(Messaged)
        /\ \A i \in 1 .. Len(down') : down'[i].kind = "granted" => served' # 0
    BY <1>1, TailGranted
  <1>3. /\ Tame(store, store')
        /\ Ignores => reauthentication' = reauthentication
    BY TameTransitions DEF AInv, ReceiveSynced
  <1>4. reauthentication' \in Flags
    BY DEF ReceiveSynced, FinishedReauthentication, Flags, AInv, AuthorityTyped
  <1>5. HonestStore(store)'
    BY <1>3 DEF Tame
  <1>6. UpdatesTyped'
    <2>1. up \in Seq(SUBSET Made) /\ Made' = Made
      BY <1>1 DEF AInv, UpdatesTyped, Made
    <2>2. Append(up, Made) \in Seq(SUBSET Made)
      BY <2>1, AppendFacts
    <2>3. up' \in Seq(SUBSET Made)
      BY <2>1, <2>2 DEF ReceiveSynced
    <2> QED BY <1>1, <2>1, <2>3 DEF AInv, UpdatesTyped, updateVars, worldVars
  <1>7. AuthorityTyped'
    BY <1>1, <1>4 DEF AInv, AuthorityTyped, worldVars
  <1>8. WorldTyped'
    BY <1>1, <1>2 DEF AInv, WorldTyped, worldVars
  <1>9. LinkShape' /\ Detached'
    BY <1>1, <1>2, <1>3 DEF AInv, LinkShape, Detached, Tame
  <1>10. AuthorityHeld'
    BY <1>1, <1>3 DEF AInv, AuthorityHeld, Ignores, Tame, worldVars
  <1> QED BY <1>5, <1>6, <1>7, <1>8, <1>9, <1>10 DEF AInv

LEMMA Acknowledging ==
    ASSUME AInv, NEW edits, edits \subseteq Made, Acknowledge(edits)
    PROVE  /\ Tame(store, store')
           /\ acked' \subseteq Made /\ awaiting' \subseteq Made
  <1>1. HonestStore(store) /\ store.delayed \in BOOLEAN
    BY DEF AInv, HonestStore, Store
  <1>2. PICK b \in BOOLEAN : store' = [store EXCEPT !.delayed = b]
    BY <1>1 DEF Acknowledge
  <1>3. Tame(store, store')
    BY <1>1, <1>2, TameDelay
  <1> QED BY <1>3 DEF AInv, UpdatesTyped, Acknowledge

LEMMA ReceiveAckKeeps ==
    ASSUME AInv, ReceiveAck
    PROVE  AInv'
  <1>1. /\ down # <<>> /\ down' = Tail(down)
        /\ UNCHANGED <<hashing, authorityVars, hasProvider, tab, made,
                       link, reconnects, served, up, worldVars>>
    BY DEF ReceiveAck, Receive
  <1>2. /\ down' \in Seq(Messaged)
        /\ \A i \in 1 .. Len(down') : down'[i].kind = "granted" => served' # 0
    BY <1>1, TailGranted
  <1>3. Tame(store, store') /\ UpdatesTyped'
    <2>1. Made' = Made /\ up' \in Seq(SUBSET Made) /\ durable' \subseteq Made /\ hashing' \subseteq Made
      BY <1>1 DEF AInv, UpdatesTyped, Made, worldVars
    <2>2. /\ pending \in Seq(Made) /\ barrier \subseteq Made
          /\ Range(pending) \cap barrier = {}
          /\ delayTimer \in BOOLEAN
      BY DEF AInv, UpdatesTyped
    <2>3. made' \in 0 .. MaxEdits
      BY <1>1 DEF AInv, UpdatesTyped
    <2>4. ASSUME awaitingTransportBarrier, awaitingTransportBarrier' = FALSE, Acknowledge(barrier),
                 barrier' = {}, delayTimer' = (delayTimer /\ pending # <<>>), UNCHANGED pending
          PROVE  Tame(store, store') /\ UpdatesTyped'
      <3>1. /\ Tame(store, store')
            /\ acked' \subseteq Made /\ awaiting' \subseteq Made
        BY <2>2, <2>4, Acknowledging
      <3>2. delayTimer' \in BOOLEAN /\ awaitingTransportBarrier' \in BOOLEAN
        BY <2>4
      <3> QED BY <2>1, <2>2, <2>3, <2>4, <3>1, <3>2 DEF UpdatesTyped
    <2>5. ASSUME ~awaitingTransportBarrier, pending # <<>>,
                 Acknowledge({Head(pending)}), pending' = Tail(pending),
                 delayTimer' = (delayTimer /\ (Tail(pending) # <<>> \/ barrier # {})),
                 UNCHANGED <<barrier, awaitingTransportBarrier>>
          PROVE  Tame(store, store') /\ UpdatesTyped'
      <3>1. /\ Head(pending) \in Made /\ Tail(pending) \in Seq(Made)
            /\ Range(Tail(pending)) \subseteq Range(pending)
        BY <2>2, <2>5, TailFacts
      <3>2. /\ Tame(store, store')
            /\ acked' \subseteq Made /\ awaiting' \subseteq Made
        BY <2>5, <3>1, Acknowledging
      <3>3. delayTimer' \in BOOLEAN /\ awaitingTransportBarrier' \in BOOLEAN
        BY <2>5 DEF AInv, UpdatesTyped
      <3> QED BY <2>1, <2>2, <2>3, <2>5, <3>1, <3>2, <3>3 DEF UpdatesTyped
    <2>6. ASSUME UNCHANGED <<store, awaiting, pending, barrier, acked,
                             awaitingTransportBarrier, delayTimer>>
          PROVE  Tame(store, store') /\ UpdatesTyped'
      <3>1. Tame(store, store')
        BY <2>6, TameTransitions DEF AInv
      <3> QED BY <1>1, <2>6, <3>1, QuietTyped DEF AInv, updateVars, worldVars
    <2> QED BY <2>4, <2>5, <2>6 DEF ReceiveAck
  <1>4. HonestStore(store)'
    BY <1>3 DEF Tame
  <1>5. AuthorityTyped'
    BY <1>1 DEF AInv, AuthorityTyped, authorityVars, worldVars
  <1>6. WorldTyped'
    BY <1>1, <1>2 DEF AInv, WorldTyped, worldVars
  <1>7. LinkShape' /\ Detached' /\ AuthorityHeld'
    BY <1>1, <1>2, <1>3 DEF AInv, LinkShape, Detached, AuthorityHeld, Ignores, Tame,
                            authorityVars, worldVars
  <1> QED BY <1>3, <1>4, <1>5, <1>6, <1>7 DEF AInv

\* A dismissal that is not fatal: a new capability is called for, or the session
\* goes on, told of the loss or not.
LEMMA DismissalEffect ==
    ASSUME AInv, ReceiveDismissal
    PROVE  /\ Tame(store, store')
           /\ \/ UNCHANGED <<reauthentication, capability, reconnects, phase>>
              \/ phase = "reconnect" /\ phase' = "none"
                 /\ UNCHANGED <<reauthentication, capability, reconnects>>
              \/ /\ reauthentication' \in Flags
                 /\ reauthentication'.pending /\ ~reauthentication'.accepting
                 /\ capability' = 0 /\ reconnects' = FALSE /\ phase' = "quiesce"
                 /\ store'.permission = "none"
           /\ down # <<>> /\ down' = Tail(down) /\ hasProvider
           /\ timer' = (timer \/ phase = "reconnect")
           /\ UNCHANGED <<updateVars, grantedBy, hasProvider, tab, made,
                          link, served, up, worldVars>>
  <1>1. PICK kind \in {"refused", "closed"} :
          /\ Receive(kind)
          /\ LET outcome == Dismissed(kind, Head(down).reason) IN
             /\ outcome # "fatal"
             /\ timer' = (timer \/ phase = "reconnect")
             /\ CASE outcome = "expired" -> RefreshUnlessRunning(MarkAuthorizationExpired(store))
                  [] outcome = "storage" ->
                        RefreshUnlessRunning(MarkStorageDelayed(MarkDisconnected(store)))
                  [] OTHER ->
                        /\ store' = IF outcome = "draining" THEN MarkDisconnected(store) ELSE store
                        /\ phase' = IF phase = "reconnect" THEN "none" ELSE phase
                        /\ UNCHANGED <<reauthentication, capability, reconnects>>
          /\ UNCHANGED <<updateVars, grantedBy, hasProvider, tab, made,
                         link, served, up, worldVars>>
    BY DEF ReceiveDismissal
  <1> DEFINE outcome == Dismissed(kind, Head(down).reason)
  <1>2. \/ RefreshUnlessRunning(MarkAuthorizationExpired(store))
        \/ RefreshUnlessRunning(MarkStorageDelayed(MarkDisconnected(store)))
        \/ /\ store' \in {MarkDisconnected(store), store}
           /\ phase' = IF phase = "reconnect" THEN "none" ELSE phase
           /\ UNCHANGED <<reauthentication, capability, reconnects>>
    <2> HIDE DEF outcome
    <2> QED BY <1>1 DEF outcome
  <1>3. down # <<>> /\ down' = Tail(down) /\ hasProvider
    BY <1>1 DEF Receive, AInv, LinkShape, Detached
  <1>4. /\ Tame(store, store) /\ Tame(store, MarkAuthorizationExpired(store))
        /\ Tame(store, MarkDisconnected(store))
    BY TameTransitions DEF AInv
  <1>5. Tame(MarkDisconnected(store), MarkStorageDelayed(MarkDisconnected(store)))
    BY <1>4, TameTransitions DEF Tame
  <1>6. Tame(store, MarkStorageDelayed(MarkDisconnected(store)))
    BY <1>4, <1>5, TameTrans
  <1>7. /\ Tame(store, store')
        /\ \/ UNCHANGED <<reauthentication, capability, reconnects, phase>>
           \/ phase = "reconnect" /\ phase' = "none"
              /\ UNCHANGED <<reauthentication, capability, reconnects>>
           \/ /\ reauthentication' \in Flags
              /\ reauthentication'.pending /\ ~reauthentication'.accepting
              /\ capability' = 0 /\ reconnects' = FALSE /\ phase' = "quiesce"
              /\ store'.permission = "none"
    <2>1. CASE RefreshUnlessRunning(MarkAuthorizationExpired(store))
      BY <1>3, <1>4, <2>1, Refreshing
    <2>2. CASE RefreshUnlessRunning(MarkStorageDelayed(MarkDisconnected(store)))
      BY <1>3, <1>6, <2>2, Refreshing
    <2>3. CASE /\ store' \in {MarkDisconnected(store), store}
               /\ phase' = IF phase = "reconnect" THEN "none" ELSE phase
               /\ UNCHANGED <<reauthentication, capability, reconnects>>
      BY <1>4, <2>3
    <2> QED BY <1>2, <2>1, <2>2, <2>3
  <1> QED BY <1>1, <1>3, <1>7

LEMMA ReceiveDismissalKeeps ==
    ASSUME AInv, ReceiveDismissal
    PROVE  AInv'
  <1>1. /\ Tame(store, store')
        /\ \/ UNCHANGED <<reauthentication, capability, reconnects, phase>>
           \/ phase = "reconnect" /\ phase' = "none"
              /\ UNCHANGED <<reauthentication, capability, reconnects>>
           \/ /\ reauthentication' \in Flags
              /\ reauthentication'.pending /\ ~reauthentication'.accepting
              /\ capability' = 0 /\ reconnects' = FALSE /\ phase' = "quiesce"
              /\ store'.permission = "none"
        /\ down # <<>> /\ down' = Tail(down) /\ hasProvider
        /\ timer' = (timer \/ phase = "reconnect")
        /\ UNCHANGED <<updateVars, grantedBy, hasProvider, tab, made,
                       link, served, up, worldVars>>
    BY DismissalEffect
  <1>2. /\ down' \in Seq(Messaged)
        /\ \A i \in 1 .. Len(down') : down'[i].kind = "granted" => served' # 0
    BY <1>1, TailGranted
  <1>3. HonestStore(store)'
    BY <1>1 DEF Tame
  <1>4. UpdatesTyped'
    BY <1>1, QuietTyped DEF AInv, worldVars
  <1>5. AuthorityTyped'
    BY <1>1, NoCapability DEF AInv, AuthorityTyped, worldVars
  <1>6. WorldTyped'
    BY <1>1, <1>2 DEF AInv, WorldTyped, worldVars
  <1>7. LinkShape' /\ Detached'
    BY <1>1, <1>2 DEF AInv, LinkShape, Detached
  <1>8. AuthorityHeld'
    BY <1>1 DEF AInv, AuthorityHeld, Ignores, Tame, worldVars
  <1> QED BY <1>3, <1>4, <1>5, <1>6, <1>7, <1>8 DEF AInv

\* The edits and the tab.
LEMMA EditKeeps ==
    ASSUME AInv, Edit
    PROVE  AInv'
  <1>1. /\ made' = made + 1 /\ pending' = Append(pending, made')
        /\ hashing' = hashing \cup {made'} /\ delayTimer' = TRUE
        /\ up' \in {up, Append(up, {made'})}
        /\ UNCHANGED <<store, awaiting, barrier, acked, awaitingTransportBarrier, authorityVars,
                       hasProvider, tab, link, reconnects, served, down, worldVars>>
    BY DEF Edit
  <1>2. HonestStore(store)'
    BY <1>1 DEF AInv, HonestStore
  <1>3. UpdatesTyped'
    <2>1. made \in Nat /\ made + 1 \in 0 .. MaxEdits
      BY BrowserBounds DEF AInv, UpdatesTyped, Edit
    <2>2. Made \subseteq Made' /\ made' \in Made' /\ made' \notin Made
      BY <1>1, <2>1, EditsGrow DEF Made
    <2>3. /\ pending \in Seq(Made) /\ up \in Seq(SUBSET Made) /\ barrier \subseteq Made
          /\ Range(pending) \cap barrier = {}
      BY DEF AInv, UpdatesTyped
    <2>4. pending \in Seq(Made') /\ up \in Seq(SUBSET Made')
      BY <2>2, <2>3
    <2>5. /\ pending' \in Seq(Made') /\ up' \in Seq(SUBSET Made')
          /\ Range(pending') = Range(pending) \cup {made'}
      <3>1. /\ Append(pending, made') \in Seq(Made')
            /\ Range(Append(pending, made')) = Range(pending) \cup {made'}
        BY <2>2, <2>4, AppendFacts
      <3>2. {made'} \in SUBSET Made'
        BY <2>2
      <3>3. Append(up, {made'}) \in Seq(SUBSET Made')
        BY <2>4, <3>2, AppendFacts
      <3> QED BY <1>1, <2>4, <3>1, <3>3
    <2>6. Range(pending') \cap barrier' = {}
      BY <1>1, <2>2, <2>3, <2>5
    <2> QED BY <1>1, <2>1, <2>2, <2>5, <2>6 DEF AInv, UpdatesTyped, worldVars
  <1>4. AuthorityTyped'
    BY <1>1 DEF AInv, AuthorityTyped, authorityVars, worldVars
  <1>5. WorldTyped'
    BY <1>1 DEF AInv, WorldTyped, worldVars
  <1>6. LinkShape' /\ Detached' /\ AuthorityHeld'
    BY <1>1 DEF AInv, LinkShape, Detached, AuthorityHeld, Ignores, authorityVars, worldVars
  <1> QED BY <1>2, <1>3, <1>4, <1>5, <1>6 DEF AInv

LEMMA ChecksumSucceedsKeeps ==
    ASSUME AInv, ChecksumSucceeds
    PROVE  AInv'
  <1>1. PICK n \in hashing :
          /\ hashing' = hashing \ {n}
          /\ awaiting' = IF n \in acked THEN awaiting ELSE awaiting \cup {n}
          /\ store' = [store EXCEPT !.delayed = @ /\ ~(n \in acked /\ awaiting = {})]
          /\ UNCHANGED <<pending, barrier, acked, awaitingTransportBarrier, delayTimer,
                         authorityVars, hasProvider, tab, made, linkVars, worldVars>>
    BY DEF ChecksumSucceeds
  <1>2. HonestStore(store) /\ store.delayed \in BOOLEAN
    BY DEF AInv, HonestStore, Store
  <1>3. PICK b \in BOOLEAN : store' = [store EXCEPT !.delayed = b]
    BY <1>1, <1>2
  <1>4. Tame(store, store')
    BY <1>2, <1>3, TameDelay
  <1>5. HonestStore(store)'
    BY <1>4 DEF Tame
  <1>6. UpdatesTyped'
    <2>1. Made' = Made
      BY <1>1 DEF Made
    <2> QED BY <1>1, <2>1 DEF AInv, UpdatesTyped, linkVars, worldVars
  <1>7. AuthorityTyped'
    BY <1>1 DEF AInv, AuthorityTyped, authorityVars, linkVars, worldVars
  <1>8. WorldTyped'
    BY <1>1 DEF AInv, WorldTyped, linkVars, worldVars
  <1>9. LinkShape' /\ Detached' /\ AuthorityHeld'
    BY <1>1, <1>4 DEF AInv, LinkShape, Detached, AuthorityHeld, Ignores, Tame,
                      authorityVars, linkVars, worldVars
  <1> QED BY <1>5, <1>6, <1>7, <1>8, <1>9 DEF AInv

LEMMA UnmountKeeps ==
    ASSUME AInv, Unmount
    PROVE  AInv'
  <1>1. CASE Destroy("destroyed")
    BY <1>1, DestroyKeeps
  <1>2. CASE /\ tab' = "leaving"
             /\ UNCHANGED <<store, updateVars, authorityVars, hasProvider, made, linkVars, worldVars>>
    <2>1. HonestStore(store)'
      BY <1>2 DEF AInv, HonestStore
    <2>2. UpdatesTyped'
      BY <1>2, QuietTyped DEF AInv, linkVars, worldVars
    <2>3. AuthorityTyped'
      BY <1>2 DEF AInv, AuthorityTyped, authorityVars, linkVars, worldVars
    <2>4. WorldTyped'
      BY <1>2 DEF AInv, WorldTyped, linkVars, worldVars
    <2>5. LinkShape' /\ Detached' /\ AuthorityHeld'
      BY <1>2 DEF AInv, LinkShape, Detached, AuthorityHeld, Ignores,
                  authorityVars, linkVars, worldVars
    <2> QED BY <2>1, <2>2, <2>3, <2>4, <2>5 DEF AInv
  <1> QED BY <1>1, <1>2 DEF Unmount

\* The transport and the sidecar.
LEMMA GrantKeeps ==
    ASSUME AInv, Grant
    PROVE  AInv'
  <1>1. /\ capability # 0 /\ served' = capability /\ link' = "open" /\ link = "connecting"
        /\ down' = <<Message("granted", "none"), Message("synced", "none")>>
        /\ UNCHANGED <<browserVars, reconnects, up, worldVars>>
    BY DEF Grant
  <1>2. down' \in Seq(Messaged)
    <2>1. /\ Message("granted", "none") \in Messaged
          /\ Message("synced", "none") \in Messaged
      BY DEF Message, Messaged
    <2> QED BY <1>1, <2>1
  <1>3. HonestStore(store)'
    BY <1>1 DEF AInv, HonestStore, browserVars
  <1>4. UpdatesTyped'
    BY <1>1, QuietTyped DEF AInv, browserVars, worldVars
  <1>5. AuthorityTyped'
    BY <1>1 DEF AInv, AuthorityTyped, browserVars, authorityVars, worldVars
  <1>6. WorldTyped'
    BY <1>1, <1>2 DEF AInv, WorldTyped, browserVars, worldVars
  <1>7. LinkShape' /\ Detached' /\ AuthorityHeld'
    BY <1>1 DEF AInv, LinkShape, Detached, AuthorityHeld, Ignores,
                browserVars, authorityVars, worldVars
  <1> QED BY <1>3, <1>4, <1>5, <1>6, <1>7 DEF AInv

LEMMA MakeDurableKeeps ==
    ASSUME AInv, MakeDurable
    PROVE  AInv'
  <1>1. /\ up # <<>> /\ up' = Tail(up) /\ link = "open"
        /\ \/ durable' = durable \cup Head(up) /\ down' = Append(down, Message("ack", "none"))
           \/ UNCHANGED <<durable, down>>
        /\ UNCHANGED <<browserVars, link, reconnects, served, scopes, online, outages>>
    BY DEF MakeDurable
  <1>2. Message("ack", "none") \in Messaged /\ Message("ack", "none").kind # "granted"
    BY DEF Message, Messaged
  <1>3. /\ down' \in Seq(Messaged)
        /\ \A i \in 1 .. Len(down') : down'[i].kind = "granted" => served' # 0
    <2>1. CASE down' = Append(down, Message("ack", "none"))
      BY <1>1, <1>2, <2>1, AppendGranted
    <2>2. CASE UNCHANGED down
      BY <1>1, <2>2 DEF AInv, WorldTyped, LinkShape
    <2> QED BY <1>1, <2>1, <2>2
  <1>4. HonestStore(store)'
    BY <1>1 DEF AInv, HonestStore, browserVars
  <1>5. UpdatesTyped'
    <2>1. up \in Seq(SUBSET Made) /\ Made' = Made
      BY <1>1 DEF AInv, UpdatesTyped, Made, browserVars
    <2>2. up' \in Seq(SUBSET Made) /\ Head(up) \subseteq Made
      BY <1>1, <2>1, TailFacts
    <2>3. durable' \subseteq Made
      BY <1>1, <2>2 DEF AInv, UpdatesTyped
    <2> QED BY <1>1, <2>1, <2>2, <2>3 DEF AInv, UpdatesTyped, browserVars, updateVars
  <1>6. AuthorityTyped'
    BY <1>1 DEF AInv, AuthorityTyped, browserVars, authorityVars
  <1>7. WorldTyped'
    BY <1>1, <1>3 DEF AInv, WorldTyped, browserVars
  <1>8. LinkShape' /\ Detached' /\ AuthorityHeld'
    BY <1>1, <1>3 DEF AInv, LinkShape, Detached, AuthorityHeld, Ignores,
                browserVars, authorityVars
  <1> QED BY <1>4, <1>5, <1>6, <1>7, <1>8 DEF AInv

LEMMA RefuseKeeps ==
    ASSUME AInv, Refuse \/ CloseRoom
    PROVE  AInv'
  <1>1. link \in {"connecting", "open"} /\ WorldTyped
    BY DEF Refuse, CloseRoom, AInv
  <1>2. \E kind \in {"refused", "closed"}, reason \in {"expired", "draining", "storage", "fatal"} :
          Dismiss(kind, reason) /\ (UNCHANGED outages \/ Fails)
    <2>1. CASE Refuse
      BY <2>1 DEF Refuse
    <2>2. CASE CloseRoom
      BY <2>2 DEF CloseRoom
    <2> QED BY <2>1, <2>2
  <1>3. outages' \in 0 .. MaxOutages
    BY <1>1, <1>2, Failed DEF WorldTyped
  <1> QED BY <1>1, <1>2, <1>3, DismissKeeps

LEMMA AInvStutters ==
    ASSUME AInv, UNCHANGED vars
    PROVE  AInv'
  <1> USE DEF vars, updateVars, authorityVars, linkVars, worldVars
  <1>1. HonestStore(store)'
    BY DEF AInv, HonestStore
  <1>2. UpdatesTyped'
    BY QuietTyped DEF AInv
  <1>3. AuthorityTyped' /\ WorldTyped'
    BY DEF AInv, AuthorityTyped, WorldTyped
  <1>4. LinkShape' /\ Detached' /\ AuthorityHeld'
    BY DEF AInv, LinkShape, Detached, AuthorityHeld, Ignores
  <1> QED BY <1>1, <1>2, <1>3, <1>4 DEF AInv

LEMMA AInvNext == AInv /\ [Next]_vars => AInv'
  <1> SUFFICES ASSUME AInv, [Next]_vars PROVE AInv'
    OBVIOUS
  <1>1. CASE Authority
    BY <1>1, FirstIssueSucceedsKeeps, FirstIssueFailsKeeps, QuiescedKeeps, IssueSucceedsKeeps,
       IssueFailsKeeps, ResetTransportKeeps, RefreshFailsKeeps DEF Authority
  <1>2. CASE IssueInvalid
    BY <1>2, FailFatalKeeps DEF IssueInvalid
  <1>3. CASE RefreshTimerFires \/ StrayReconnection \/ StorageDelayElapses
    BY <1>3, RefreshTimerFiresKeeps, StrayReconnectionKeeps, StorageDelayElapsesKeeps
  <1>4. CASE Messages
    <2>1. CASE ReceiveFatalDismissal
      BY <2>1, FailFatalKeeps DEF ReceiveFatalDismissal
    <2> QED BY <1>4, <2>1, ReceiveGrantedKeeps, ReceiveSyncedKeeps, ReceiveAckKeeps,
               ReceiveDismissalKeeps DEF Messages
  <1>5. CASE Edit \/ ChecksumSucceeds
    BY <1>5, EditKeeps, ChecksumSucceedsKeeps
  <1>6. CASE ChecksumFails
    <2>1. FailFatal /\ hashing' \subseteq hashing
      BY <1>6 DEF ChecksumFails
    <2> QED BY <2>1, FailFatalKeeps
  <1>7. CASE Unmount \/ Cleanup \/ CleanupTimesOut
    BY <1>7, UnmountKeeps, DestroyKeeps DEF Cleanup, CleanupTimesOut
  <1>8. CASE Transport
    <2>1. CASE TransportCloses
      <3>1. TransportEnds /\ UNCHANGED <<online, outages>>
        BY <2>1 DEF TransportCloses
      <3>2. outages' \in 0 .. MaxOutages
        BY <3>1 DEF AInv, WorldTyped
      <3> QED BY <3>1, <3>2, TransportEndsKeeps
    <2> QED BY <1>8, <2>1, ReconnectKeeps, NetworkReturnsKeeps, GrantKeeps, MakeDurableKeeps
            DEF Transport
  <1>9. CASE SidecarRestarts
    <2>1. outages' \in 0 .. MaxOutages
      BY <1>9, Failed DEF SidecarRestarts, AInv
    <2> QED BY <1>9, <2>1, TransportEndsKeeps DEF SidecarRestarts
  <1>10. CASE NetworkFails \/ Refuse \/ CloseRoom
    BY <1>10, NetworkFailsKeeps, RefuseKeeps
  <1>11. CASE UNCHANGED vars
    BY <1>11, AInvStutters
  <1> QED BY <1>1, <1>2, <1>3, <1>4, <1>5, <1>6, <1>7, <1>8, <1>9, <1>10, <1>11 DEF Next

LEMMA AInvariance == Spec => []AInv
  BY AInvInit, AInvNext, PTL DEF Spec

\* The state of the tab, of its transport and of the sidecar has its types in
\* every reachable state, whatever is lost, late, refused or failing.
THEOREM TypeCorrect == Spec => []TypeOK
  <1>1. AInv => TypeOK
    BY TypeParts DEF AInv, HonestStore
  <1> QED BY <1>1, AInvariance, PTL

\* However callbacks, timers, answers of the issuer and messages of old and new
\* transports are interleaved, the editor is writable only by the capability it
\* holds, as the sidecar granted it (collaboration-session.ts and
\* hocuspocus-provider-adapter.ts).
THEOREM AuthorityIsFresh == Spec => []FreshAuthority
  <1>1. AInv => FreshAuthority
    BY DEF AInv, AuthorityHeld, FreshAuthority, Writable
  <1> QED BY <1>1, AInvariance, PTL

-----------------------------------------------------------------------------
(* Messages on their way.                                                  *)

Dismissing == {"refused", "closed"}

\* The greeting of a transport comes first, and what turns the document away last.
Orderly(d) ==
    \A i \in 1 .. Len(d) :
        /\ d[i].kind = "granted" => i = 1 /\ Len(d) >= 2 /\ d[2].kind = "synced"
        /\ d[i].kind = "synced" => i = 1 \/ (i = 2 /\ d[1].kind = "granted")
        /\ d[i].kind \in Dismissing => i = Len(d)

Greetings(d) ==
    IF Len(d) = 0 THEN 0
    ELSE IF d[1].kind = "granted" THEN 2 ELSE IF d[1].kind = "synced" THEN 1 ELSE 0

Dismissals(d) == IF Len(d) > 0 /\ d[Len(d)].kind \in Dismissing THEN 1 ELSE 0

\* The acknowledgements among them.
Acks(d) == Len(d) - Greetings(d) - Dismissals(d)

LEMMA AcksCounted ==
    ASSUME NEW d \in Seq(Messaged), Orderly(d)
    PROVE  Acks(d) \in Nat /\ Greetings(d) \in 0 .. 2 /\ Dismissals(d) \in 0 .. 1
  <1>1. Len(d) \in Nat
    OBVIOUS
  <1>2. Greetings(d) \in 0 .. 2 /\ Dismissals(d) \in 0 .. 1
    BY DEF Greetings, Dismissals
  <1>3. CASE Len(d) = 0
    BY <1>3 DEF Acks, Greetings, Dismissals
  <1>4. CASE Len(d) # 0
    <2>1. 1 \in 1 .. Len(d) /\ Len(d) \in 1 .. Len(d)
      BY <1>1, <1>4
    <2>2. CASE d[1].kind = "granted"
      <3>1. Len(d) >= 2 /\ d[2].kind = "synced" /\ Greetings(d) = 2
        BY <1>4, <2>1, <2>2 DEF Orderly, Greetings
      <3>2. Len(d) = 2 => Dismissals(d) = 0
        BY <3>1 DEF Dismissals, Dismissing
      <3>3. PICK k \in 0 .. 1, n \in Nat : k = Dismissals(d) /\ n = Len(d)
        BY <1>1, <1>2
      <3>4. n >= 2 /\ (n = 2 => k = 0) /\ Acks(d) = n - 2 - k
        BY <3>1, <3>2, <3>3 DEF Acks
      <3>5. n - 2 - k \in Nat
        BY <3>4
      <3> QED BY <1>2, <3>4, <3>5
    <2>3. CASE d[1].kind = "synced"
      <3>1. Greetings(d) = 1
        BY <1>4, <2>3 DEF Greetings
      <3>2. Len(d) = 1 => Dismissals(d) = 0
        BY <2>3 DEF Dismissals, Dismissing
      <3>3. PICK k \in 0 .. 1, n \in Nat : k = Dismissals(d) /\ n = Len(d)
        BY <1>1, <1>2
      <3>4. n # 0 /\ (n = 1 => k = 0) /\ Acks(d) = n - 1 - k
        BY <1>4, <3>1, <3>2, <3>3 DEF Acks
      <3>5. n - 1 - k \in Nat
        BY <3>4
      <3> QED BY <1>2, <3>4, <3>5
    <2>4. CASE d[1].kind \notin {"granted", "synced"}
      <3>1. Greetings(d) = 0
        BY <1>4, <2>4 DEF Greetings
      <3> QED BY <1>1, <1>2, <1>4, <3>1 DEF Acks
    <2> QED BY <2>2, <2>3, <2>4
  <1> QED BY <1>2, <1>3, <1>4

\* What is left when the first message is taken.
LEMMA TakenOrder ==
    ASSUME NEW d \in Seq(Messaged), d # <<>>, Orderly(d)
    PROVE  /\ Tail(d) \in Seq(Messaged)
           /\ Orderly(Tail(d))
           /\ d[1].kind = "granted" =>
                Greetings(d) = 2 /\ Greetings(Tail(d)) = 1 /\ Acks(Tail(d)) = Acks(d)
           /\ d[1].kind = "synced" =>
                Greetings(d) = 1 /\ Greetings(Tail(d)) = 0 /\ Acks(Tail(d)) = Acks(d)
           /\ d[1].kind = "ack" =>
                Greetings(d) = 0 /\ Greetings(Tail(d)) = 0 /\ Acks(Tail(d)) = Acks(d) - 1
           /\ d[1].kind \in Dismissing => Len(Tail(d)) = 0 /\ Acks(Tail(d)) = Acks(d)
           /\ d[1].kind \notin Dismissing => Dismissals(Tail(d)) = Dismissals(d)
  <1> DEFINE t == Tail(d)
  <1>1. /\ t \in Seq(Messaged)
        /\ Len(d) \in Nat /\ Len(d) > 0 /\ Len(t) = Len(d) - 1
        /\ \A i \in 1 .. Len(d) - 1 : t[i] = d[i + 1]
    BY TailFacts
  <1> HIDE DEF t
  <1>2. \A i \in 1 .. Len(d) - 1 : i + 1 \in 1 .. Len(d) /\ i + 1 # 1
    BY <1>1
  <1>3. 1 \in 1 .. Len(d) /\ Len(d) \in 1 .. Len(d)
    BY <1>1
  <1>4. d[1].kind \in {"granted", "synced", "ack", "refused", "closed"}
    <2>1. d[1] \in Messaged
      BY <1>3
    <2> QED BY <2>1 DEF Messaged
  <1>5. \A i \in 1 .. Len(t) :
          /\ t[i].kind # "granted"
          /\ t[i].kind = "synced" => i = 1 /\ d[1].kind = "granted"
          /\ t[i].kind \in Dismissing => i = Len(t)
    <2> SUFFICES ASSUME NEW i \in 1 .. Len(t)
                 PROVE  /\ t[i].kind # "granted"
                        /\ t[i].kind = "synced" => i = 1 /\ d[1].kind = "granted"
                        /\ t[i].kind \in Dismissing => i = Len(t)
      OBVIOUS
    <2>1. i + 1 \in 1 .. Len(d) /\ i + 1 # 1 /\ t[i] = d[i + 1]
      BY <1>1, <1>2
    <2> QED BY <1>1, <2>1 DEF Orderly
  <1>6. Orderly(t)
    <2> SUFFICES ASSUME NEW i \in 1 .. Len(t)
                 PROVE  /\ t[i].kind = "granted" => i = 1 /\ Len(t) >= 2 /\ t[2].kind = "synced"
                        /\ t[i].kind = "synced" => i = 1 \/ (i = 2 /\ t[1].kind = "granted")
                        /\ t[i].kind \in Dismissing => i = Len(t)
      BY DEF Orderly
    <2> QED BY <1>5
  <1>7. /\ Len(t) > 0 => t[1] = d[2] /\ t[Len(t)] = d[Len(d)] /\ 1 \in 1 .. Len(t) /\ 2 \in 1 .. Len(d)
        /\ Len(t) = 0 <=> Len(d) = 1
    BY <1>1
  <1>8. d[1].kind \in Dismissing => Len(d) = 1
    BY <1>3 DEF Orderly
  <1>9. d[1].kind = "granted" => Len(t) > 0 /\ t[1].kind = "synced"
    BY <1>1, <1>3, <1>7 DEF Orderly
  <1>10. Greetings(t) = IF d[1].kind = "granted" THEN 1 ELSE 0
    BY <1>1, <1>5, <1>7, <1>9 DEF Greetings
  <1>11. d[1].kind \notin Dismissing => Dismissals(t) = Dismissals(d)
    BY <1>1, <1>7 DEF Dismissals
  <1>12. Greetings(d) = IF d[1].kind = "granted" THEN 2 ELSE IF d[1].kind = "synced" THEN 1 ELSE 0
    BY <1>1 DEF Greetings
  <1>13. Dismissals(d) \in 0 .. 1
    BY DEF Dismissals
  <1>14. d[1].kind \in {"granted", "synced", "ack"} =>
           Acks(t) = Len(d) - 1 - Greetings(t) - Dismissals(d)
    BY <1>1, <1>11 DEF Acks, Dismissing
  <1>15. d[1].kind \in Dismissing =>
           Len(t) = 0 /\ Acks(t) = 0 /\ Acks(d) = 0
    <2> SUFFICES ASSUME d[1].kind \in Dismissing
                 PROVE  Len(t) = 0 /\ Acks(t) = 0 /\ Acks(d) = 0
      OBVIOUS
    <2>1. Len(d) = 1 /\ Len(t) = 0
      BY <1>7, <1>8
    <2>2. Dismissals(d) = 1 /\ Greetings(d) = 0 /\ Dismissals(t) = 0 /\ Greetings(t) = 0
      BY <2>1, <1>12 DEF Dismissals, Greetings, Dismissing
    <2> QED BY <2>1, <2>2 DEF Acks
  <1>16. /\ d[1].kind = "granted" => Acks(t) = Acks(d)
         /\ d[1].kind = "synced" => Acks(t) = Acks(d)
         /\ d[1].kind = "ack" => Acks(t) = Acks(d) - 1
    BY <1>1, <1>10, <1>12, <1>13, <1>14 DEF Acks
  <1> QED BY <1>1, <1>6, <1>10, <1>11, <1>12, <1>15, <1>16 DEF t

\* An acknowledgement, or a dismissal, follows what is on its way.
LEMMA AddedOrder ==
    ASSUME NEW d \in Seq(Messaged), Orderly(d), Dismissals(d) = 0,
           NEW m \in Messaged, m.kind \in {"ack", "refused", "closed"}
    PROVE  /\ Orderly(Append(d, m))
           /\ Greetings(Append(d, m)) = Greetings(d)
           /\ m.kind = "ack" =>
                Acks(Append(d, m)) = Acks(d) + 1 /\ Dismissals(Append(d, m)) = 0
           /\ m.kind # "ack" => Acks(Append(d, m)) = Acks(d)
  <1> DEFINE e == Append(d, m)
  <1>1. /\ e \in Seq(Messaged)
        /\ Len(d) \in Nat /\ Len(e) = Len(d) + 1
        /\ e[Len(d) + 1] = m
        /\ \A i \in 1 .. Len(d) : e[i] = d[i]
    BY AppendFacts
  <1> HIDE DEF e
  <1>2. \A i \in 1 .. Len(e) : i \in 1 .. Len(d) \/ i = Len(e)
    BY <1>1
  <1>3. \A i \in 1 .. Len(d) : d[i].kind \notin Dismissing
    BY <1>1 DEF Orderly, Dismissals
  <1>4. Orderly(e)
    <2> SUFFICES ASSUME NEW i \in 1 .. Len(e)
                 PROVE  /\ e[i].kind = "granted" => i = 1 /\ Len(e) >= 2 /\ e[2].kind = "synced"
                        /\ e[i].kind = "synced" => i = 1 \/ (i = 2 /\ e[1].kind = "granted")
                        /\ e[i].kind \in Dismissing => i = Len(e)
      BY DEF Orderly
    <2>1. CASE i = Len(e)
      BY <1>1, <2>1
    <2>2. CASE i \in 1 .. Len(d)
      <3>1. e[i] = d[i] /\ d[i].kind \notin Dismissing
        BY <1>1, <1>3, <2>2
      <3>2. d[i].kind = "granted" => i = 1 /\ Len(d) >= 2 /\ d[2].kind = "synced" /\ e[2] = d[2]
        BY <1>1, <2>2 DEF Orderly
      <3>3. d[i].kind = "synced" => i = 1 \/ (i = 2 /\ d[1].kind = "granted" /\ e[1] = d[1])
        BY <1>1, <2>2 DEF Orderly
      <3> QED BY <1>1, <3>1, <3>2, <3>3
    <2> QED BY <1>2, <2>1, <2>2
  <1>5. Greetings(e) = Greetings(d)
    BY <1>1 DEF Greetings
  <1>6. Dismissals(e) = IF m.kind = "ack" THEN 0 ELSE 1
    BY <1>1 DEF Dismissals, Dismissing
  <1>7. Greetings(d) \in 0 .. 2
    BY DEF Greetings
  <1> QED BY <1>1, <1>4, <1>5, <1>6, <1>7 DEF Acks, e

-----------------------------------------------------------------------------
(* Pending edits.                                                          *)

Working == store.lifecycle # "fatal" /\ tab \in {"mounted", "leaving"}

\* Every edit is pending or acknowledged; an update that waits for its
\* acknowledgement has none, and nothing is lost without one that waits.
Queue ==
    /\ \A i, j \in 1 .. Len(pending) : pending[i] = pending[j] => i = j
    /\ acked \cap (barrier \cup Range(pending)) = {}
    /\ Made \subseteq hashing \cup awaiting \cup acked
    /\ Made \subseteq durable \/ barrier \cup Range(pending) # {}

One(b) == IF b THEN 1 ELSE 0

\* The acknowledgements that the session still waits for.
Slots == Len(pending) + One(awaitingTransportBarrier)

\* The tab has yet to send everything it has.
SyncUnsent == link = "connecting" \/ (link = "open" /\ Greetings(down) > 0)

\* The frames that the sidecar has yet to handle.
Frames == Len(up) + One(SyncUnsent)

Covered == SyncUnsent \/ Made \subseteq durable \cup UNION Range(up)

\* Acknowledgements are not more than the updates that wait for them; and while
\* an edit is not durable there are fewer, or a frame will still bring it.
Counted ==
    /\ link \in {"connecting", "open"} =>
         /\ Slots >= Acks(down) + Frames
         /\ Covered \/ Slots > Acks(down) + Frames
    /\ link = "detached" =>
         /\ Slots >= Acks(down)
         /\ Made \subseteq durable \/ Slots > Acks(down)

\* The messages are in order, and frames travel on an open transport only.
Traffic ==
    /\ Orderly(down)
    /\ link # "detached" => Dismissals(down) = 0
    /\ link \in {"off", "detached"} => up = <<>>

\* A tab that has ended has no session.
TabEnds == tab \in {"destroyed", "timed_out"} => ~hasProvider /\ phase = "none"

QInv == /\ AInv /\ Traffic /\ Counted /\ TabEnds
        /\ Working => Queue
        /\ GuardHonest /\ CleanupWaits

LEMMA QInvInit == Init => QInv
  <1> SUFFICES ASSUME Init PROVE QInv
    OBVIOUS
  <1>1. AInv
    BY AInvInit
  <1>2. Len(down) = 0 /\ Len(pending) = 0
    BY DEF Init
  <1>3. Traffic /\ Counted /\ TabEnds
    BY <1>2 DEF Init, Traffic, Counted, TabEnds, Orderly, Dismissals
  <1>4. Made = {}
    BY DEF Init, Made
  <1>5. Range(pending) = {}
    BY EmptyRange DEF Init
  <1>6. Queue
    BY <1>2, <1>4, <1>5 DEF Init, Queue
  <1>7. GuardHonest /\ CleanupWaits
    BY <1>4 DEF GuardHonest, CleanupWaits
  <1> QED BY <1>1, <1>3, <1>6, <1>7 DEF QInv

\* What a step keeps of a session that has failed or a tab that has ended.
Outlives ==
    /\ store.lifecycle = "fatal" => store'.lifecycle = "fatal"
    /\ tab' = tab \/ (tab = "mounted" /\ tab' = "leaving")
    /\ durable \subseteq durable'
    /\ ~hasProvider => UNCHANGED <<hashing, awaiting, made>>

LEMMA Settling ==
    ASSUME QInv, AInv', Outlives, TabEnds', Traffic', Counted',
           Working => Queue'
    PROVE  QInv'
  <1>1. Working' => Working
    BY DEF Working, Outlives
  <1>2. Working' => Queue'
    BY <1>1
  <1>3. GuardHonest'
    <2> SUFFICES ASSUME ~HasPendingUpdates', store'.lifecycle # "fatal"
                 PROVE  Made' \subseteq durable'
      BY DEF GuardHonest
    <2>1. CASE Working'
      <3>1. Queue' /\ UpdatesTyped'
        BY <1>2, <2>1 DEF AInv
      <3>2. Made' \subseteq acked'
        BY <3>1 DEF Queue, HasPendingUpdates
      <3>3. (barrier \cup Range(pending))' \subseteq Made'
        BY <3>1, RangeType DEF UpdatesTyped
      <3> QED BY <3>1, <3>2, <3>3 DEF Queue
    <2>2. CASE ~Working'
      <3>1. tab \in {"destroyed", "timed_out"} /\ store.lifecycle # "fatal"
        BY <2>2 DEF Working, Outlives, QInv, AInv, WorldTyped
      <3>2. UNCHANGED <<hashing, awaiting, made>> /\ durable \subseteq durable'
        BY <3>1 DEF Outlives, QInv, TabEnds
      <3>3. ~HasPendingUpdates /\ Made' = Made
        BY <3>2 DEF HasPendingUpdates, Made
      <3> QED BY <3>1, <3>2, <3>3 DEF QInv, GuardHonest
    <2> QED BY <2>1, <2>2
  <1>4. CleanupWaits'
    <2> SUFFICES ASSUME tab' = "destroyed", store'.lifecycle # "fatal"
                 PROVE  Made' \subseteq durable'
      BY DEF CleanupWaits
    <2>1. tab = "destroyed" /\ store.lifecycle # "fatal"
      BY DEF Outlives
    <2>2. made' = made /\ durable \subseteq durable'
      BY <2>1 DEF Outlives, QInv, TabEnds
    <2> QED BY <2>1, <2>2 DEF QInv, CleanupWaits, Made
  <1> QED BY <1>2, <1>3, <1>4 DEF QInv

\* The steps that touch neither the edits nor their frames and messages.
Still == UNCHANGED <<hashing, awaiting, pending, barrier, acked, awaitingTransportBarrier,
                     made, link, up, down, durable>>

LEMMA StillKeeps ==
    ASSUME QInv, AInv', TabEnds', Outlives, Still
    PROVE  QInv'
  <1>1. Traffic'
    BY DEF QInv, Traffic, Still
  <1>2. /\ Slots' = Slots /\ Frames' = Frames /\ Acks(down') = Acks(down)
        /\ Covered' = Covered /\ Made' = Made
    BY DEF Still, Slots, Frames, Covered, SyncUnsent, Made
  <1>3. Counted'
    BY <1>2 DEF QInv, Counted, Still
  <1>4. Working => Queue'
    BY <1>2 DEF QInv, Queue, Still
  <1> QED BY <1>1, <1>3, <1>4, Settling

\* A new transport: what the lost one left is behind the barrier.
LEMMA OpeningKeeps ==
    ASSUME QInv, AInv', TabEnds', Outlives, ~KeepsOfflineFrames,
           link = "off", MoveToBarrier, awaitingTransportBarrier' = TRUE,
           UNCHANGED <<hashing, awaiting, acked, up, made, durable>>,
           link' = "connecting", down' = <<>>
    PROVE  QInv'
  <1>1. up' = <<>> /\ Len(up') = 0 /\ Len(down') = 0 /\ Made' = Made
    BY DEF QInv, Traffic, Made
  <1>2. pending' = <<>> /\ Len(pending') = 0 /\ barrier' = barrier \cup Range(pending)
        /\ Range(pending') = {}
    BY EmptyRange DEF MoveToBarrier
  <1>3. Traffic'
    BY <1>1 DEF Traffic, Orderly, Dismissals
  <1>4. Slots' = 1 /\ Frames' = 1 /\ Acks(down') = 0 /\ Covered'
    BY <1>1, <1>2 DEF Slots, Frames, Covered, SyncUnsent, One, Acks, Greetings, Dismissals
  <1>5. Counted'
    BY <1>4 DEF Counted
  <1>6. Working => Queue'
    BY <1>1, <1>2 DEF QInv, Queue
  <1> QED BY <1>3, <1>5, <1>6, Settling

\* The end of a transport.
LEMMA EndingKeeps ==
    ASSUME QInv, AInv', TabEnds', Outlives, MoveToBarrier,
           UNCHANGED <<hashing, awaiting, acked, awaitingTransportBarrier, made, durable>>,
           link' = "off", up' = <<>>, down' = <<>>
    PROVE  QInv'
  <1>1. Len(down') = 0 /\ Made' = Made
    BY DEF Made
  <1>2. pending' = <<>> /\ Len(pending') = 0 /\ barrier' = barrier \cup Range(pending)
        /\ Range(pending') = {}
    BY EmptyRange DEF MoveToBarrier
  <1>3. Traffic'
    BY <1>1 DEF Traffic, Orderly, Dismissals
  <1>4. Counted'
    BY DEF Counted
  <1>5. Working => Queue'
    BY <1>1, <1>2 DEF QInv, Queue
  <1> QED BY <1>3, <1>4, <1>5, Settling

\* Failing for good, and ending the tab.
LEMMA FailingKeeps ==
    ASSUME QInv, AInv', TabEnds', store'.lifecycle = "fatal",
           link' = "off", up' = <<>>, down' = <<>>
    PROVE  QInv'
  <1>1. Len(down') = 0
    OBVIOUS
  <1>2. Traffic' /\ Counted'
    BY <1>1 DEF Traffic, Orderly, Dismissals, Counted
  <1> QED BY <1>2 DEF QInv, Working, GuardHonest, CleanupWaits

LEMMA DestroyingKeeps ==
    ASSUME QInv, AInv', NEW end \in {"destroyed", "timed_out"}, Destroy(end),
           end = "destroyed" => ~HasPendingUpdates
    PROVE  QInv'
  <1>1. /\ tab' = end /\ link' = "off" /\ up' = <<>> /\ down' = <<>> /\ Len(down') = 0
        /\ hasProvider' = FALSE /\ phase' = "none"
        /\ UNCHANGED <<store, hashing, awaiting, made, durable>>
    BY DEF Destroy, Teardown, SilentLink, worldVars
  <1>2. Traffic' /\ Counted' /\ TabEnds'
    BY <1>1 DEF Traffic, Orderly, Dismissals, Counted, TabEnds
  <1>3. Made' = Made /\ HasPendingUpdates' = HasPendingUpdates
    BY <1>1 DEF Made, HasPendingUpdates
  <1>4. GuardHonest' /\ CleanupWaits'
    BY <1>1, <1>3 DEF QInv, GuardHonest, CleanupWaits
  <1>5. ~Working'
    BY <1>1 DEF Working
  <1> QED BY <1>2, <1>4, <1>5 DEF QInv

LEMMA Numbers ==
    ASSUME QInv
    PROVE  /\ Len(pending) \in Nat /\ Len(up) \in Nat /\ Slots \in Nat /\ Frames \in Nat
           /\ Acks(down) \in Nat /\ Greetings(down) \in 0 .. 2
           /\ down \in Seq(Messaged) /\ Orderly(down)
           /\ up \in Seq(SUBSET Made) /\ pending \in Seq(Made)
  <1>1. up \in Seq(SUBSET Made) /\ pending \in Seq(Made) /\ down \in Seq(Messaged) /\ Orderly(down)
    BY DEF QInv, AInv, UpdatesTyped, WorldTyped, Traffic
  <1>2. Len(pending) \in Nat /\ Len(up) \in Nat
    BY <1>1
  <1>3. One(awaitingTransportBarrier) \in Nat /\ One(SyncUnsent) \in Nat
    BY DEF One
  <1>4. Slots \in Nat /\ Frames \in Nat
    BY <1>2, <1>3 DEF Slots, Frames
  <1> QED BY <1>1, <1>2, <1>4, AcksCounted

LEMMA OnTheWay ==
    ASSUME QInv, down # <<>>
    PROVE  /\ link \in {"open", "detached"}
           /\ Head(down) = down[1]
           /\ hasProvider
  <1>1. link \in {"open", "detached"} /\ hasProvider
    BY DEF QInv, AInv, LinkShape, WorldTyped, Detached
  <1> QED BY <1>1, Numbers, TailFacts

\* What a step that takes the first message leaves of the order.
LEMMA TakingTraffic ==
    ASSUME QInv, down # <<>>, down' = Tail(down), link' = link,
           up' = up \/ link = "open"
    PROVE  Traffic'
  <1>1. down \in Seq(Messaged) /\ Orderly(down) /\ link \in {"open", "detached"}
    BY Numbers, OnTheWay
  <1>2. /\ Orderly(down')
        /\ down[1].kind \in Dismissing => Len(down') = 0
        /\ down[1].kind \notin Dismissing => Dismissals(down') = Dismissals(down)
    BY <1>1, TakenOrder
  <1>3. Dismissals(down) = 0 => Dismissals(down') = 0
    BY <1>2 DEF Dismissals
  <1> QED BY <1>1, <1>2, <1>3 DEF QInv, Traffic

LEMMA TakingGrantedKeeps ==
    ASSUME QInv, AInv', TabEnds', Outlives,
           down # <<>>, Head(down).kind = "granted", down' = Tail(down),
           UNCHANGED <<hashing, awaiting, pending, barrier, acked, awaitingTransportBarrier,
                       made, link, up, durable>>
    PROVE  QInv'
  <1>1. Traffic'
    BY TakingTraffic
  <1>2. /\ Greetings(down) = 2 /\ Greetings(down') = 1
        /\ Acks(down') = Acks(down)
    BY Numbers, OnTheWay, TakenOrder
  <1>3. SyncUnsent' <=> SyncUnsent
    BY <1>2 DEF SyncUnsent
  <1>4. Slots' = Slots /\ Made' = Made
    BY DEF Slots, Made
  <1>5. Frames' = Frames /\ (Covered' <=> Covered)
    BY <1>3, <1>4 DEF Frames, Covered, One
  <1>6. Counted'
    BY <1>2, <1>4, <1>5 DEF QInv, Counted
  <1>7. Working => Queue'
    BY <1>4 DEF QInv, Queue
  <1> QED BY <1>1, <1>6, <1>7, Settling

LEMMA TakingSyncedKeeps ==
    ASSUME QInv, AInv', TabEnds', Outlives,
           down # <<>>, Head(down).kind = "synced", down' = Tail(down),
           up' = IF link = "open" THEN Append(up, Made) ELSE up,
           UNCHANGED <<hashing, awaiting, pending, barrier, acked, awaitingTransportBarrier,
                       made, link, durable>>
    PROVE  QInv'
  <1>1. Traffic'
    BY TakingTraffic
  <1>2. /\ Greetings(down) = 1 /\ Greetings(down') = 0
        /\ Acks(down') = Acks(down)
    BY Numbers, OnTheWay, TakenOrder
  <1>3. Slots' = Slots /\ Made' = Made
    BY DEF Slots, Made
  <1>4. Counted'
    <2>1. CASE link = "open"
      <3>1. up' = Append(up, Made) /\ Len(up') = Len(up) + 1
            /\ Range(up') = Range(up) \cup {Made}
        BY <2>1, Numbers, AppendFacts
      <3>2. SyncUnsent /\ ~SyncUnsent'
        BY <1>2, <2>1 DEF SyncUnsent
      <3>3. Frames' = Frames
        BY <3>1, <3>2, Numbers DEF Frames, One
      <3>4. Made \subseteq UNION Range(up')
        BY <3>1
      <3>5. Covered'
        BY <1>3, <3>4 DEF Covered
      <3> QED BY <1>2, <1>3, <2>1, <3>3, <3>5 DEF QInv, Counted
    <2>2. CASE link = "detached"
      BY <1>2, <1>3, <2>2 DEF QInv, Counted
    <2> QED BY <2>1, <2>2, OnTheWay
  <1>5. Working => Queue'
    BY <1>3 DEF QInv, Queue
  <1> QED BY <1>1, <1>4, <1>5, Settling

LEMMA TakingDismissalKeeps ==
    ASSUME QInv, AInv', TabEnds', Outlives,
           down # <<>>, Head(down).kind \in Dismissing, down' = Tail(down),
           UNCHANGED <<hashing, awaiting, pending, barrier, acked, awaitingTransportBarrier,
                       made, link, up, durable>>
    PROVE  QInv'
  <1>1. Traffic'
    BY TakingTraffic
  <1>2. Len(down') = 0 /\ Acks(down') = Acks(down)
    BY Numbers, OnTheWay, TakenOrder
  <1>3. Greetings(down) = 0 /\ Greetings(down') = 0
    BY <1>2, Numbers, OnTheWay DEF Greetings, Dismissing
  <1>4. Slots' = Slots /\ Made' = Made /\ (SyncUnsent' <=> SyncUnsent)
    BY <1>3 DEF Slots, Made, SyncUnsent
  <1>5. Frames' = Frames /\ (Covered' <=> Covered)
    BY <1>4 DEF Frames, Covered, One
  <1>6. Counted'
    BY <1>2, <1>4, <1>5 DEF QInv, Counted
  <1>7. Working => Queue'
    BY <1>4 DEF QInv, Queue
  <1> QED BY <1>1, <1>6, <1>7, Settling

\* While an acknowledgement is on its way, some update waits for it; and while an
\* edit is not durable, one more.
LEMMA SlotsSuffice ==
    ASSUME QInv, link \in {"open", "detached"}
    PROVE  /\ Slots >= Acks(down)
           /\ Made \subseteq durable \/ Slots > Acks(down)
  <1>1. CASE link = "detached"
    BY <1>1 DEF QInv, Counted
  <1>2. CASE link = "open"
    <2>1. /\ Slots >= Acks(down) + Frames
          /\ Covered \/ Slots > Acks(down) + Frames
      BY <1>2 DEF QInv, Counted
    <2>2. Covered /\ ~(Made \subseteq durable) => Frames > 0
      <3> SUFFICES ASSUME Covered, ~(Made \subseteq durable)
                   PROVE  Frames > 0
        OBVIOUS
      <3>1. CASE SyncUnsent
        BY <3>1, Numbers DEF Frames, One
      <3>2. CASE Made \subseteq durable \cup UNION Range(up)
        <4>1. up # <<>>
          BY <3>2, EmptyRange
        <4>2. Len(up) > 0
          BY <4>1, Numbers, TailFacts
        <4>3. One(SyncUnsent) \in Nat
          BY DEF One
        <4> QED BY <4>2, <4>3, Numbers DEF Frames
      <3> QED BY <3>1, <3>2 DEF Covered
    <2> QED BY <2>1, <2>2, Numbers
  <1> QED BY <1>1, <1>2

LEMMA NonEmptyRange ==
    ASSUME NEW S, NEW s \in Seq(S), Len(s) > 0
    PROVE  Range(s) # {}
  <1>1. 1 \in DOMAIN s
    OBVIOUS
  <1> QED BY <1>1 DEF Range

LEMMA TakingAckKeeps ==
    ASSUME QInv, AInv', TabEnds', Outlives, ReceiveAck
    PROVE  QInv'
  <1>1. /\ down # <<>> /\ Head(down).kind = "ack" /\ down' = Tail(down)
        /\ UNCHANGED <<hashing, made, link, up, durable>>
    BY DEF ReceiveAck, Receive, worldVars
  <1>2. Traffic'
    BY <1>1, TakingTraffic
  <1>3. /\ Greetings(down) = 0 /\ Greetings(down') = 0
        /\ Acks(down') = Acks(down) - 1 /\ Acks(down') \in Nat
    <2>1. /\ Greetings(down) = 0 /\ Greetings(down') = 0
          /\ Acks(down') = Acks(down) - 1
          /\ down' \in Seq(Messaged) /\ Orderly(down')
      BY <1>1, Numbers, OnTheWay, TakenOrder
    <2> QED BY <2>1, AcksCounted
  <1>4. link \in {"open", "detached"}
    BY <1>1, OnTheWay
  <1>5. /\ Slots > 0
        /\ Made \subseteq durable \/ Slots - 1 > 0
    BY <1>3, <1>4, SlotsSuffice, Numbers
  <1>6. Made' = Made /\ (SyncUnsent' <=> SyncUnsent)
    BY <1>1, <1>3 DEF Made, SyncUnsent
  <1>7. Frames' = Frames /\ (Covered' <=> Covered)
    BY <1>1, <1>6 DEF Frames, Covered, One
  <1>8. /\ Range(pending) \cap barrier = {}
        /\ pending \in Seq(Made) /\ Len(pending) \in Nat
    BY Numbers DEF QInv, AInv, UpdatesTyped
  <1>9. ASSUME awaitingTransportBarrier, awaitingTransportBarrier' = FALSE, Acknowledge(barrier),
               barrier' = {}, UNCHANGED pending
        PROVE  Slots' = Slots - 1 /\ (Working => Queue')
    <2>1. Slots' = Len(pending) /\ Slots = Len(pending) + 1
      BY <1>9, <1>8 DEF Slots, One
    <2>2. Made \subseteq durable \/ Range(pending) # {}
      BY <1>5, <1>8, <2>1, NonEmptyRange
    <2>3. Working => Queue'
      BY <1>1, <1>6, <1>8, <1>9, <2>2 DEF QInv, Queue, Acknowledge
    <2> QED BY <1>8, <2>1, <2>3
  <1>10. ASSUME ~awaitingTransportBarrier, pending # <<>>, Acknowledge({Head(pending)}),
                pending' = Tail(pending), UNCHANGED <<barrier, awaitingTransportBarrier>>
         PROVE  Slots' = Slots - 1 /\ (Working => Queue')
    <2>1. /\ Len(pending') = Len(pending) - 1 /\ pending' \in Seq(Made)
          /\ Head(pending) = pending[1] /\ Len(pending) > 0
          /\ \A i \in 1 .. Len(pending) - 1 : pending'[i] = pending[i + 1]
          /\ Range(pending) = {pending[1]} \cup Range(pending')
      BY <1>8, <1>10, TailFacts
    <2>2. Slots' = Len(pending) - 1 /\ Slots = Len(pending)
      BY <1>8, <1>10, <2>1 DEF Slots, One
    <2>3. Made \subseteq durable \/ Range(pending') # {}
      BY <1>5, <1>8, <2>1, <2>2, NonEmptyRange
    <2>4. Working => Queue'
      <3> SUFFICES ASSUME Queue PROVE Queue'
        BY DEF QInv
      <3>1. \A i \in 1 .. Len(pending) - 1 : i + 1 \in 1 .. Len(pending) /\ i + 1 # 1
        BY <1>8
      <3>2. \A i, j \in 1 .. Len(pending') : pending'[i] = pending'[j] => i = j
        <4> SUFFICES ASSUME NEW i \in 1 .. Len(pending'), NEW j \in 1 .. Len(pending'),
                            pending'[i] = pending'[j]
                     PROVE  i = j
          OBVIOUS
        <4>1. pending[i + 1] = pending[j + 1] /\ i + 1 \in 1 .. Len(pending)
              /\ j + 1 \in 1 .. Len(pending)
          BY <2>1, <3>1
        <4>2. i + 1 = j + 1
          BY <4>1 DEF Queue
        <4> QED BY <4>2
      <3>3. pending[1] \notin Range(pending')
        <4>1. DOMAIN pending' = 1 .. Len(pending')
          BY <2>1
        <4>2. ASSUME NEW i \in 1 .. Len(pending'), pending'[i] = pending[1]
              PROVE  FALSE
          <5>1. pending[i + 1] = pending[1] /\ i + 1 \in 1 .. Len(pending) /\ i + 1 # 1
            BY <2>1, <3>1, <4>2
          <5>2. 1 \in 1 .. Len(pending)
            BY <1>8, <2>1
          <5> QED BY <5>1, <5>2 DEF Queue
        <4> QED BY <4>1, <4>2 DEF Range
      <3>4. acked' \cap (barrier' \cup Range(pending')) = {}
        BY <1>8, <1>10, <2>1, <3>3 DEF Queue, Acknowledge
      <3>5. Made' \subseteq hashing' \cup awaiting' \cup acked'
        BY <1>1, <1>6, <1>10 DEF Queue, Acknowledge
      <3>6. Made' \subseteq durable' \/ barrier' \cup Range(pending') # {}
        BY <1>1, <1>6, <2>3
      <3> QED BY <3>2, <3>4, <3>5, <3>6 DEF Queue
    <2> QED BY <2>2, <2>4
  <1>11. ~awaitingTransportBarrier /\ pending = <<>> => FALSE
    <2>1. ~awaitingTransportBarrier /\ pending = <<>> => Slots = 0
      BY DEF Slots, One
    <2> QED BY <1>5, <2>1
  <1>12. Slots' = Slots - 1 /\ (Working => Queue')
    BY <1>9, <1>10, <1>11 DEF ReceiveAck
  <1>13. Counted'
    <2>1. CASE link = "open"
      <3>1. /\ Slots >= Acks(down) + Frames
            /\ Covered \/ Slots > Acks(down) + Frames
        BY <2>1 DEF QInv, Counted
      <3>2. /\ Slots' >= Acks(down') + Frames'
            /\ Covered' \/ Slots' > Acks(down') + Frames'
        BY <1>3, <1>7, <1>12, <3>1, Numbers
      <3> QED BY <1>1, <2>1, <3>2 DEF Counted
    <2>2. CASE link = "detached"
      <3>1. Slots >= Acks(down) /\ (Made \subseteq durable \/ Slots > Acks(down))
        BY <2>2 DEF QInv, Counted
      <3>2. Slots' >= Acks(down') /\ (Made' \subseteq durable' \/ Slots' > Acks(down'))
        BY <1>1, <1>3, <1>6, <1>12, <3>1, Numbers
      <3> QED BY <1>1, <2>2, <3>2 DEF Counted
    <2> QED BY <1>4, <2>1, <2>2
  <1> QED BY <1>2, <1>12, <1>13, Settling

LEMMA EditingKeeps ==
    ASSUME QInv, AInv', TabEnds', ~KeepsOfflineFrames, Edit
    PROVE  QInv'
  <1>1. /\ made' = made + 1 /\ pending' = Append(pending, made')
        /\ hashing' = hashing \cup {made'}
        /\ up' = IF link \in {"connecting", "open"} THEN Append(up, {made'}) ELSE up
        /\ UNCHANGED <<store, awaiting, barrier, acked, awaitingTransportBarrier,
                       tab, link, down, durable>>
    BY DEF Edit, worldVars
  <1>2. Outlives
    BY <1>1 DEF Outlives, Edit
  <1>3. made \in Nat /\ Made' = Made \cup {made'} /\ made' \notin Made
    <2>1. made \in Nat
      BY DEF QInv, AInv, UpdatesTyped
    <2> QED BY <1>1, <2>1 DEF Made
  <1>4. /\ Len(pending') = Len(pending) + 1
        /\ pending'[Len(pending) + 1] = made'
        /\ \A i \in 1 .. Len(pending) : pending'[i] = pending[i]
        /\ Range(pending') = Range(pending) \cup {made'}
        /\ pending \in Seq(Made) /\ Len(pending) \in Nat
    <2>1. pending \in Seq(Made') /\ made' \in Made'
      BY <1>3, Numbers
    <2> QED BY <1>1, <2>1, Numbers, AppendFacts
  <1>5. Slots' = Slots + 1
    BY <1>1, <1>4 DEF Slots, One
  <1>6. Traffic'
    BY <1>1 DEF QInv, Traffic
  <1>7. Working => Queue'
    <2> SUFFICES ASSUME Queue PROVE Queue'
      BY DEF QInv
    <2>1. \A i \in 1 .. Len(pending) : pending[i] \in Made
      BY <1>4
    <2>2. \A i \in 1 .. Len(pending) + 1 : i \in 1 .. Len(pending) \/ i = Len(pending) + 1
      BY <1>4
    <2>3. \A i, j \in 1 .. Len(pending') : pending'[i] = pending'[j] => i = j
      <3> SUFFICES ASSUME NEW i \in 1 .. Len(pending'), NEW j \in 1 .. Len(pending'),
                          pending'[i] = pending'[j]
                   PROVE  i = j
        OBVIOUS
      <3>1. CASE i \in 1 .. Len(pending) /\ j \in 1 .. Len(pending)
        BY <1>4, <3>1 DEF Queue
      <3>2. CASE i = Len(pending) + 1 /\ j \in 1 .. Len(pending)
        BY <1>3, <1>4, <2>1, <3>2
      <3>3. CASE i \in 1 .. Len(pending) /\ j = Len(pending) + 1
        BY <1>3, <1>4, <2>1, <3>3
      <3>4. CASE i = Len(pending) + 1 /\ j = Len(pending) + 1
        BY <3>4
      <3> QED BY <1>4, <2>2, <3>1, <3>2, <3>3, <3>4
    <2>4. acked' \cap (barrier' \cup Range(pending')) = {}
      <3>1. acked \subseteq Made
        BY DEF QInv, AInv, UpdatesTyped
      <3> QED BY <1>1, <1>3, <1>4, <3>1 DEF Queue
    <2>5. Made' \subseteq hashing' \cup awaiting' \cup acked'
      BY <1>1, <1>3 DEF Queue
    <2> QED BY <1>1, <1>4, <2>3, <2>4, <2>5 DEF Queue
  <1>8. Counted'
    <2>1. CASE link \in {"connecting", "open"}
      <3>1. /\ Slots >= Acks(down) + Frames
            /\ Covered \/ Slots > Acks(down) + Frames
        BY <2>1 DEF QInv, Counted
      <3>2. /\ Len(up') = Len(up) + 1 /\ Range(up') = Range(up) \cup {{made'}}
        <4>1. up \in Seq(SUBSET Made') /\ {made'} \in SUBSET Made'
          BY <1>3, Numbers
        <4>2. /\ Len(Append(up, {made'})) = Len(up) + 1
              /\ Range(Append(up, {made'})) = Range(up) \cup {{made'}}
          <5>1. PICK frames, frame : frames = SUBSET Made' /\ frame = {made'}
            OBVIOUS
          <5>2. up \in Seq(frames) /\ frame \in frames
            BY <4>1, <5>1
          <5>3. /\ Len(Append(up, frame)) = Len(up) + 1
                /\ Range(Append(up, frame)) = Range(up) \cup {frame}
            BY <5>2, AppendFacts
          <5> QED BY <5>1, <5>3
        <4> QED BY <1>1, <2>1, <4>2
      <3>3. SyncUnsent' <=> SyncUnsent
        BY <1>1 DEF SyncUnsent
      <3>4. Frames' = Frames + 1
        <4>1. One(SyncUnsent') = One(SyncUnsent) /\ One(SyncUnsent) \in Nat
          BY <3>3 DEF One
        <4> QED BY <3>2, <4>1, Numbers DEF Frames
      <3>5. Covered => Covered'
        BY <1>1, <1>3, <3>2, <3>3 DEF Covered
      <3>6. /\ Slots' >= Acks(down') + Frames'
            /\ Covered' \/ Slots' > Acks(down') + Frames'
        BY <1>1, <1>5, <3>1, <3>4, <3>5, Numbers
      <3> QED BY <1>1, <2>1, <3>6 DEF Counted
    <2>2. CASE link = "detached"
      <3>1. Slots >= Acks(down)
        BY <2>2 DEF QInv, Counted
      <3>2. Slots' >= Acks(down') /\ Slots' > Acks(down')
        BY <1>1, <1>5, <3>1, Numbers
      <3> QED BY <1>1, <2>2, <3>2 DEF Counted
    <2>3. CASE link = "off"
      BY <1>1, <2>3 DEF Counted
    <2> QED BY <2>1, <2>2, <2>3 DEF QInv, AInv, WorldTyped
  <1> QED BY <1>2, <1>6, <1>7, <1>8, Settling

LEMMA SummingKeeps ==
    ASSUME QInv, AInv', TabEnds', ChecksumSucceeds
    PROVE  QInv'
  <1>1. PICK n \in hashing :
          /\ hasProvider
          /\ hashing' = hashing \ {n}
          /\ awaiting' = IF n \in acked THEN awaiting ELSE awaiting \cup {n}
          /\ store' = [store EXCEPT !.delayed = @ /\ ~(n \in acked /\ awaiting = {})]
          /\ UNCHANGED <<pending, barrier, acked, awaitingTransportBarrier, delayTimer,
                         authorityVars, hasProvider, tab, made, linkVars, worldVars>>
    BY DEF ChecksumSucceeds
  <1>2. store \in Store
    BY DEF QInv, AInv, HonestStore
  <1>3. store'.lifecycle = store.lifecycle
    BY <1>1, <1>2 DEF Store
  <1>4. Outlives
    BY <1>1, <1>3 DEF Outlives, worldVars
  <1>5. Traffic'
    BY <1>1 DEF QInv, Traffic, linkVars
  <1>6. /\ Slots' = Slots /\ Frames' = Frames /\ Acks(down') = Acks(down)
        /\ Covered' = Covered /\ Made' = Made
    BY <1>1 DEF Slots, Frames, Covered, SyncUnsent, Made, linkVars, worldVars
  <1>7. Counted'
    BY <1>1, <1>6 DEF QInv, Counted, linkVars, worldVars
  <1>8. Working => Queue'
    BY <1>1, <1>6 DEF QInv, Queue, linkVars, worldVars
  <1> QED BY <1>4, <1>5, <1>7, <1>8, Settling

LEMMA GrantingKeeps ==
    ASSUME QInv, AInv', TabEnds', Grant
    PROVE  QInv'
  <1>1. /\ link = "connecting" /\ link' = "open"
        /\ down' = <<Message("granted", "none"), Message("synced", "none")>>
        /\ UNCHANGED <<store, hashing, awaiting, pending, barrier, acked,
                       awaitingTransportBarrier, made, tab, up, durable>>
    BY DEF Grant, browserVars, updateVars, worldVars
  <1>2. Outlives
    BY <1>1 DEF Outlives
  <1>3. /\ Len(down') = 2 /\ down'[1].kind = "granted" /\ down'[2].kind = "synced"
    BY <1>1 DEF Message
  <1>4. Orderly(down') /\ Dismissals(down') = 0
    <2>1. \A i \in 1 .. Len(down') : i = 1 \/ i = 2
      BY <1>3
    <2> QED BY <1>3, <2>1 DEF Orderly, Dismissals, Dismissing
  <1>5. Greetings(down') = 2 /\ Acks(down') = 0
    BY <1>3, <1>4 DEF Greetings, Acks
  <1>6. Acks(down) = 0
    <2>1. Len(down) = 0
      BY <1>1 DEF QInv, AInv, LinkShape
    <2> QED BY <2>1 DEF Acks, Greetings, Dismissals
  <1>7. SyncUnsent /\ SyncUnsent' /\ Slots' = Slots /\ Made' = Made
    BY <1>1, <1>5 DEF SyncUnsent, Slots, Made
  <1>8. Frames' = Frames /\ Covered'
    BY <1>1, <1>7 DEF Frames, Covered, One
  <1>9. Traffic'
    BY <1>1, <1>4 DEF Traffic
  <1>10. Counted'
    BY <1>1, <1>5, <1>6, <1>7, <1>8 DEF QInv, Counted
  <1>11. Working => Queue'
    BY <1>1, <1>7 DEF QInv, Queue
  <1> QED BY <1>2, <1>9, <1>10, <1>11, Settling

LEMMA DurableKeeps ==
    ASSUME QInv, AInv', TabEnds', MakeDurable
    PROVE  QInv'
  <1>1. /\ link = "open" /\ up # <<>> /\ up' = Tail(up)
        /\ \/ durable' = durable \cup Head(up) /\ down' = Append(down, Message("ack", "none"))
           \/ UNCHANGED <<durable, down>>
        /\ UNCHANGED <<store, hashing, awaiting, pending, barrier, acked,
                       awaitingTransportBarrier, made, tab, link>>
    BY DEF MakeDurable, browserVars, updateVars
  <1>2. Outlives
    BY <1>1 DEF Outlives
  <1>3. /\ Len(up') = Len(up) - 1 /\ Head(up) = up[1]
        /\ Range(up) = {Head(up)} \cup Range(up')
    BY <1>1, Numbers, TailFacts
  <1>4. Slots' = Slots /\ Made' = Made
    BY <1>1 DEF Slots, Made
  <1>5. /\ Slots >= Acks(down) + Frames
        /\ Covered \/ Slots > Acks(down) + Frames
    BY <1>1 DEF QInv, Counted
  <1>6. Dismissals(down) = 0
    BY <1>1 DEF QInv, Traffic
  <1>7. Working => Queue'
    BY <1>1, <1>4 DEF QInv, Queue
  <1>8. CASE durable' = durable \cup Head(up) /\ down' = Append(down, Message("ack", "none"))
    <2>1. Message("ack", "none") \in Messaged /\ Message("ack", "none").kind = "ack"
      BY DEF Message, Messaged
    <2>2. /\ Orderly(down') /\ Greetings(down') = Greetings(down)
          /\ Acks(down') = Acks(down) + 1 /\ Dismissals(down') = 0
      BY <1>6, <1>8, <2>1, Numbers, AddedOrder
    <2>3. SyncUnsent' <=> SyncUnsent
      BY <1>1, <2>2 DEF SyncUnsent
    <2>4. Frames' = Frames - 1
      <3>1. One(SyncUnsent') = One(SyncUnsent) /\ One(SyncUnsent) \in Nat
        BY <2>3 DEF One
      <3> QED BY <1>3, <3>1, Numbers DEF Frames
    <2>5. Covered => Covered'
      BY <1>3, <1>4, <1>8, <2>3 DEF Covered
    <2>6. /\ Slots' >= Acks(down') + Frames'
          /\ Covered' \/ Slots' > Acks(down') + Frames'
      BY <1>4, <1>5, <2>2, <2>4, <2>5, Numbers
    <2>7. Counted' /\ Traffic'
      BY <1>1, <2>2, <2>6 DEF Counted, Traffic
    <2> QED BY <1>2, <1>7, <2>7, Settling
  <1>9. CASE UNCHANGED <<durable, down>>
    <2>1. SyncUnsent' <=> SyncUnsent
      BY <1>1, <1>9 DEF SyncUnsent
    <2>2. Frames' = Frames - 1
      <3>1. One(SyncUnsent') = One(SyncUnsent) /\ One(SyncUnsent) \in Nat
        BY <2>1 DEF One
      <3> QED BY <1>3, <3>1, Numbers DEF Frames
    <2>3. Slots' > Acks(down') + Frames' /\ Slots' >= Acks(down') + Frames'
      BY <1>4, <1>5, <1>9, <2>2, Numbers
    <2>4. Counted' /\ Traffic'
      BY <1>1, <1>9, <2>3 DEF QInv, Counted, Traffic
    <2> QED BY <1>2, <1>7, <2>4, Settling
  <1> QED BY <1>1, <1>8, <1>9

LEMMA DismissingKeeps ==
    ASSUME QInv, AInv', TabEnds', link \in {"connecting", "open"},
           NEW kind \in Dismissing,
           NEW reason \in {"expired", "draining", "storage", "fatal"},
           Dismiss(kind, reason)
    PROVE  QInv'
  <1>1. /\ link' = "detached" /\ up' = <<>>
        /\ down' = Append(down, Message(kind, reason))
        /\ UNCHANGED <<store, hashing, awaiting, pending, barrier, acked,
                       awaitingTransportBarrier, made, tab, durable>>
    BY DEF Dismiss, browserVars, updateVars
  <1>2. Outlives
    BY <1>1 DEF Outlives
  <1>3. /\ Message(kind, reason) \in Messaged
        /\ Message(kind, reason).kind \in Dismissing
    BY DEF Message, Messaged, Dismissing
  <1>4. Dismissals(down) = 0
    BY DEF QInv, Traffic
  <1>5. Orderly(down') /\ Acks(down') = Acks(down)
    BY <1>1, <1>3, <1>4, Numbers, AddedOrder DEF Dismissing
  <1>6. Slots' = Slots /\ Made' = Made
    BY <1>1 DEF Slots, Made
  <1>7. Slots >= Acks(down) /\ (Made \subseteq durable \/ Slots > Acks(down))
    <2>1. CASE link = "open"
      BY <2>1, SlotsSuffice
    <2>2. CASE link = "connecting"
      <3>1. Slots >= Acks(down) + Frames
        BY <2>2 DEF QInv, Counted
      <3>2. Frames > 0
        BY <2>2, Numbers DEF Frames, SyncUnsent, One
      <3> QED BY <3>1, <3>2, Numbers
    <2> QED BY <2>1, <2>2
  <1>8. Counted' /\ Traffic'
    BY <1>1, <1>5, <1>6, <1>7 DEF Counted, Traffic
  <1>9. Working => Queue'
    BY <1>1, <1>6 DEF QInv, Queue
  <1> QED BY <1>2, <1>8, <1>9, Settling

-----------------------------------------------------------------------------
(* Every step keeps the invariant.                                         *)

LEMMA TabStaysEnded ==
    ASSUME QInv, [Next]_vars
    PROVE  TabEnds'
  <1> USE DEF TabEnds, updateVars, authorityVars, linkVars, worldVars, browserVars
  <1> SUFFICES ASSUME tab' \in {"destroyed", "timed_out"}
               PROVE  ~hasProvider' /\ phase' = "none"
    OBVIOUS
  <1>1. ASSUME NEW end \in {"destroyed", "timed_out"}, Destroy(end)
        PROVE  ~hasProvider' /\ phase' = "none"
    BY <1>1 DEF Destroy, Teardown
  <1>2. CASE Unmount \/ Cleanup \/ CleanupTimesOut
    BY <1>1, <1>2 DEF Unmount, Cleanup, CleanupTimesOut
  <1>3. ASSUME ~(Unmount \/ Cleanup \/ CleanupTimesOut), Next
        PROVE  tab' = tab
    <2>1. CASE Authority
      BY <2>1 DEF Authority, FirstIssueSucceeds, FirstIssueFails, Quiesced, IssueSucceeds,
                  IssueFails, ResetTransport, RefreshFails
    <2>2. CASE IssueInvalid \/ RefreshTimerFires \/ StrayReconnection \/ StorageDelayElapses
      BY <2>2 DEF IssueInvalid, FailFatal, RefreshTimerFires, StrayReconnection, StorageDelayElapses
    <2>3. CASE Messages
      BY <2>3 DEF Messages, ReceiveGranted, ReceiveSynced, ReceiveAck, ReceiveDismissal,
                  ReceiveFatalDismissal, FailFatal
    <2>4. CASE Edit \/ ChecksumSucceeds \/ ChecksumFails
      BY <2>4 DEF Edit, ChecksumSucceeds, ChecksumFails, FailFatal
    <2>5. CASE Transport
      BY <2>5 DEF Transport, Reconnect, TransportCloses, TransportEnds, NetworkReturns, Grant,
                  MakeDurable
    <2>6. CASE SidecarRestarts \/ NetworkFails \/ Refuse \/ CloseRoom
      BY <2>6 DEF SidecarRestarts, TransportEnds, NetworkFails, Refuse, CloseRoom, Dismiss
    <2> QED BY <1>3, <2>1, <2>2, <2>3, <2>4, <2>5, <2>6 DEF Next
  <1>4. ASSUME tab' = tab, Next
        PROVE  ~hasProvider' /\ phase' = "none"
    <2>1. /\ ~hasProvider /\ phase = "none" /\ link = "off" /\ ~reconnects /\ ~timer
          /\ down = <<>>
      BY <1>4 DEF QInv, AInv, Detached, LinkShape
    <2>2. CASE Authority
      BY <2>1, <2>2 DEF Authority, FirstIssueSucceeds, FirstIssueFails, Quiesced, IssueSucceeds,
                  IssueFails, ResetTransport, RefreshFails
    <2>3. CASE IssueInvalid \/ RefreshTimerFires \/ StrayReconnection \/ StorageDelayElapses
      BY <2>1, <2>3 DEF IssueInvalid, RefreshTimerFires, StrayReconnection, StorageDelayElapses
    <2>4. CASE Messages
      BY <2>1, <2>4 DEF Messages, ReceiveGranted, ReceiveSynced, ReceiveAck, ReceiveDismissal,
                  ReceiveFatalDismissal, Receive
    <2>5. CASE Edit \/ ChecksumSucceeds \/ ChecksumFails
      BY <2>1, <2>5 DEF Edit, ChecksumSucceeds, ChecksumFails
    <2>6. CASE Transport
      BY <2>1, <2>6 DEF Transport, Reconnect, TransportCloses, TransportEnds, NetworkReturns, Grant,
                  MakeDurable
    <2>7. CASE SidecarRestarts \/ NetworkFails \/ Refuse \/ CloseRoom
      BY <2>1, <2>7 DEF SidecarRestarts, TransportEnds, NetworkFails, Refuse, CloseRoom
    <2>8. CASE Unmount \/ Cleanup \/ CleanupTimesOut
      BY <1>2, <2>8
    <2> QED BY <1>4, <2>2, <2>3, <2>4, <2>5, <2>6, <2>7, <2>8 DEF Next
  <1>5. CASE UNCHANGED vars
    BY <1>5 DEF QInv, vars
  <1> QED BY <1>2, <1>3, <1>4, <1>5

\* The store of a session that has failed stays failed.
LEMMA TameOutlives ==
    ASSUME Tame(store, store'), UNCHANGED <<tab, hashing, awaiting, made>>,
           durable' = durable
    PROVE  Outlives
  BY DEF Tame, Outlives

LEMMA QInvNext ==
    ASSUME ~KeepsOfflineFrames, QInv, [Next]_vars
    PROVE  QInv'
  <1>1. AInv /\ AInv'
    BY AInvNext DEF QInv
  <1>2. TabEnds'
    BY TabStaysEnded
  <1>3. HonestStore(store)
    BY <1>1 DEF AInv
  <1> USE DEF updateVars, authorityVars, linkVars, worldVars, browserVars
  \* What changes neither edits nor traffic.
  <1>4. ASSUME Tame(store, store'), Still, UNCHANGED tab
        PROVE  QInv'
    BY <1>1, <1>2, <1>4, TameOutlives, StillKeeps DEF Still
  \* What opens a transport.
  <1>5. ASSUME link = "off", NEW s, Tame(store, s), NEW flags \in Flags, Connecting(s, flags),
               UNCHANGED <<tab, made, durable>>
        PROVE  QInv'
    <2>1. /\ Tame(store, store')
          /\ MoveToBarrier /\ awaitingTransportBarrier' = TRUE
          /\ UNCHANGED <<hashing, awaiting, acked, delayTimer, up>>
          /\ link' = "connecting" /\ down' = <<>>
      BY <1>1, <1>5, ConnectingOpens
    <2>2. Outlives
      BY <1>5, <2>1, TameOutlives
    <2> QED BY <1>1, <1>2, <1>5, <2>1, <2>2, OpeningKeeps
  \* What ends one.
  <1>6. ASSUME TransportEnds
        PROVE  QInv'
    <2>1. Tame(store, store')
      BY <1>3, <1>6, TameTransitions DEF TransportEnds
    <2>2. Outlives
      BY <1>6, <2>1, TameOutlives DEF TransportEnds
    <2> QED BY <1>1, <1>2, <1>6, <2>2, EndingKeeps DEF TransportEnds
  \* What ends the session.
  <1>7. ASSUME FailFatal
        PROVE  QInv'
    <2>1. /\ store'.lifecycle = "fatal" /\ link' = "off" /\ up' = <<>> /\ down' = <<>>
      BY <1>3, <1>7, TameTransitions DEF FailFatal, Teardown, SilentLink
    <2> QED BY <1>1, <1>2, <2>1, FailingKeeps
  <1>8. reauthentication \in Flags /\ Tame(store, store) /\ Tame(store, BeginReauthenticating(store))
    BY <1>1, <1>3, TameTransitions DEF AInv, AuthorityTyped
  <1>9. CASE Authority
    <2>1. CASE FirstIssueSucceeds
      <3>1. link = "off"
        BY <1>1, <2>1 DEF FirstIssueSucceeds, AInv, Detached
      <3>2. Connecting(store, reauthentication) /\ UNCHANGED <<tab, made, durable>>
        BY <2>1 DEF FirstIssueSucceeds
      <3> QED BY <1>5, <1>8, <3>1, <3>2
    <2>2. CASE FirstIssueFails
      <3>1. link = "off" /\ down = <<>> /\ up = <<>>
        BY <1>1, <2>2 DEF FirstIssueFails, AInv, Detached, LinkShape, QInv, Traffic
      <3>2. Still /\ UNCHANGED tab
        BY <2>2, <3>1 DEF FirstIssueFails, Teardown, SilentLink, Still
      <3>3. Tame(store, store')
        BY <1>3, <2>2, TameTransitions DEF FirstIssueFails
      <3> QED BY <1>4, <3>2, <3>3
    <2>3. CASE Quiesced
      BY <1>4, <1>8, <2>3 DEF Quiesced, Still
    <2>4. CASE IssueSucceeds
      <3>1. Tame(store, store') /\ Still /\ UNCHANGED tab
        BY <1>8, <2>4 DEF IssueSucceeds, Still
      <3> QED BY <1>4, <3>1
    <2>5. CASE IssueFails
      <3>1. Tame(store, store') /\ Still /\ UNCHANGED tab
        BY <1>8, <2>5 DEF IssueFails, Still
      <3> QED BY <1>4, <3>1
    <2>6. CASE ResetTransport
      <3>1. PICK flags : flags = [reauthentication EXCEPT !.accepting = FALSE, !.sawDisconnect = TRUE]
        OBVIOUS
      <3>2. flags \in Flags
        BY <1>8, <3>1 DEF Flags
      <3>3. link = "off" /\ UNCHANGED <<tab, made, durable>>
            /\ Connecting(BeginReauthenticating(store), flags)
        BY <2>6, <3>1 DEF ResetTransport
      <3> QED BY <1>5, <1>8, <3>2, <3>3
    <2>7. CASE RefreshFails
      <3>1. Tame(store, store') /\ Still /\ UNCHANGED tab
        BY <1>3, <2>7, TameTransitions DEF RefreshFails, Still
      <3> QED BY <1>4, <3>1
    <2> QED BY <1>9, <2>1, <2>2, <2>3, <2>4, <2>5, <2>6, <2>7 DEF Authority
  <1>10. CASE IssueInvalid
    BY <1>7, <1>10 DEF IssueInvalid
  <1>11. CASE RefreshTimerFires
    <2>1. Still /\ UNCHANGED tab
      BY <1>11 DEF RefreshTimerFires, Still
    <2>2. Tame(store, store')
      BY <1>1, <1>8, <1>11, Refreshing DEF RefreshTimerFires, AInv, AuthorityTyped, Detached
    <2> QED BY <1>4, <2>1, <2>2
  <1>12. CASE StrayReconnection
    BY <1>5, <1>8, <1>12 DEF StrayReconnection
  <1>13. CASE Messages
    <2>1. CASE ReceiveGranted
      <3>1. /\ down # <<>> /\ Head(down).kind = "granted" /\ down' = Tail(down)
            /\ UNCHANGED <<hashing, awaiting, pending, barrier, acked, awaitingTransportBarrier,
                           made, link, up, durable, tab>>
        BY <2>1 DEF ReceiveGranted, Receive
      <3>2. store.lifecycle = "fatal" => store'.lifecycle = "fatal"
        BY <1>3, <2>1, Authenticating DEF ReceiveGranted
      <3>3. Outlives
        BY <3>1, <3>2 DEF Outlives
      <3> QED BY <1>1, <1>2, <3>1, <3>3, TakingGrantedKeeps
    <2>2. CASE ReceiveSynced
      <3>1. /\ down # <<>> /\ Head(down).kind = "synced" /\ down' = Tail(down)
            /\ up' = IF link = "open" THEN Append(up, Made) ELSE up
            /\ UNCHANGED <<hashing, awaiting, pending, barrier, acked, awaitingTransportBarrier,
                           made, link, durable, tab>>
        BY <2>2 DEF ReceiveSynced, Receive
      <3>2. Tame(store, store')
        BY <1>3, <2>2, TameTransitions DEF ReceiveSynced
      <3>3. Outlives
        BY <3>1, <3>2, TameOutlives
      <3> QED BY <1>1, <1>2, <3>1, <3>3, TakingSyncedKeeps
    <2>3. CASE ReceiveAck
      <3>1. down # <<>> /\ UNCHANGED <<tab, hashing, made, durable>>
        BY <2>3 DEF ReceiveAck, Receive
      <3>2. hasProvider
        BY <3>1, OnTheWay
      <3>3. store.lifecycle = "fatal" => store'.lifecycle = "fatal"
        <4>1. store \in Store
          BY <1>3 DEF HonestStore
        <4> QED BY <2>3, <4>1 DEF ReceiveAck, Acknowledge, Store
      <3>4. Outlives
        BY <3>1, <3>2, <3>3 DEF Outlives
      <3> QED BY <1>1, <1>2, <2>3, <3>4, TakingAckKeeps
    <2>4. CASE ReceiveDismissal
      <3>1. /\ Tame(store, store') /\ down # <<>> /\ down' = Tail(down)
            /\ UNCHANGED <<hashing, awaiting, pending, barrier, acked, awaitingTransportBarrier,
                           made, link, up, durable, tab>>
        BY <1>1, <2>4, DismissalEffect
      <3>2. Head(down).kind \in Dismissing
        BY <2>4 DEF ReceiveDismissal, Receive, Dismissing
      <3>3. Outlives
        BY <3>1, TameOutlives
      <3> QED BY <1>1, <1>2, <3>1, <3>2, <3>3, TakingDismissalKeeps
    <2>5. CASE ReceiveFatalDismissal
      BY <1>7, <2>5 DEF ReceiveFatalDismissal
    <2> QED BY <1>13, <2>1, <2>2, <2>3, <2>4, <2>5 DEF Messages
  <1>14. CASE StorageDelayElapses
    <2>1. Tame(store, store') /\ Still /\ UNCHANGED tab
      BY <1>3, <1>14, TameTransitions DEF StorageDelayElapses, Still
    <2> QED BY <1>4, <2>1
  <1>15. CASE Edit
    BY <1>1, <1>2, <1>15, EditingKeeps
  <1>16. CASE ChecksumSucceeds
    BY <1>1, <1>2, <1>16, SummingKeeps
  <1>17. CASE ChecksumFails
    BY <1>7, <1>17 DEF ChecksumFails
  <1>18. CASE Unmount
    <2>1. CASE ~HasPendingUpdates /\ Destroy("destroyed")
      BY <1>1, <2>1, DestroyingKeeps
    <2>2. CASE /\ tab' = "leaving"
               /\ UNCHANGED <<store, updateVars, authorityVars, hasProvider, made, linkVars, worldVars>>
      <3>1. Outlives /\ Still
        BY <1>18, <2>2 DEF Unmount, Outlives, Still
      <3> QED BY <1>1, <1>2, <3>1, StillKeeps
    <2> QED BY <1>18, <2>1, <2>2 DEF Unmount
  <1>19. CASE Cleanup \/ CleanupTimesOut
    BY <1>1, <1>19, DestroyingKeeps DEF Cleanup, CleanupTimesOut
  <1>20. CASE Transport
    <2>1. CASE Reconnect
      BY <1>5, <1>8, <2>1 DEF Reconnect
    <2>2. CASE TransportCloses
      BY <1>6, <2>2 DEF TransportCloses
    <2>3. CASE NetworkReturns
      BY <1>4, <1>8, <2>3 DEF NetworkReturns, Still
    <2>4. CASE Grant
      BY <1>1, <1>2, <2>4, GrantingKeeps
    <2>5. CASE MakeDurable
      BY <1>1, <1>2, <2>5, DurableKeeps
    <2> QED BY <1>20, <2>1, <2>2, <2>3, <2>4, <2>5 DEF Transport
  <1>21. CASE SidecarRestarts
    BY <1>6, <1>21 DEF SidecarRestarts
  <1>22. CASE NetworkFails
    <2>1. Tame(store, store') /\ Still /\ UNCHANGED tab
      BY <1>8, <1>22 DEF NetworkFails, Still
    <2> QED BY <1>4, <2>1
  <1>23. CASE Refuse \/ CloseRoom
    <2>1. \E kind \in Dismissing, reason \in {"expired", "draining", "storage", "fatal"} :
            Dismiss(kind, reason)
      <3>1. CASE Refuse
        BY <3>1 DEF Refuse, Dismissing
      <3>2. CASE CloseRoom
        BY <3>2 DEF CloseRoom, Dismissing
      <3> QED BY <1>23, <3>1, <3>2
    <2>2. link \in {"connecting", "open"}
      BY <1>23 DEF Refuse, CloseRoom
    <2> QED BY <1>1, <1>2, <2>1, <2>2, DismissingKeeps
  <1>24. CASE UNCHANGED vars
    <2>1. Tame(store, store') /\ Still /\ UNCHANGED tab
      BY <1>8, <1>24 DEF vars, Still
    <2> QED BY <1>4, <2>1
  <1> QED BY <1>9, <1>10, <1>11, <1>12, <1>13, <1>14, <1>15, <1>16, <1>17, <1>18, <1>19,
             <1>20, <1>21, <1>22, <1>23, <1>24 DEF Next

LEMMA QInvariance ==
    ASSUME ~KeepsOfflineFrames
    PROVE  Spec => []QInv
  <1>1. QInv /\ [Next]_vars => QInv'
    BY QInvNext
  <1> QED BY <1>1, QInvInit, PTL DEF Spec

\* When the guard of navigation, the barrier of AI commands and the approval
\* button are told that no updates are pending (hasPendingCollaborationUpdates),
\* every edit of the tab is durable, whatever transports, acknowledgements,
\* checksums and capabilities were lost, late or refused; provided that the
\* provider sends nothing on a new transport that was written before it.
THEOREM GuardIsHonest ==
    ASSUME ~KeepsOfflineFrames
    PROVE  Spec => []GuardHonest
  <1>1. QInv => GuardHonest
    BY DEF QInv
  <1> QED BY <1>1, QInvariance, PTL

\* A tab whose deferred cleanup has run leaves no edit behind, unless it was told
\* that its session had failed or its ten seconds were over.
THEOREM CleanupIsPatient ==
    ASSUME ~KeepsOfflineFrames
    PROVE  Spec => []CleanupWaits
  <1>1. QInv => CleanupWaits
    BY DEF QInv
  <1> QED BY <1>1, QInvariance, PTL

=============================================================================
