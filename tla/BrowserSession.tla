--------------------------- MODULE BrowserSession ---------------------------
(***************************************************************************)
(* One browser tab's collaboration session: the session store, the        *)
(* Hocuspocus provider adapter that drives it, the refresh of the          *)
(* capability, and the deferred cleanup of an unmounted editor.            *)
(* Everything runs in one JavaScript thread, so an action is one callback; *)
(* what interleaves are the callbacks: local edits, finished checksums,    *)
(* timers, answers of the capability issuer, messages and losses of the    *)
(* transport.  The transport, the sidecar and the issuer are external and  *)
(* modelled from how the adapter uses them.                                *)
(*                                                                         *)
(* The n-th local edit is the number n.                                    *)
(***************************************************************************)
EXTENDS Naturals, Sequences, FiniteSets, Functions

CONSTANTS
    MaxEdits,        \* bound on local edits
    MaxTokens,       \* bound on issued capabilities
    MaxOutages,      \* bound on network failures, sidecar restarts and storage failures
    Scopes,          \* the permissions the issuer may grant
    MayRefuse,       \* whether the issuer and the sidecar may turn the session away while
                     \* the network works: lost access, a draining, rotated or failing room
    KeepsOfflineFrames \* whether the provider also sends, on the next transport, frames
                     \* written while there was none; the adapter relies on FALSE

ASSUME BrowserBounds ==
    /\ MaxEdits \in Nat /\ MaxTokens \in Nat \ {0} /\ MaxOutages \in Nat
    /\ Scopes \subseteq {"readonly", "read-write"} /\ Scopes # {}
    /\ MayRefuse \in BOOLEAN /\ KeepsOfflineFrames \in BOOLEAN

VARIABLES
    store,      \* the session store's state, but for its three lists of updates
    hashing,    \* edits whose checksum is being computed: pendingLocalUpdateCount
    awaiting,   \* pendingDurableAcknowledgementChecksums
    pending,    \* pendingUpdates, in the order their frames went out
    barrier,    \* reconnectBarrierUpdates
    acked,      \* edits whose PendingUpdate is marked acknowledged
    awaitingTransportBarrier,
    delayTimer, \* whether storageDelayTimer is set
    capability, \* the issued capability that getToken hands out, 0 for none
    reauthentication, \* the five flags of a refresh
    phase,      \* where connect or refreshCapability is waiting
    timer,      \* whether refreshTimer is set
    hasProvider,\* whether there is a providerHandle
    tab,        \* mounted, leaving (cleanup deferred), destroyed or timed_out
    made,       \* number of local edits so far
    link,       \* the websocket and the document's attachment to it
    reconnects, \* whether the websocket reconnects by itself
    served,     \* the capability that the sidecar accepted for this transport
    up,         \* frames on their way to the sidecar, each the set of its edits
    down,       \* messages on their way to the browser
    durable,    \* edits that the sidecar has made durable
    scopes,     \* the permission of each issued capability
    grantedBy,  \* the capability that the store's permission came from
    online,     \* whether the network works
    outages     \* failures so far

updateVars == <<hashing, awaiting, pending, barrier, acked, awaitingTransportBarrier, delayTimer>>
authorityVars == <<capability, reauthentication, phase, timer, grantedBy>>
linkVars == <<link, reconnects, served, up, down>>
worldVars == <<durable, scopes, online, outages>>
vars == <<store, updateVars, authorityVars, hasProvider, tab, made, linkVars, worldVars>>

Edits == 1..MaxEdits
Made == 1..made
Permission(scope) == IF scope = "read-write" THEN "write" ELSE "read"
\* A bound: the refresh timer and the failures that call for a new capability
\* stop when no more may be issued.
MayRefresh == Len(scopes) < MaxTokens

-----------------------------------------------------------------------------
(* The session store. *)

HasPendingUpdates == hashing \cup awaiting # {}

Status(s) ==
    IF s.lifecycle \in {"fatal", "authorization_expired"} THEN s.lifecycle
    ELSE IF s.lifecycle = "reconnecting" /\ HasPendingUpdates THEN "offline_pending"
    ELSE IF s.delayed THEN "storage_delayed"
    ELSE IF ~s.transportSynced \/ s.permission = "none" THEN s.lifecycle
    ELSE IF s.permission = "read" THEN "read_only" ELSE "synced"

Writable ==
    /\ store.permission = "write"
    /\ \/ store.transportSynced /\ Status(store) \in {"synced", "storage_delayed"}
       \/ /\ store.hasCompletedInitialSync /\ ~store.requiresFreshSync
          /\ Status(store) \in {"reconnecting", "offline_pending", "storage_delayed"}

IsTerminal(s) == s.lifecycle \in {"authorization_expired", "fatal"}

BeginReauthenticating(s) ==
    IF s.lifecycle = "fatal" THEN s
    ELSE [s EXCEPT !.lifecycle = "reconnecting", !.permission = "none",
                   !.requiresFreshSync = TRUE, !.delayed = FALSE, !.transportSynced = FALSE]
BeginConnecting(s) ==
    LET reconnecting == s.hasCompletedInitialSync \/ Status(s) # "connecting" IN
    IF s.lifecycle = "fatal" THEN s
    ELSE [s EXCEPT !.lifecycle = IF reconnecting THEN "reconnecting" ELSE "connecting",
                   !.permission = IF reconnecting /\ s.hasCompletedInitialSync THEN @ ELSE "none",
                   !.delayed = FALSE, !.transportSynced = FALSE]
MarkAuthenticated(s, scope) ==
    IF IsTerminal(s) THEN s
    ELSE [s EXCEPT !.permission = Permission(scope),
                   !.hasCompletedInitialSync = @ \/ s.transportSynced]
MarkTransportSynced(s) ==
    IF IsTerminal(s) THEN s
    ELSE [s EXCEPT !.transportSynced = TRUE, !.requiresFreshSync = FALSE,
                   !.hasCompletedInitialSync = @ \/ s.permission # "none"]
MarkAuthorizationExpired(s) ==
    IF s.lifecycle = "fatal" THEN s
    ELSE [s EXCEPT !.lifecycle = "authorization_expired", !.permission = "none",
                   !.requiresFreshSync = TRUE, !.transportSynced = FALSE]
MarkDisconnected(s) ==
    IF IsTerminal(s) THEN s
    ELSE [s EXCEPT !.lifecycle = "reconnecting", !.transportSynced = FALSE,
                   !.permission = IF s.hasCompletedInitialSync THEN @ ELSE "none"]
MarkFatal(s) ==
    [s EXCEPT !.lifecycle = "fatal", !.permission = "none",
              !.requiresFreshSync = TRUE, !.transportSynced = FALSE]
MarkStorageDelayed(s) == IF IsTerminal(s) THEN s ELSE [s EXCEPT !.delayed = TRUE]

-----------------------------------------------------------------------------
(* What the callbacks share. *)

\* Mutant: updates of a lost transport are forgotten.
MoveToBarrier_Drops == pending' = <<>> /\ UNCHANGED barrier

\* Acknowledgements carry no checksum: frames of a lost transport wait for the
\* state barrier of the next one.
MoveToBarrier == barrier' = barrier \cup Range(pending) /\ pending' = <<>>

SilentLink ==
    /\ link' = "off" /\ reconnects' = FALSE /\ served' = 0
    /\ up' = <<>> /\ down' = <<>>

\* teardownProvider: whatever was waiting finds that its lifecycle has ended.
Teardown ==
    /\ hasProvider' = FALSE /\ timer' = FALSE /\ delayTimer' = FALSE /\ phase' = "none"
    /\ SilentLink

FailFatal ==
    /\ store' = MarkFatal(store)
    /\ reauthentication' = [reauthentication EXCEPT !.pending = FALSE]
    /\ Teardown
    /\ UNCHANGED <<awaiting, pending, barrier, acked, awaitingTransportBarrier,
                   capability, grantedBy, tab, made, worldVars>>

\* refreshCapability, called on a store that its caller has marked.
BeginRefresh(s) ==
    /\ store' = BeginReauthenticating(s)
    /\ reauthentication' = [pending |-> TRUE, accepting |-> FALSE, authenticated |-> FALSE,
                            synced |-> FALSE, sawDisconnect |-> FALSE]
    /\ capability' = 0
    /\ reconnects' = FALSE
    /\ phase' = "quiesce"
RefreshUnlessRunning(s) ==
    IF phase = "none" THEN BeginRefresh(s)
    ELSE store' = s /\ UNCHANGED <<reauthentication, capability, reconnects, phase>>

\* Mutant: the first acknowledgement of a transport counts like any other.
Connecting_NoBarrier(s, flags) ==
    LET fresh == flags.pending /\ flags.sawDisconnect IN
    /\ UNCHANGED <<pending, barrier, awaitingTransportBarrier>>
    /\ store' = BeginConnecting(IF fresh THEN BeginReauthenticating(s) ELSE s)
    /\ reauthentication' =
          IF fresh THEN [flags EXCEPT !.accepting = TRUE, !.authenticated = FALSE, !.synced = FALSE]
          ELSE flags
    /\ link' = "connecting" /\ reconnects' = TRUE
    /\ UNCHANGED <<hashing, awaiting, acked, delayTimer, served, up, down>>

\* The status event "connecting" of a new transport.
Connecting(s, flags) ==
    LET fresh == flags.pending /\ flags.sawDisconnect IN
    /\ MoveToBarrier
    /\ awaitingTransportBarrier' = TRUE
    /\ store' = BeginConnecting(IF fresh THEN BeginReauthenticating(s) ELSE s)
    /\ reauthentication' =
          IF fresh THEN [flags EXCEPT !.accepting = TRUE, !.authenticated = FALSE, !.synced = FALSE]
          ELSE flags
    /\ link' = "connecting" /\ reconnects' = TRUE
    /\ UNCHANGED <<hashing, awaiting, acked, delayTimer, served, up, down>>

\* The close of the socket and its status event "disconnected".
TransportEnds ==
    /\ link # "off"
    /\ MoveToBarrier
    /\ reauthentication' =
          IF reauthentication.pending
          THEN [reauthentication EXCEPT !.accepting = FALSE, !.sawDisconnect = TRUE]
          ELSE reauthentication
    /\ store' = MarkDisconnected(store)
    /\ link' = "off" /\ served' = 0 /\ up' = <<>> /\ down' = <<>>
    /\ UNCHANGED <<reconnects, hashing, awaiting, acked, awaitingTransportBarrier, delayTimer,
                   capability, phase, timer, grantedBy, hasProvider, tab, made, durable, scopes>>

Acknowledge(edits) ==
    /\ acked' = acked \cup edits
    /\ awaiting' = awaiting \ edits
    /\ store' = [store EXCEPT !.delayed = @ /\ (awaiting \cap edits # {} => ~(awaiting \subseteq edits))]

FinishedReauthentication(flags) ==
    [flags EXCEPT !.pending = ~(flags.authenticated /\ flags.synced)]
\* Mutant: events of the transport that is being replaced still count.
Ignores_Never == FALSE

\* Events of a transport that is being replaced are stale.
Ignores == reauthentication.pending /\ ~reauthentication.accepting

-----------------------------------------------------------------------------
(* connect, once per mounted editor, and the exchange of the capability. *)

Issues(scope) ==
    /\ online
    /\ MayRefresh
    /\ scopes' = Append(scopes, scope)
    /\ capability' = Len(scopes) + 1

FirstIssueSucceeds ==
    /\ phase = "connect"
    /\ \E scope \in Scopes : Issues(scope)
    /\ hasProvider' = TRUE /\ timer' = TRUE /\ phase' = "none"
    /\ Connecting(store, reauthentication)
    /\ UNCHANGED <<grantedBy, tab, made, durable, online, outages>>

FirstIssueFails ==
    /\ phase = "connect"
    /\ ~online \/ MayRefuse
    /\ store' = MarkDisconnected(store)
    /\ Teardown
    /\ UNCHANGED <<hashing, awaiting, pending, barrier, acked, awaitingTransportBarrier,
                   capability, reauthentication, grantedBy, tab, made, worldVars>>

\* The issuer answers for another generation of the room.
IssueInvalid ==
    /\ phase \in {"connect", "issuing"}
    /\ online /\ MayRefuse
    /\ FailFatal
    /\ UNCHANGED hashing

RefreshTimerFires ==
    /\ timer /\ MayRefresh
    /\ timer' = FALSE
    /\ RefreshUnlessRunning(store)
    /\ UNCHANGED <<updateVars, grantedBy, hasProvider, tab, made,
                   link, served, up, down, worldVars>>

Quiesced ==
    /\ phase = "quiesce" /\ link = "off"
    /\ phase' = "issuing"
    /\ UNCHANGED <<store, updateVars, capability, reauthentication, timer, grantedBy,
                   hasProvider, tab, made, linkVars, worldVars>>

\* An attempt that the websocket had already scheduled when it was told to stop.
StrayReconnection ==
    /\ phase = "issuing" /\ link = "off" /\ MayRefuse
    /\ Connecting(store, reauthentication)
    /\ UNCHANGED <<capability, phase, timer, grantedBy, hasProvider, tab, made, worldVars>>

IssueSucceeds ==
    /\ phase = "issuing"
    /\ \E scope \in Scopes : Issues(scope)
    /\ phase' = "reset" /\ reconnects' = FALSE
    /\ UNCHANGED <<store, updateVars, reauthentication, timer, grantedBy, hasProvider, tab, made,
                   link, served, up, down, durable, online, outages>>

IssueFails ==
    /\ phase = "issuing"
    /\ ~online \/ MayRefuse
    /\ phase' = "abandon" /\ reconnects' = FALSE
    /\ UNCHANGED <<store, updateVars, capability, reauthentication, timer, grantedBy, hasProvider,
                   tab, made, link, served, up, down, worldVars>>

\* Quiet for the second time: the transport starts afresh with the new capability.
ResetTransport ==
    /\ phase = "reset" /\ link = "off"
    /\ phase' = "reconnect"
    /\ Connecting(BeginReauthenticating(store),
                  [reauthentication EXCEPT !.accepting = FALSE, !.sawDisconnect = TRUE])
    /\ UNCHANGED <<capability, timer, grantedBy, hasProvider, tab, made, worldVars>>

RefreshFails ==
    /\ phase = "abandon" /\ link = "off"
    /\ phase' = "none"
    /\ reauthentication' = [reauthentication EXCEPT !.pending = FALSE]
    /\ store' = MarkAuthorizationExpired(store)
    /\ UNCHANGED <<updateVars, capability, timer, grantedBy, hasProvider, tab, made,
                   linkVars, worldVars>>

-----------------------------------------------------------------------------
(* Messages from the sidecar. *)

Receive(kind) == down # <<>> /\ Head(down).kind = kind /\ down' = Tail(down)

\* The first message of a transport settles the websocket's connect().
Connected ==
    /\ phase' = IF phase = "reconnect" THEN "none" ELSE phase
    /\ timer' = (timer \/ phase = "reconnect")

ReceiveGranted ==
    /\ Receive("granted")
    /\ Connected
    /\ IF Ignores THEN UNCHANGED <<store, grantedBy, reauthentication>>
       ELSE /\ store' = MarkAuthenticated(store, scopes[served])
            /\ grantedBy' = IF IsTerminal(store) THEN grantedBy ELSE served
            /\ reauthentication' =
                  IF reauthentication.pending
                  THEN FinishedReauthentication([reauthentication EXCEPT !.authenticated = TRUE])
                  ELSE reauthentication
    /\ UNCHANGED <<updateVars, capability, hasProvider, tab, made,
                   link, reconnects, served, up, worldVars>>

\* The provider answers the sidecar's state with everything the tab has.
ReceiveSynced ==
    /\ Receive("synced")
    /\ up' = IF link = "open" THEN Append(up, Made) ELSE up
    /\ IF Ignores THEN UNCHANGED <<store, reauthentication>>
       ELSE /\ store' = MarkTransportSynced(store)
            /\ reauthentication' =
                  IF reauthentication.pending
                  THEN FinishedReauthentication([reauthentication EXCEPT !.synced = TRUE])
                  ELSE reauthentication
    /\ UNCHANGED <<updateVars, capability, phase, timer, grantedBy, hasProvider, tab, made,
                   link, reconnects, served, worldVars>>

\* acknowledgeNextDurableUpdate
ReceiveAck ==
    /\ Receive("ack")
    /\ \/ /\ awaitingTransportBarrier
          /\ awaitingTransportBarrier' = FALSE
          /\ Acknowledge(barrier)
          /\ barrier' = {}
          /\ delayTimer' = (delayTimer /\ pending # <<>>)
          /\ UNCHANGED pending
       \/ /\ ~awaitingTransportBarrier /\ pending # <<>>
          /\ Acknowledge({Head(pending)})
          /\ pending' = Tail(pending)
          /\ delayTimer' = (delayTimer /\ (Tail(pending) # <<>> \/ barrier # {}))
          /\ UNCHANGED <<barrier, awaitingTransportBarrier>>
       \/ /\ ~awaitingTransportBarrier /\ pending = <<>>
          /\ UNCHANGED <<store, awaiting, pending, barrier, acked, awaitingTransportBarrier, delayTimer>>
    /\ UNCHANGED <<hashing, authorityVars, hasProvider, tab, made,
                   link, reconnects, served, up, worldVars>>

\* handleAuthorizationFailure (a refused token) and handleClose (a closed room)
Dismissed(kind, reason) ==
    CASE reauthentication.pending /\ reauthentication.accepting /\ reason = "expired" -> "fatal"
      [] Ignores /\ (kind = "refused" \/ reason = "expired") -> "ignored"
      [] OTHER -> reason

ReceiveDismissal ==
    \E kind \in {"refused", "closed"} :
        /\ Receive(kind)
        /\ LET outcome == Dismissed(kind, Head(down).reason) IN
           /\ outcome # "fatal"
           /\ timer' = (timer \/ phase = "reconnect")
           /\ CASE outcome = "expired" -> RefreshUnlessRunning(MarkAuthorizationExpired(store))
                [] outcome = "storage" ->
                      RefreshUnlessRunning(MarkStorageDelayed(MarkDisconnected(store)))
                [] OTHER ->
                      /\ store' = IF outcome = "draining" THEN MarkDisconnected(store) ELSE store
                      /\ phase' = IF phase = "reconnect" THEN "none" ELSE phase
                      /\ UNCHANGED <<reauthentication, capability, reconnects>>
        /\ UNCHANGED <<updateVars, grantedBy, hasProvider, tab, made,
                       link, served, up, worldVars>>

ReceiveFatalDismissal ==
    /\ down # <<>> /\ Head(down).kind \in {"refused", "closed"}
    /\ Dismissed(Head(down).kind, Head(down).reason) = "fatal"
    /\ FailFatal
    /\ UNCHANGED hashing

StorageDelayElapses ==
    /\ delayTimer
    /\ delayTimer' = FALSE
    /\ store' = MarkStorageDelayed(store)
    /\ UNCHANGED <<hashing, awaiting, pending, barrier, acked, awaitingTransportBarrier,
                   authorityVars, hasProvider, tab, made, linkVars, worldVars>>

-----------------------------------------------------------------------------
(* Local edits and the tab. *)

\* A document update leaves through the provider; the navigation guard is told
\* before its checksum is computed.
Edit ==
    /\ tab = "mounted" /\ hasProvider /\ Writable
    /\ made < MaxEdits
    /\ made' = made + 1
    /\ pending' = Append(pending, made')
    /\ hashing' = hashing \cup {made'}
    /\ delayTimer' = TRUE
    /\ up' = IF link \in {"connecting", "open"} \/ (KeepsOfflineFrames /\ link = "off")
             THEN Append(up, {made'}) ELSE up
    /\ UNCHANGED <<store, awaiting, barrier, acked, awaitingTransportBarrier, authorityVars,
                   hasProvider, tab, link, reconnects, served, down, worldVars>>

ChecksumSucceeds ==
    \E n \in hashing :
        /\ hasProvider
        /\ hashing' = hashing \ {n}
        /\ awaiting' = IF n \in acked THEN awaiting ELSE awaiting \cup {n}
        /\ store' = [store EXCEPT !.delayed = @ /\ ~(n \in acked /\ awaiting = {})]
        /\ UNCHANGED <<pending, barrier, acked, awaitingTransportBarrier, delayTimer,
                       authorityVars, hasProvider, tab, made, linkVars, worldVars>>

ChecksumFails ==
    \E n \in hashing :
        /\ hasProvider /\ MayRefuse
        /\ hashing' = hashing \ {n}
        /\ FailFatal

Destroy(end) ==
    /\ tab' = end
    /\ Teardown
    /\ capability' = 0
    /\ pending' = <<>> /\ barrier' = {}
    /\ UNCHANGED <<store, hashing, awaiting, acked, awaitingTransportBarrier,
                   reauthentication, grantedBy, made, worldVars>>

\* Mutant: leaving does not wait for edits on their way.
Unmount_AtOnce == tab = "mounted" /\ Destroy("destroyed")

\* deferCollaborationResourceCleanup: at once when nothing is pending, else
\* when nothing is pending any more or after ten seconds.
Unmount ==
    /\ tab = "mounted"
    /\ \/ ~HasPendingUpdates /\ Destroy("destroyed")
       \/ /\ HasPendingUpdates
          /\ tab' = "leaving"
          /\ UNCHANGED <<store, updateVars, authorityVars, hasProvider, made, linkVars, worldVars>>
Cleanup == tab = "leaving" /\ ~HasPendingUpdates /\ Destroy("destroyed")
CleanupTimesOut == tab = "leaving" /\ Destroy("timed_out")

-----------------------------------------------------------------------------
(* The transport and the sidecar. *)

browserVars == <<store, updateVars, authorityVars, hasProvider, tab, made>>
Fails == outages < MaxOutages /\ outages' = outages + 1
Message(kind, reason) == [kind |-> kind, reason |-> reason]

Reconnect ==
    /\ link = "off" /\ reconnects /\ online
    /\ Connecting(store, reauthentication)
    /\ UNCHANGED <<capability, phase, timer, grantedBy, hasProvider, tab, made, worldVars>>

\* The socket closes when the adapter asks for it, when the network is gone and
\* when the sidecar has turned the document away.
TransportCloses ==
    /\ ~reconnects \/ ~online \/ (link = "detached" /\ down = <<>>)
    /\ TransportEnds
    /\ UNCHANGED <<online, outages>>

SidecarRestarts == Fails /\ TransportEnds /\ UNCHANGED online

NetworkFails ==
    /\ online /\ Fails
    /\ online' = FALSE
    /\ UNCHANGED <<browserVars, linkVars, durable, scopes>>
NetworkReturns ==
    /\ ~online
    /\ online' = TRUE
    /\ UNCHANGED <<browserVars, linkVars, durable, scopes, outages>>

Grant ==
    /\ link = "connecting" /\ online /\ capability # 0
    /\ link' = "open"
    /\ served' = capability
    /\ down' = <<Message("granted", "none"), Message("synced", "none")>>
    /\ UNCHANGED <<browserVars, reconnects, up, worldVars>>

Dismiss(kind, reason) ==
    /\ link' = "detached" /\ up' = <<>>
    /\ down' = Append(down, Message(kind, reason))
    /\ UNCHANGED <<browserVars, reconnects, served, durable, scopes, online>>

Refuse ==
    /\ link = "connecting" /\ online
    /\ \/ /\ capability = 0
          /\ Dismiss("refused", "expired") /\ UNCHANGED outages
       \/ /\ capability # 0 /\ MayRefuse
          /\ \/ MayRefresh /\ Dismiss("refused", "expired") /\ UNCHANGED outages
             \/ Fails /\ Dismiss("refused", "draining")
             \/ Dismiss("refused", "fatal") /\ UNCHANGED outages

CloseRoom ==
    /\ link = "open" /\ online /\ MayRefuse
    /\ \/ MayRefresh /\ Dismiss("closed", "expired") /\ UNCHANGED outages
       \/ MayRefresh /\ Fails /\ Dismiss("closed", "storage")
       \/ Dismiss("closed", "fatal") /\ UNCHANGED outages

\* A read-only connection gets no acknowledgement for what the sidecar lacks.
MakeDurable ==
    /\ link = "open" /\ online /\ up # <<>>
    /\ up' = Tail(up)
    /\ LET accepted == scopes[served] = "read-write" \/ Head(up) \subseteq durable IN
       /\ durable' = IF accepted THEN durable \cup Head(up) ELSE durable
       /\ down' = IF accepted THEN Append(down, Message("ack", "none")) ELSE down
    /\ UNCHANGED <<browserVars, link, reconnects, served, scopes, online, outages>>

-----------------------------------------------------------------------------

Init ==
    /\ store = [lifecycle |-> "connecting", permission |-> "none", hasCompletedInitialSync |-> FALSE,
                requiresFreshSync |-> FALSE, delayed |-> FALSE, transportSynced |-> FALSE]
    /\ hashing = {} /\ awaiting = {} /\ pending = <<>> /\ barrier = {} /\ acked = {}
    /\ awaitingTransportBarrier = FALSE /\ delayTimer = FALSE
    /\ capability = 0 /\ phase = "connect" /\ timer = FALSE /\ grantedBy = 0
    /\ reauthentication = [pending |-> FALSE, accepting |-> FALSE, authenticated |-> FALSE,
                           synced |-> FALSE, sawDisconnect |-> FALSE]
    /\ hasProvider = FALSE /\ tab = "mounted" /\ made = 0
    /\ link = "off" /\ reconnects = FALSE /\ served = 0
    /\ up = <<>> /\ down = <<>>
    /\ durable = {} /\ scopes = <<>> /\ online = TRUE /\ outages = 0

Authority == FirstIssueSucceeds \/ FirstIssueFails \/ Quiesced \/ IssueSucceeds \/ IssueFails
             \/ ResetTransport \/ RefreshFails
Messages == ReceiveGranted \/ ReceiveSynced \/ ReceiveAck \/ ReceiveDismissal \/ ReceiveFatalDismissal
Transport == Reconnect \/ TransportCloses \/ NetworkReturns \/ Grant \/ MakeDurable

Next ==
    \/ Authority \/ IssueInvalid \/ RefreshTimerFires \/ StrayReconnection
    \/ Messages \/ StorageDelayElapses
    \/ Edit \/ ChecksumSucceeds \/ ChecksumFails \/ Unmount \/ Cleanup \/ CleanupTimesOut
    \/ Transport \/ SidecarRestarts \/ NetworkFails \/ Refuse \/ CloseRoom

Spec == Init /\ [][Next]_vars

\* The browser runs its callbacks, an outage ends, the websocket reconnects and
\* the sidecar answers; users and failures owe nothing.
Fairness ==
    /\ WF_vars(Authority) /\ WF_vars(Messages) /\ WF_vars(ChecksumSucceeds) /\ WF_vars(Cleanup)
    /\ WF_vars(Reconnect) /\ WF_vars(TransportCloses) /\ WF_vars(NetworkReturns)
    /\ WF_vars(Grant \/ (capability = 0 /\ Refuse)) /\ WF_vars(MakeDurable)
FairSpec == Spec /\ Fairness

-----------------------------------------------------------------------------
(* Properties. *)

\* Every variable keeps its type; an update waits for an acknowledgement of its
\* own or for the barrier, not for both; only a session with a provider refreshes.
TypeOK ==
    /\ Range(pending) \cap barrier = {}
    /\ phase \notin {"none", "connect"} => hasProvider
    /\ store \in [lifecycle : {"connecting", "reconnecting", "authorization_expired", "fatal"},
                  permission : {"none", "read", "write"}, hasCompletedInitialSync : BOOLEAN,
                  requiresFreshSync : BOOLEAN, delayed : BOOLEAN, transportSynced : BOOLEAN]
    /\ made \in 0..MaxEdits
    /\ hashing \subseteq Made /\ awaiting \subseteq Made /\ pending \in Seq(Made)
    /\ barrier \subseteq Made /\ acked \subseteq Made
    /\ awaitingTransportBarrier \in BOOLEAN /\ delayTimer \in BOOLEAN
    /\ scopes \in Seq(Scopes) /\ Len(scopes) <= MaxTokens
    /\ capability \in 0..Len(scopes) /\ grantedBy \in 0..Len(scopes) /\ served \in 0..Len(scopes)
    /\ reauthentication \in [pending : BOOLEAN, accepting : BOOLEAN, authenticated : BOOLEAN,
                             synced : BOOLEAN, sawDisconnect : BOOLEAN]
    /\ phase \in {"connect", "none", "quiesce", "issuing", "reset", "reconnect", "abandon"}
    /\ timer \in BOOLEAN /\ hasProvider \in BOOLEAN
    /\ tab \in {"mounted", "leaving", "destroyed", "timed_out"}
    /\ link \in {"off", "connecting", "open", "detached"}
    /\ reconnects \in BOOLEAN
    /\ up \in Seq(SUBSET Made)
    /\ down \in Seq([kind : {"granted", "synced", "ack", "refused", "closed"},
                     reason : {"none", "expired", "draining", "storage", "fatal"}])
    /\ durable \subseteq Made /\ online \in BOOLEAN /\ outages \in 0..MaxOutages

\* The guards of navigation and unloading, the durability barrier of AI
\* commands and the approval button all ask whether updates are pending
\* (hasPendingCollaborationUpdates).  When the answer is no, every edit made in
\* this tab is durable, whatever transports, acknowledgements and checksums were
\* lost, late or out of step.  A failed session is told so instead.
GuardHonest == ~HasPendingUpdates /\ store.lifecycle # "fatal" => Made \subseteq durable

\* The editor is writable only by the permission that the sidecar granted for
\* the capability now held: while a replacement is on its way nothing is
\* writable, and nothing that an older transport still says brings it back.
FreshAuthority ==
    hasProvider /\ Writable => capability # 0 /\ grantedBy = capability /\ scopes[capability] = "read-write"

\* An editor that leaves with edits on their way keeps its session until they
\* are durable or its ten seconds are over.
CleanupWaits ==
    tab = "destroyed" /\ store.lifecycle # "fatal" => Made \subseteq durable

\* Edits do not stay pending behind a session that claims to be working: they
\* become durable, or the session says that it is fatal, has lost its
\* authorization, may only read, or is gone.
EditsSettle ==
    HasPendingUpdates ~> \/ ~HasPendingUpdates \/ IsTerminal(store)
                         \/ store.permission = "read" \/ tab \in {"destroyed", "timed_out"}

\* docs/realtime-collaboration.md:16: "Automatic merging after a temporary
\* connection loss while the browser tab remains open."
OfflineEditsMerge ==
    \A n \in Edits : (n <= made) ~> (n \in durable \/ tab # "mounted")

=============================================================================
