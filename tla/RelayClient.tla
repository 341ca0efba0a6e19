---------------------------- MODULE RelayClient ----------------------------
(***************************************************************************)
(* The relay client (internal/relay): which host it connects to, what      *)
(* happens on a connection, and what is decided when the connection ends.  *)
(*                                                                         *)
(* Four goroutines meet here: Run with connectTo, the goroutine that       *)
(* closes the connection when its context is cancelled, the sender of      *)
(* broadcasts to the upstream node (bcstHostLoop), and whoever calls Stop, *)
(* Reconnect or Channel.Broadcast.  A step ends where another goroutine    *)
(* can see or change something: at a lock, a channel or the connection.    *)
(*                                                                         *)
(* Received packets are the business of StreamSource; here they only set   *)
(* lastReceived.                                                           *)
(***************************************************************************)
EXTENDS Naturals

CONSTANTS
  Addrs,       \* host:port strings
  TrackerAddr, \* trackerAddr
  OurIP,       \* our global IP, once an upstream has told it
  HostAtoms,   \* HOST atoms that upstream nodes send
  QueueCap,    \* capacity of the queue to the upstream node
  NoAddr

ASSUME RelayAssumption ==
  /\ TrackerAddr \in Addrs
  /\ NoAddr \notin Addrs \cup {OurIP}
  /\ QueueCap \in Nat \ {0}
  /\ \A h \in HostAtoms :
       /\ h.globalAddr \in Addrs \cup {NoAddr} /\ h.localAddr \in Addrs \cup {NoAddr}
       /\ h.firewalled \in BOOLEAN

VARIABLES
  pc,             \* where Run and connectTo are
  target,         \* targetAddr
  reason,         \* why the last attempt ended
  stopped,        \* Client.ctx is cancelled
  bumpPending,
  canCancel,      \* connectionCancel is not nil
  cancelled,      \* the context of this attempt is cancelled by itself
  conn,           \* the connection
  globalIP,
  sourceNodes,    \* the HOST atoms of sourceNodes, one per session
  ignored,        \* addresses in ignoredNodes that have not expired
  upstreamBcst,   \* the channel has this attempt's callback
  queue,          \* length of the queue
  caster,         \* a call of Channel.Broadcast that has read upstreamBcst
  sender,         \* bcstHostLoopWithQueue
  bcstStop,       \* closed
  receiving,      \* lastReceived # 0
  tried           \* history: addresses tried since their ignoring last expired

loopVars == <<pc, target, reason>>
ctxVars == <<stopped, bumpPending, canCancel, cancelled>>
hostVars == <<globalIP, sourceNodes, ignored>>
senderVars == <<upstreamBcst, queue, sender, bcstStop>>
relayVars == <<loopVars, ctxVars, conn, hostVars, senderVars, caster, receiving, tried>>

RelayInit ==
  /\ pc = "top" /\ target = TrackerAddr /\ reason = "none"
  /\ stopped = FALSE /\ bumpPending = FALSE /\ canCancel = FALSE /\ cancelled = FALSE
  /\ conn = "none"
  /\ globalIP = NoAddr /\ sourceNodes = {} /\ ignored = {}
  /\ upstreamBcst = FALSE /\ queue = 0 /\ sender = "none" /\ bcstStop = FALSE
  /\ caster = "idle"
  /\ receiving = FALSE
  /\ tried = {}

-----------------------------------------------------------------------------
(* Choosing a host *)

SameNAT(h) == globalIP # NoAddr /\ h.globalIP = globalIP
ConnectAddr(h) == IF SameNAT(h) /\ h.localAddr # NoAddr THEN h.localAddr ELSE h.globalAddr

(* Addresses that selectSourceHost scores; the score is random, so any of    *)
(* them may be the best one.                                                 *)
Scored == {ConnectAddr(h) : h \in {n \in sourceNodes : ~n.firewalled}} \ (ignored \cup {NoAddr})

Selectable == IF Scored # {} THEN Scored ELSE {TrackerAddr} \ ignored

(* An atom without a usable address is refused. *)
parseSourceNode(h) == h.globalAddr # NoAddr \/ h.localAddr # NoAddr

(* SourceNodeList.Add replaces the atom of the same session. *)
AddNode(h) == sourceNodes' = {n \in sourceNodes : n.session # h.session} \cup {h}

(* The top of Run's loop: stopped, no host left, or an attempt. *)
Return ==
  /\ pc = "top"
  /\ stopped \/ Selectable = {}
  /\ pc' = "exited"
  /\ UNCHANGED <<target, reason, ctxVars, conn, hostVars, senderVars, caster, receiving, tried>>

Select ==
  /\ pc = "top" /\ ~stopped
  /\ \E a \in Selectable : target' = a
  /\ reason' = "none"
  /\ pc' = "connect"
  /\ UNCHANGED <<ctxVars, conn, hostVars, senderVars, caster, receiving, tried>>

-----------------------------------------------------------------------------
(* One attempt *)

Cancelled == stopped \/ cancelled

Connect_Unbumped ==
  /\ pc = "connect"
  /\ canCancel' = TRUE
  /\ cancelled' = FALSE
  /\ pc' = "dial"
  /\ tried' = tried \cup {target}
  /\ UNCHANGED <<target, reason, stopped, bumpPending, conn, hostVars, senderVars, caster, receiving>>

(* A reconnect that came since the last attempt cancels this one. *)
Connect ==
  /\ pc = "connect"
  /\ canCancel' = TRUE
  /\ cancelled' = bumpPending
  /\ pc' = "dial"
  /\ tried' = tried \cup {target}
  /\ UNCHANGED <<target, reason, stopped, bumpPending, conn, hostVars, senderVars, caster, receiving>>

(* The attempt fails before anything but the connection has been set up. *)
Fail(r) ==
  /\ reason' = r
  /\ pc' = "release"
  /\ UNCHANGED <<target, ctxVars, conn, hostVars, senderVars, caster, receiving, tried>>

Dial ==
  /\ pc = "dial"
  /\ \/ Fail("error")
     \/ /\ ~Cancelled
        /\ conn' = "open"
        /\ pc' = "handshake"
        /\ UNCHANGED <<target, reason, ctxVars, hostVars, senderVars, caster, receiving, tried>>

(* The goroutine that waits for the context closes the connection. *)
Watch ==
  /\ conn = "open" /\ Cancelled
  /\ conn' = "closed"
  /\ UNCHANGED <<loopVars, ctxVars, hostVars, senderVars, caster, receiving, tried>>

(* handshake: an error or timeout, a quit instead of the oleh, or an oleh     *)
(* after status 503 or 200; the oleh may tell our address.                    *)
Handshake ==
  /\ pc = "handshake"
  /\ \/ Fail("error")
     \/ conn = "open" /\ \E r \in {"unavailable", "offair"} : Fail(r)
     \/ /\ conn = "open"
        /\ globalIP' \in {globalIP, OurIP}
        /\ pc' \in {"hosts", "setup"}
        /\ UNCHANGED <<target, reason, ctxVars, conn, sourceNodes, ignored, senderVars, caster,
                       receiving, tried>>

(* Status 200: the callback is installed and the sender is started. *)
Setup ==
  /\ pc = "setup"
  /\ upstreamBcst' = TRUE /\ sender' = "first"
  /\ pc' = "body"
  /\ UNCHANGED <<target, reason, ctxVars, conn, hostVars, queue, bcstStop, caster, receiving, tried>>

(* processBody and processHosts take HOST atoms; *)
ReceiveHost ==
  /\ pc \in {"hosts", "body"} /\ conn = "open" /\ ~stopped
  /\ \E h \in HostAtoms : parseSourceNode(h) /\ AddNode(h)
  /\ UNCHANGED <<loopVars, ctxVars, conn, globalIP, ignored, senderVars, caster, receiving, tried>>

(* processBody also takes packets; *)
ReceivePacket ==
  /\ pc = "body" /\ conn = "open" /\ ~stopped
  /\ receiving' = TRUE
  /\ UNCHANGED <<loopVars, ctxVars, conn, hostVars, senderVars, caster, tried>>

(* and both end with a quit, an error or timeout, or when the client is       *)
(* stopped.                                                                   *)
EndReceive ==
  /\ pc \in {"hosts", "body"}
  /\ \/ reason' = IF stopped THEN "offair" ELSE "error"
     \/ conn = "open" /\ reason' \in {"unavailable", "offair"}
  /\ pc' = IF pc = "body" THEN "quit" ELSE "release"
  /\ UNCHANGED <<target, ctxVars, conn, hostVars, senderVars, caster, receiving, tried>>

(* The quit atom is written under writeMu, so not while the sender writes. *)
WriteQuit ==
  /\ pc = "quit" /\ sender \notin {"own", "queued"}
  /\ pc' = "unhook"
  /\ UNCHANGED <<target, reason, ctxVars, conn, hostVars, senderVars, caster, receiving, tried>>

Unhook_KeepSender ==
  /\ pc = "unhook"
  /\ upstreamBcst' = FALSE
  /\ pc' = "wait"
  /\ UNCHANGED <<target, reason, ctxVars, conn, hostVars, queue, sender, bcstStop, caster, receiving, tried>>

(* SetUpstreamBcst(nil) and close(bcstStop), *)
Unhook ==
  /\ pc = "unhook"
  /\ upstreamBcst' = FALSE
  /\ bcstStop' = TRUE
  /\ pc' = "wait"
  /\ UNCHANGED <<target, reason, ctxVars, conn, hostVars, queue, sender, caster, receiving, tried>>

(* <-bcstDone and SourceDisconnected; the queue and bcstStop go with the      *)
(* attempt;                                                                   *)
WaitSender ==
  /\ pc = "wait" /\ sender = "ended"
  /\ sender' = "none" /\ queue' = 0 /\ bcstStop' = FALSE
  /\ receiving' = FALSE
  /\ caster' = IF caster = "current" THEN "old" ELSE caster
  /\ pc' = "release"
  /\ UNCHANGED <<target, reason, ctxVars, conn, hostVars, upstreamBcst, tried>>

(* the connection is closed and connectionCancel is nil again. *)
Release ==
  /\ pc = "release"
  /\ conn' = "none"
  /\ canCancel' = FALSE /\ cancelled' = FALSE
  /\ pc' = "decide"
  /\ UNCHANGED <<target, reason, stopped, bumpPending, hostVars, senderVars, caster, receiving, tried>>

-----------------------------------------------------------------------------
(* What Run does with the outcome.  After a bump the tracker is tried again.  *)

Ignore(a) == ignored' = ignored \cup {a}

Bumped ==
  /\ bumpPending
  /\ IF target = TrackerAddr THEN UNCHANGED ignored /\ tried' = tried \ {TrackerAddr}
     ELSE Ignore(target) /\ UNCHANGED tried
  /\ pc' = "top"

TryNext ==
  /\ ~bumpPending
  /\ reason = "unavailable" \/ target # TrackerAddr
  /\ Ignore(target)
  /\ pc' = "top"
  /\ UNCHANGED tried

TrackerFailed ==
  /\ ~bumpPending
  /\ reason # "unavailable" /\ target = TrackerAddr
  /\ pc' = "exited"
  /\ UNCHANGED <<ignored, tried>>

Outcome_Retry ==
  \/ Bumped
  \/ ~bumpPending /\ reason = "error" /\ pc' = "top" /\ UNCHANGED <<ignored, tried>>
  \/ reason # "error" /\ TryNext
  \/ reason # "error" /\ TrackerFailed

Outcome == Bumped \/ TryNext \/ TrackerFailed

Decide ==
  /\ pc = "decide"
  /\ Outcome
  /\ bumpPending' = FALSE
  /\ UNCHANGED <<target, reason, stopped, canCancel, cancelled, conn, globalIP, sourceNodes, senderVars,
                 caster, receiving>>

-----------------------------------------------------------------------------
(* The sender: a BCST HOST atom of its own at the start, periodically and     *)
(* when the counts change, and what is in the queue.  It holds writeMu while  *)
(* it writes.                                                                 *)

SendOwn ==
  /\ sender \in {"first", "loop"}
  /\ sender' = "own"
  /\ UNCHANGED <<loopVars, ctxVars, conn, hostVars, upstreamBcst, queue, bcstStop, caster, receiving, tried>>

SendQueued ==
  /\ sender = "loop" /\ queue > 0
  /\ queue' = queue - 1
  /\ sender' = "queued"
  /\ UNCHANGED <<loopVars, ctxVars, conn, hostVars, upstreamBcst, bcstStop, caster, receiving, tried>>

Sent ==
  /\ sender \in {"own", "queued"} /\ conn = "open"
  /\ sender' = "loop"
  /\ UNCHANGED <<loopVars, ctxVars, conn, hostVars, upstreamBcst, queue, bcstStop, caster, receiving, tried>>

SendFails_LeaveOpen ==
  /\ sender \in {"own", "queued"}
  /\ sender' = IF sender = "queued" THEN "ended" ELSE "loop"
  /\ UNCHANGED <<loopVars, ctxVars, conn, hostVars, upstreamBcst, queue, bcstStop, caster, receiving, tried>>

(* A write that fails or times out closes the connection; only a failure of   *)
(* a queued atom ends the sender.                                             *)
SendFails ==
  /\ sender \in {"own", "queued"}
  /\ conn' = "closed"
  /\ sender' = IF sender = "queued" THEN "ended" ELSE "loop"
  /\ UNCHANGED <<loopVars, ctxVars, hostVars, upstreamBcst, queue, bcstStop, caster, receiving, tried>>

SenderStops ==
  /\ sender = "loop" /\ bcstStop
  /\ sender' = "ended"
  /\ UNCHANGED <<loopVars, ctxVars, conn, hostVars, upstreamBcst, queue, bcstStop, caster, receiving, tried>>

-----------------------------------------------------------------------------
(* Callers *)

Stop ==
  /\ ~stopped
  /\ stopped' = TRUE
  /\ UNCHANGED <<loopVars, bumpPending, canCancel, cancelled, conn, hostVars, senderVars, caster,
                 receiving, tried>>

(* Reconnect; a client whose Run has returned is about to be removed. *)
Reconnect ==
  /\ ~stopped /\ pc # "exited"
  /\ bumpPending' = TRUE
  /\ cancelled' = (cancelled \/ canCancel)
  /\ UNCHANGED <<loopVars, stopped, canCancel, conn, hostVars, senderVars, caster, receiving, tried>>

(* Channel.Broadcast reads the callback under the channel's lock, *)
ReadUpstream ==
  /\ caster = "idle" /\ upstreamBcst
  /\ caster' = "current"
  /\ UNCHANGED <<loopVars, ctxVars, conn, hostVars, senderVars, receiving, tried>>

(* and calls it later; a full queue cancels the attempt it belongs to. *)
CallUpstream ==
  /\ caster # "idle"
  /\ caster' = "idle"
  /\ IF caster = "current"
     THEN /\ queue' = IF queue < QueueCap THEN queue + 1 ELSE queue
          /\ cancelled' = (cancelled \/ queue = QueueCap)
     ELSE UNCHANGED <<queue, cancelled>>
  /\ UNCHANGED <<loopVars, stopped, bumpPending, canCancel, conn, hostVars, upstreamBcst, sender,
                 bcstStop, receiving, tried>>

(* Three minutes pass. *)
ExpireIgnored ==
  /\ \E a \in ignored : ignored' = ignored \ {a} /\ tried' = tried \ {a}
  /\ UNCHANGED <<loopVars, ctxVars, conn, globalIP, sourceNodes, senderVars, caster, receiving>>

ExpireNode ==
  /\ \E n \in sourceNodes : sourceNodes' = sourceNodes \ {n}
  /\ UNCHANGED <<loopVars, ctxVars, conn, globalIP, ignored, senderVars, caster, receiving, tried>>

Run ==
  \/ Return \/ Select \/ Connect \/ Dial \/ Handshake \/ Setup
  \/ WriteQuit \/ Unhook \/ WaitSender \/ Release \/ Decide

Sender == SendOwn \/ SendQueued \/ Sent \/ SendFails \/ SenderStops

Exited == pc = "exited" /\ UNCHANGED relayVars

RelayNext ==
  \/ Run \/ ReceiveHost \/ ReceivePacket \/ EndReceive
  \/ Watch \/ Sender
  \/ Stop \/ Reconnect \/ ReadUpstream \/ CallUpstream
  \/ ExpireIgnored \/ ExpireNode
  \/ Exited

RelaySpec == RelayInit /\ [][RelayNext]_relayVars

(* Goroutines run, writes and handshakes have deadlines, a read fails once    *)
(* the connection is closed, a mutex that is released again and again is not  *)
(* withheld for ever, and select does not pass over a closed channel for      *)
(* ever.  A connection that is open may stay so.                              *)
Fairness ==
  /\ WF_relayVars(Run) /\ WF_relayVars(Watch) /\ SF_relayVars(WriteQuit)
  /\ WF_relayVars((conn # "open" \/ stopped) /\ EndReceive)
  /\ WF_relayVars(Sent \/ SendFails) /\ WF_relayVars(SendOwn) /\ SF_relayVars(SenderStops)

FairRelaySpec == RelaySpec /\ Fairness

-----------------------------------------------------------------------------
(* Every variable of the client has its type. *)
TypeOK ==
  /\ pc \in {"top", "connect", "dial", "handshake", "setup", "hosts", "body", "quit", "unhook",
             "wait", "release", "decide", "exited"}
  /\ target \in Addrs
  /\ reason \in {"none", "error", "unavailable", "offair"}
  /\ stopped \in BOOLEAN /\ bumpPending \in BOOLEAN /\ canCancel \in BOOLEAN /\ cancelled \in BOOLEAN
  /\ conn \in {"none", "open", "closed"}
  /\ globalIP \in {NoAddr, OurIP}
  /\ sourceNodes \subseteq HostAtoms
  /\ ignored \subseteq Addrs
  /\ upstreamBcst \in BOOLEAN /\ queue \in 0 .. QueueCap /\ bcstStop \in BOOLEAN
  /\ sender \in {"none", "first", "loop", "own", "queued", "ended"}
  /\ caster \in {"idle", "current", "old"}
  /\ receiving \in BOOLEAN
  /\ tried \subseteq Addrs

(* Reconnection is immediate, without backoff (the comment of Run), so a host *)
(* that failed must not be dialled again before its time in ignoredNodes is   *)
(* over, whatever HOST atoms name it and by whichever of its addresses: else  *)
(* Run would spin.  Only the tracker, after a requested reconnect, may.       *)
NoHotRetry == pc = "connect" => target \notin tried

(* The sender and the channel's callback belong to a connection that is up:   *)
(* while the callback is installed its queue is read or the connection is     *)
(* closed, and between attempts there is no sender, no callback, and the      *)
(* channel does not claim to receive.                                         *)
UpstreamServed ==
  /\ upstreamBcst => sender # "none" /\ (sender = "ended" => conn = "closed")
  /\ pc \notin {"body", "quit", "unhook", "wait"} => sender = "none" /\ ~upstreamBcst /\ ~receiving

(* A requested reconnect takes place: the attempt of that moment, or the one  *)
(* that is about to start, ends, wherever in connectTo the request hits.      *)
BumpServed == bumpPending ~> (~bumpPending \/ pc = "exited")

(* Stop returns: Run ends although it waits for the connection, for writeMu   *)
(* and for the sender.                                                        *)
StopEnds == stopped ~> (pc = "exited")
=============================================================================
