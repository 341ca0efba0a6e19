------------------------------ MODULE YPClient ------------------------------
(***************************************************************************)
(* The client of the yellow pages (internal/yp/client.go, announcements.go):*)
(* Run connects while there is something to announce, run shakes hands,    *)
(* announces the broadcasts on every tick, change, bump and request of the *)
(* YP, withdraws the ones that have ended, and says QUIT.                  *)
(*                                                                         *)
(* A member of Chans is a channel object; several may have the same ID,    *)
(* one after the other.  Times, and so the growing delay between attempts, are *)
(* left out: a timer may fire at any moment.                               *)
(***************************************************************************)
EXTENDS Naturals

CONSTANTS
  Chans, IDs, IDOf,  \* channel objects, channel IDs, and the ID of each object
  Relays,            \* the channels that are relayed; the others are broadcasts
  Infos,             \* what is announced of a channel
  MaxChanges,        \* bound: changes of what is announced
  MaxFaults,         \* bound: faults of the network and the YP
  None

ASSUME YPAssumption ==
  /\ Chans \subseteq Nat /\ IDOf \in [Chans -> IDs] /\ Relays \subseteq Chans
  /\ MaxChanges \in Nat /\ MaxFaults \in Nat
  /\ None \notin Infos \cup Chans

VARIABLES
  live, born, info,        \* the manager's channels, all there have been, and what they have to say
  changes, faults,
  pc,                      \* where Run is
  bump, stopped,           \* bumpCh holds a value; stopCh is closed
  ipKnown,
  cancelled,               \* the context of this run is cancelled
  announced, next,         \* by ID: what was last announced, and the map of this round
  todo, cur, force, check, \* of sendAnnouncements: channels to look at; this one; and what follows the round
  readErr,                 \* the reader goroutine has passed on an error
  link,                    \* the connection
  listed                   \* at the YP: what the connection has announced

manager == <<live, born, info, changes>>
round == <<next, todo, cur, force, check>>
wire == <<readErr, link, listed, faults>>
vars == <<manager, pc, bump, stopped, ipKnown, cancelled, announced, round, wire>>

Announcement == [ch : Chans, info : Infos]
Nothing == [id \in IDs |-> None]

Init ==
  /\ live = {} /\ born = {} /\ info = [c \in Chans |-> CHOOSE i \in Infos : TRUE] /\ changes = 0 /\ faults = 0
  /\ pc = "wait" /\ bump = FALSE /\ stopped = FALSE /\ ipKnown = FALSE /\ cancelled = FALSE
  /\ announced = Nothing /\ next = Nothing /\ todo = {} /\ cur = None /\ force = FALSE /\ check = FALSE
  /\ readErr = FALSE /\ link = "down" /\ listed = Nothing

-----------------------------------------------------------------------------
(* The manager's channels come, change and go; whoever changes a broadcast    *)
(* may bump the client.  A bump that waits is enough.  After Stop they rest,  *)
(* which is a bound.                                                          *)
Broadcasting == live \ Relays

Bump == bump' \in {bump, TRUE}

StartChannel(c) ==
  /\ ~stopped /\ c \notin born
  /\ \A d \in Chans : IDOf[d] = IDOf[c] => d \notin live /\ (d < c => d \in born)
  /\ live' = live \cup {c} /\ born' = born \cup {c}
  /\ IF c \in Relays THEN UNCHANGED bump ELSE Bump
  /\ UNCHANGED <<info, changes, pc, stopped, ipKnown, cancelled, announced, round, wire>>

ChangeChannel(c) ==
  /\ ~stopped /\ c \in Broadcasting /\ changes < MaxChanges /\ changes' = changes + 1
  /\ \E i \in Infos \ {info[c]} : info' = [info EXCEPT ![c] = i]
  /\ Bump
  /\ UNCHANGED <<live, born, pc, stopped, ipKnown, cancelled, announced, round, wire>>

StopChannel(c) ==
  /\ ~stopped /\ c \in live
  /\ live' = live \ {c}
  /\ UNCHANGED <<born, info, changes, pc, bump, stopped, ipKnown, cancelled, announced, round, wire>>

Stop ==
  /\ ~stopped /\ stopped' = TRUE
  /\ UNCHANGED <<manager, pc, bump, ipKnown, cancelled, announced, round, wire>>

-----------------------------------------------------------------------------
(* waitForChannel, and the pause between two connections. *)
shouldConnect_Any == live # {}

shouldConnect == live # {} /\ (~ipKnown \/ Broadcasting # {})

WaitEnds ==
  /\ pc = "wait" /\ shouldConnect
  /\ pc' = "dial"
  /\ UNCHANGED <<manager, bump, stopped, ipKnown, cancelled, announced, round, wire>>

WaitBump ==
  /\ pc = "wait" /\ ~shouldConnect /\ bump
  /\ bump' = FALSE
  /\ UNCHANGED <<manager, pc, stopped, ipKnown, cancelled, announced, round, wire>>

WaitStop ==
  /\ \/ pc = "wait" /\ ~shouldConnect
     \/ pc = "sleep"
  /\ stopped
  /\ pc' = "done"
  /\ UNCHANGED <<manager, bump, stopped, ipKnown, cancelled, announced, round, wire>>

SleepEnds ==
  /\ pc = "sleep"
  /\ pc' = "wait"
  /\ UNCHANGED <<manager, bump, stopped, ipKnown, cancelled, announced, round, wire>>

-----------------------------------------------------------------------------
(* run: whichever way it returns, the connection is closed.  What was         *)
(* announced on it is forgotten before another is used.                       *)
InRun == pc \notin {"wait", "sleep", "done"}

Fault == faults < MaxFaults /\ faults' = faults + 1

Return ==
  /\ pc' = "sleep" /\ cancelled' = FALSE
  /\ link' = "down" /\ readErr' = FALSE /\ listed' = Nothing
  /\ next' = Nothing /\ todo' = {} /\ cur' = None /\ force' = FALSE /\ check' = FALSE
  /\ announced' = Nothing
  /\ UNCHANGED <<manager, bump, stopped, ipKnown>>

(* After Stop its goroutines cancel the context, which closes the connection: *)
(* at once if it is not established, otherwise after the second that is left  *)
(* for QUIT.                                                                  *)
Cancel_Early ==
  /\ stopped /\ pc \in {"dial", "hello"} /\ ~cancelled
  /\ cancelled' = TRUE
  /\ link' = "down" /\ readErr' = TRUE
  /\ UNCHANGED <<manager, pc, bump, stopped, ipKnown, announced, round, listed, faults>>

Cancel ==
  /\ stopped /\ InRun /\ ~cancelled
  /\ cancelled' = TRUE
  /\ link' = "down" /\ readErr' = TRUE
  /\ UNCHANGED <<manager, pc, bump, stopped, ipKnown, announced, round, listed, faults>>

Dial ==
  /\ pc = "dial" /\ ~cancelled
  /\ link' = "up" /\ pc' = "hello"
  /\ UNCHANGED <<manager, bump, stopped, ipKnown, cancelled, announced, round, readErr, listed, faults>>

DialFails ==
  /\ pc = "dial"
  /\ (cancelled /\ UNCHANGED faults) \/ Fault
  /\ Return

(* HELO is answered: OLEH may tell the address.  There is a deadline.         *)
Handshake ==
  /\ pc = "hello" /\ link = "up"
  /\ ipKnown' \in {ipKnown, TRUE}
  /\ announced' = Nothing
  /\ pc' = "established"
  /\ UNCHANGED <<manager, bump, stopped, cancelled, round, wire>>

HandshakeFails ==
  /\ pc = "hello" /\ link # "up"
  /\ Return /\ UNCHANGED faults

Announce(all, thenCheck) ==
  /\ pc' = "list" /\ force' = all /\ check' = thenCheck
  /\ UNCHANGED <<next, todo, cur>>

(* A node that only relays leaves at once.  The first round tells everything. *)
Established ==
  /\ pc = "established"
  /\ \/ Broadcasting = {} /\ pc' = "quit" /\ UNCHANGED round
     \/ Broadcasting # {} /\ Announce(TRUE, FALSE)
  /\ UNCHANGED <<manager, bump, stopped, ipKnown, cancelled, announced, wire>>

-----------------------------------------------------------------------------
(* sendAnnouncements: the manager's list is read once, then each broadcast of *)
(* it as its turn comes.                                                      *)
List ==
  /\ pc = "list"
  /\ todo' = Broadcasting /\ next' = Nothing
  /\ pc' = "scan"
  /\ UNCHANGED <<manager, bump, stopped, ipKnown, cancelled, announced, cur, force, check, wire>>

Capture(c) ==
  LET state == [ch |-> c, info |-> info[c]]
  IN /\ pc = "scan" /\ c \in todo
     /\ todo' = todo \ {c}
     /\ next' = [next EXCEPT ![IDOf[c]] = state]
     /\ \/ (force \/ announced[IDOf[c]] # state) /\ pc' = "write" /\ cur' = c
        \/ ~force /\ announced[IDOf[c]] = state /\ UNCHANGED <<pc, cur>>
     /\ UNCHANGED <<manager, bump, stopped, ipKnown, cancelled, announced, force, check, wire>>

(* buildBcst reads the channel again. *)
buildBcst(c) == info[c]

Write ==
  /\ pc = "write" /\ link = "up"
  /\ listed' = [listed EXCEPT ![IDOf[cur]] = buildBcst(cur)]
  /\ pc' = "scan" /\ cur' = None
  /\ UNCHANGED <<manager, bump, stopped, ipKnown, cancelled, announced, next, todo, force, check,
                 readErr, link, faults>>

(* What was announced and is not in the list is announced as not receiving.   *)
Gone == {announced[id].ch : id \in {i \in IDs : announced[i] # None /\ next[i] = None}}

ScanEnds ==
  /\ pc = "scan" /\ todo = {}
  /\ todo' = Gone
  /\ pc' = "withdraw"
  /\ UNCHANGED <<manager, bump, stopped, ipKnown, cancelled, announced, next, cur, force, check, wire>>

Withdraw(c) ==
  /\ pc = "withdraw" /\ c \in todo /\ link = "up"
  /\ listed' = [listed EXCEPT ![IDOf[c]] = None]
  /\ todo' = todo \ {c}
  /\ UNCHANGED <<manager, pc, bump, stopped, ipKnown, cancelled, announced, next, cur, force, check,
                 readErr, link, faults>>

(* A write has a deadline. *)
WriteFails ==
  /\ pc = "write" \/ (pc = "withdraw" /\ todo # {})
  /\ link # "up"
  /\ Return /\ UNCHANGED faults

RoundEnds ==
  /\ pc = "withdraw" /\ todo = {}
  /\ announced' = next /\ next' = Nothing
  /\ pc' = IF check /\ Broadcasting = {} THEN "quit" ELSE "select"
  /\ UNCHANGED <<manager, bump, stopped, ipKnown, cancelled, todo, cur, force, check, wire>>

-----------------------------------------------------------------------------
(* The loop of run.  A select takes any of its cases that is ready.           *)
OnStop ==
  /\ pc = "select" /\ stopped
  /\ pc' = "quit"
  /\ UNCHANGED <<manager, bump, stopped, ipKnown, cancelled, announced, round, wire>>

OnReadErr ==
  /\ pc = "select" /\ readErr
  /\ Return /\ UNCHANGED faults

OnTicker_Changes ==
  /\ pc = "select"
  /\ Announce(FALSE, FALSE)
  /\ UNCHANGED <<manager, bump, stopped, ipKnown, cancelled, announced, wire>>

OnTicker ==
  /\ pc = "select"
  /\ Announce(TRUE, FALSE)
  /\ UNCHANGED <<manager, bump, stopped, ipKnown, cancelled, announced, wire>>

OnChanges ==
  /\ pc = "select"
  /\ Announce(FALSE, TRUE)
  /\ UNCHANGED <<manager, bump, stopped, ipKnown, cancelled, announced, wire>>

(* The reader goroutine has passed on a root atom of the YP, which sets the   *)
(* interval or asks for an update.                                            *)
OnRoot ==
  /\ pc = "select" /\ link # "down"
  /\ Announce(TRUE, FALSE)
  /\ UNCHANGED <<manager, bump, stopped, ipKnown, cancelled, announced, wire>>

OnBump ==
  /\ pc = "select" /\ bump
  /\ bump' = FALSE
  /\ Announce(TRUE, FALSE)
  /\ UNCHANGED <<manager, stopped, ipKnown, cancelled, announced, wire>>

(* QUIT has no deadline: it waits for a peer that does not read, until the    *)
(* connection is closed.                                                      *)
Quit ==
  /\ pc = "quit" /\ link # "stalled"
  /\ Return /\ UNCHANGED faults

-----------------------------------------------------------------------------
(* The YP says QUIT or drops the connection, or it does not read for a while. *)
Open == link # "down" /\ ~cancelled

LinkFails ==
  /\ Open /\ Fault
  /\ link' = "down" /\ readErr' = TRUE
  /\ UNCHANGED <<manager, pc, bump, stopped, ipKnown, cancelled, announced, round, listed>>

LinkStalls ==
  /\ link = "up" /\ Fault
  /\ link' = "stalled"
  /\ UNCHANGED <<manager, pc, bump, stopped, ipKnown, cancelled, announced, round, readErr, listed>>

LinkResumes ==
  /\ link = "stalled"
  /\ link' = "up"
  /\ UNCHANGED <<manager, pc, bump, stopped, ipKnown, cancelled, announced, round, readErr, listed, faults>>

-----------------------------------------------------------------------------
Step ==
  \/ WaitEnds \/ SleepEnds \/ Dial \/ DialFails \/ Handshake \/ HandshakeFails \/ Established
  \/ List \/ Write \/ ScanEnds \/ WriteFails \/ RoundEnds \/ Quit
  \/ \E c \in Chans : Capture(c) \/ Withdraw(c)

Next ==
  \/ Step \/ Cancel \/ WaitBump \/ WaitStop
  \/ OnStop \/ OnReadErr \/ OnTicker \/ OnChanges \/ OnRoot \/ OnBump
  \/ \E c \in Chans : StartChannel(c) \/ ChangeChannel(c) \/ StopChannel(c)
  \/ Stop
  \/ LinkFails \/ LinkStalls \/ LinkResumes

Spec == Init /\ [][Next]_vars

(* The goroutines run, and a select that finds a case ready again and again   *)
(* takes it.  Nothing is assumed of a peer that stalls.                       *)
FairSpec ==
  /\ Spec
  /\ WF_vars(Step \/ Cancel)
  /\ SF_vars(WaitStop) /\ SF_vars(OnStop \/ OnReadErr)
  /\ SF_vars(OnTicker) /\ SF_vars(OnChanges)

-----------------------------------------------------------------------------
TypeOK ==
  /\ live \subseteq born /\ born \subseteq Chans /\ info \in [Chans -> Infos]
  /\ changes \in 0 .. MaxChanges /\ faults \in 0 .. MaxFaults
  /\ pc \in {"wait", "dial", "hello", "established", "list", "scan", "write", "withdraw", "select",
             "quit", "sleep", "done"}
  /\ {bump, stopped, ipKnown, cancelled, force, check, readErr} \subseteq BOOLEAN
  /\ {announced, next} \subseteq [IDs -> Announcement \cup {None}]
  /\ todo \subseteq Chans /\ cur \in Chans \cup {None}
  /\ link \in {"up", "stalled", "down"} /\ listed \in [IDs -> Infos \cup {None}]

StallsEnd == []<>(link # "stalled")

Wanted == [id \in IDs |->
             IF \E c \in Broadcasting : IDOf[c] = id
             THEN info[CHOOSE c \in Broadcasting : IDOf[c] = id] ELSE None]

(* Once the channels rest, the YP lists the broadcasts and what they are now, *)
(* whatever happened to a channel between the moment its state was noted and  *)
(* the moment it was sent, and whatever the connection went through.          *)
ListingConverges == StallsEnd => <>[](stopped \/ listed = Wanted)

(* A node that knows its address and broadcasts nothing ends its connection   *)
(* and makes no other.                                                        *)
IdleStaysAway ==
  StallsEnd => <>[](ipKnown /\ Broadcasting = {} => pc \in {"wait", "done"})

(* After Stop the client ends, although the YP may not read any more.         *)
StopEnds == stopped ~> pc = "done"
=============================================================================
