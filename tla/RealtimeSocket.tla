--------------------------- MODULE RealtimeSocket ---------------------------
(***************************************************************************)
(* The realtime connection of a client: src/mobile/lib/ws.ts and           *)
(* src/web/lib/ws.ts, the session effect that starts and stops it, and the *)
(* subscription tables of the server's hub (src/backend/internal/ws).      *)
(*                                                                         *)
(* Both clients keep ONE module-level reference to "the" socket, but the   *)
(* callbacks of a socket outlive it: a connect() suspended on the token, a *)
(* timer nobody cleared and the close event of an abandoned socket all run *)
(* later and write the same variables.  app says which client a behaviour  *)
(* is about; the two differ in their guards.                               *)
(***************************************************************************)
EXTENDS Integers, Sequences, FiniteSets, SequencesExt

CONSTANTS
    Apps,        \* the clients considered, a subset of {"mobile", "web"}
    Channels,    \* channels a component may subscribe to
    OwnChannel,  \* user:{id} of the signed-in user, which the hub joins itself
    Joinable,    \* channels the hub lets this user join (canJoinChannel)
    Socks,       \* socket identities, reused once forgotten: a set of numbers
    MaxMounts,   \* bound: components mounted on a channel at a time
    MaxAwait,    \* bound: connect() calls suspended on the token at a time
    MaxStray,    \* bound: pending timers that nothing names any more
    MaxOut       \* bound: frames of a socket the hub has not read yet

ASSUME SocketAssumption ==
    /\ Apps \subseteq {"mobile", "web"}
    /\ IsFiniteSet(Channels)
    /\ OwnChannel \in Joinable
    /\ Socks \subseteq Nat /\ 0 \notin Socks

NoSock == 0
HubChannels == Channels \cup {OwnChannel}

VARIABLES
    app,         \* the client at hand, fixed
    shouldRun,   \* mobile shouldRun; web: started and not closedByUs
    cur,         \* ws: the socket the client believes it has
    isOpen,      \* mobile isOpen (the web client reads readyState instead)
    awaiting,    \* connect() calls waiting for the access token
    timer,       \* the timer that reconnectTimer names is pending
    stray,       \* pending timers reconnectTimer no longer names (mobile)
    mounted,     \* components mounted on each channel
    want,        \* subscriptions (mobile) / sizes of the handler sets (web)
    phase,       \* readyState of each socket, "none" when there is none, "closed"
                 \* when the client has forgotten it and the hub has not noticed
    out,         \* frames sent on each socket and not yet read by the hub
    conn,        \* the hub's Conn of each socket: "none", "in" or "gone"
    hubSubs,     \* Hub.subs: the sockets subscribed to each channel
    joined,      \* Conn.channels of each socket
    started      \* the token getter is set: start was called once

client == <<started, shouldRun, cur, isOpen, awaiting, timer, stray>>
screens == <<mounted, want>>
hub == <<conn, hubSubs, joined>>
socketVars == <<app, client, screens, phase, out, hub>>

SocketInit ==
    /\ app \in Apps
    /\ shouldRun = FALSE /\ cur = NoSock /\ isOpen = FALSE
    /\ awaiting = 0 /\ timer = FALSE /\ stray = 0
    /\ mounted = [c \in Channels |-> 0] /\ want = [c \in Channels |-> 0]
    /\ phase = [s \in Socks |-> "none"] /\ out = [s \in Socks |-> <<>>]
    /\ conn = [s \in Socks |-> "none"]
    /\ hubSubs = [c \in HubChannels |-> {}] /\ joined = [s \in Socks |-> {}]
    /\ started = FALSE

----------------------------------------------------------------------------
(* Sending.  rawSend drops the frame unless the current socket is OPEN. *)

IsLive(s) == s # NoSock /\ phase[s] = "open"

\* mobile tests isOpen before rawSend, web readyState alone
MaySend == IsLive(cur) /\ (app = "mobile" => isOpen)

Sent(s, frames) == [out EXCEPT ![s] = @ \o frames]

Frame(type, c) == [type |-> type, channel |-> c]

SendNow(type, c) ==
    /\ out' = IF MaySend THEN Sent(cur, <<Frame(type, c)>>) ELSE out
    /\ MaySend => Len(out[cur]) < MaxOut

ResubscribeShared == SetToSeq({Frame("subscribe", c) : c \in {d \in Channels : want[d] > 1}})

\* subscribe frames for every channel that has a subscription
Resubscribe == SetToSeq({Frame("subscribe", c) : c \in {d \in Channels : want[d] > 0}})

----------------------------------------------------------------------------
(* connect(): the guards before the await, and what follows it. *)

\* The number of suspended connect() calls after one more call
Connecting(run, c) ==
    CASE app = "mobile" -> IF run /\ c = NoSock THEN awaiting + 1 ELSE awaiting
      [] app = "web"    -> IF run \/ started THEN 1 ELSE 0

\* The token arrives; a socket is made unless the client was stopped (mobile
\* looks again, web does not).
TokenArrives ==
    /\ awaiting > 0
    /\ awaiting' = awaiting - 1
    /\ IF app = "mobile" /\ ~shouldRun
       THEN UNCHANGED <<cur, phase>>
       ELSE \E s \in Socks :
              /\ phase[s] = "none"
              /\ \A t \in Socks : phase[t] = "none" => s <= t
              /\ cur' = s
              /\ phase' = [phase EXCEPT ![s] = "connecting"]
    /\ UNCHANGED <<app, started, shouldRun, isOpen, timer, stray, screens, out, hub>>

\* The provider has no token: connect() returns, and nothing calls it again
TokenIsNull ==
    /\ awaiting > 0
    /\ awaiting' = awaiting - 1
    /\ UNCHANGED <<app, started, shouldRun, cur, isOpen, timer, stray, screens, phase, out, hub>>

OpenedSilently(s) ==
    /\ phase[s] = "connecting"
    /\ phase' = [phase EXCEPT ![s] = "open"]
    /\ isOpen' = TRUE
    /\ UNCHANGED <<app, started, shouldRun, cur, awaiting, timer, stray, screens, out, hub>>

\* socket.onopen.  mobile resubscribes on whatever ws names now, web on the
\* socket that opened.
Opened(s) ==
    /\ phase[s] = "connecting"
    /\ phase' = [phase EXCEPT ![s] = "open"]
    /\ isOpen' = TRUE
    /\ LET target == IF app = "web" THEN s ELSE cur IN
       out' = IF target # NoSock /\ phase'[target] = "open"
              THEN Sent(target, Resubscribe) ELSE out
    /\ UNCHANGED <<app, started, shouldRun, cur, awaiting, timer, stray, screens, hub>>

ClosedKeepsSocket(s) ==
    /\ phase[s] = "closing"
    /\ phase' = [phase EXCEPT ![s] = IF conn[s] = "in" THEN "closed" ELSE "none"]
    /\ out' = [out EXCEPT ![s] = <<>>]
    /\ conn' = [conn EXCEPT ![s] = IF @ = "gone" THEN "none" ELSE @]
    /\ isOpen' = FALSE
    /\ timer' = shouldRun
    /\ UNCHANGED <<app, started, shouldRun, cur, awaiting, stray, screens, hubSubs, joined>>

ClosedReconnectsCurrent(s) ==
    /\ phase[s] = "closing"
    /\ phase' = [phase EXCEPT ![s] = IF conn[s] = "in" THEN "closed" ELSE "none"]
    /\ out' = [out EXCEPT ![s] = <<>>]
    /\ conn' = [conn EXCEPT ![s] = IF @ = "gone" THEN "none" ELSE @]
    /\ isOpen' = FALSE
    /\ cur' = NoSock
    /\ timer' = (timer \/ (shouldRun /\ s = cur))
    /\ UNCHANGED <<app, started, shouldRun, awaiting, stray, screens, hubSubs, joined>>

\* socket.onclose: it does not ask which socket closed
Closed(s) ==
    /\ phase[s] = "closing"
    /\ phase' = [phase EXCEPT ![s] = IF conn[s] = "in" THEN "closed" ELSE "none"]
    /\ out' = [out EXCEPT ![s] = <<>>]
    /\ conn' = [conn EXCEPT ![s] = IF @ = "gone" THEN "none" ELSE @]
    /\ isOpen' = FALSE
    /\ cur' = NoSock
    /\ IF shouldRun
       THEN /\ timer' = TRUE
            /\ stray' = IF app = "mobile" /\ timer THEN stray + 1 ELSE stray
            /\ stray' <= MaxStray
       ELSE UNCHANGED <<timer, stray>>
    /\ UNCHANGED <<app, started, shouldRun, awaiting, screens, hubSubs, joined>>

TimerFires ==
    /\ \/ timer /\ timer' = FALSE /\ UNCHANGED stray
       \/ stray > 0 /\ stray' = stray - 1 /\ UNCHANGED timer
    /\ awaiting' = Connecting(shouldRun, cur) /\ awaiting' <= MaxAwait
    /\ UNCHANGED <<app, started, shouldRun, cur, isOpen, screens, phase, out, hub>>

\* The network or the server ends a socket (onerror closes it too)
Dropped(s) ==
    /\ phase[s] \in {"connecting", "open"}
    /\ phase' = [phase EXCEPT ![s] = "closing"]
    /\ UNCHANGED <<app, client, screens, out, hub>>

----------------------------------------------------------------------------
(* The session effect: start on sign-in, stop on sign-out. *)

StartSocket ==
    /\ ~shouldRun
    /\ shouldRun' = TRUE
    /\ started' = TRUE
    /\ awaiting' = Connecting(TRUE, cur) /\ awaiting' <= MaxAwait
    /\ UNCHANGED <<app, cur, isOpen, timer, stray, screens, phase, out, hub>>

StopSocket ==
    /\ shouldRun
    /\ shouldRun' = FALSE
    /\ timer' = FALSE
    /\ phase' = IF cur = NoSock THEN phase ELSE [phase EXCEPT ![cur] = "closing"]
    /\ cur' = NoSock
    /\ isOpen' = FALSE
    /\ want' = IF app = "mobile" THEN [c \in Channels |-> 0] ELSE want
    /\ UNCHANGED <<app, started, awaiting, stray, mounted, out, hub>>

(* Components: useSocket (mobile), useChannel (web). *)

\* addSubscription and connect(); the web client only subscribes
Mount(c) ==
    /\ mounted[c] < MaxMounts /\ want[c] < MaxMounts
    /\ mounted' = [mounted EXCEPT ![c] = @ + 1]
    /\ want' = [want EXCEPT ![c] = @ + 1]
    /\ IF want[c] = 0 THEN SendNow("subscribe", c) ELSE UNCHANGED out
    /\ awaiting' = IF app = "mobile" THEN Connecting(shouldRun, cur) ELSE awaiting
    /\ awaiting' <= MaxAwait
    /\ UNCHANGED <<app, started, shouldRun, cur, isOpen, timer, stray, phase, hub>>

\* removeSubscription / the cleanup of subscribe: the last one unsubscribes
Unmount(c) ==
    /\ mounted[c] > 0
    /\ mounted' = [mounted EXCEPT ![c] = @ - 1]
    /\ want' = [want EXCEPT ![c] = IF @ = 0 THEN 0 ELSE @ - 1]
    /\ IF want[c] <= 1 THEN SendNow("unsubscribe", c) ELSE UNCHANGED out
    /\ UNCHANGED <<app, client, phase, hub>>

----------------------------------------------------------------------------
(* The hub: one Conn per socket, read in order by its ReadPump. *)

HubAdd(s) ==
    /\ phase[s] = "open" /\ conn[s] = "none"
    /\ conn' = [conn EXCEPT ![s] = "in"]
    /\ hubSubs' = [hubSubs EXCEPT ![OwnChannel] = @ \cup {s}]
    /\ joined' = [joined EXCEPT ![s] = {OwnChannel}]
    /\ UNCHANGED <<app, client, screens, phase, out>>

\* What a connection has joined once it has read a frame
Joins(chs, f) ==
    CASE f.type = "subscribe" -> chs \cup ({f.channel} \cap Joinable)
      [] OTHER                -> chs \ ({f.channel} \ {OwnChannel})

ReadFrame(s) ==
    /\ conn[s] = "in" /\ out[s] # <<>>
    /\ joined' = [joined EXCEPT ![s] = Joins(@, Head(out[s]))]
    /\ hubSubs' = [c \in HubChannels |-> IF c \in joined'[s] THEN hubSubs[c] \cup {s}
                                      ELSE hubSubs[c] \ {s}]
    /\ out' = [out EXCEPT ![s] = Tail(@)]
    /\ UNCHANGED <<app, client, screens, phase, conn>>

\* ReadPump returns: the Conn leaves every table before its channel is closed
HubRemove(s) ==
    /\ conn[s] = "in" /\ phase[s] \in {"closing", "closed"}
    /\ conn' = [conn EXCEPT ![s] = IF phase[s] = "closed" THEN "none" ELSE "gone"]
    /\ phase' = [phase EXCEPT ![s] = IF @ = "closed" THEN "none" ELSE @]
    /\ hubSubs' = [c \in HubChannels |-> IF c \in joined[s] THEN hubSubs[c] \ {s} ELSE hubSubs[c]]
    /\ joined' = [joined EXCEPT ![s] = {}]
    /\ UNCHANGED <<app, client, screens, out>>

----------------------------------------------------------------------------
Progress ==
    \/ TokenArrives \/ TimerFires
    \/ \E s \in Socks : Opened(s) \/ Closed(s) \/ HubAdd(s) \/ ReadFrame(s) \/ HubRemove(s)

SocketNext ==
    \/ Progress
    \/ TokenIsNull \/ StartSocket \/ StopSocket
    \/ \E s \in Socks : Dropped(s)
    \/ \E c \in Channels : Mount(c) \/ Unmount(c)

\* Every callback that is due runs: the event loop, the network and the hub's
\* goroutine are fair; the user, who mounts, signs in and out, is not.
SocketSpec ==
    /\ SocketInit /\ [][SocketNext]_socketVars
    /\ WF_socketVars(TokenArrives) /\ WF_socketVars(TimerFires)
    /\ \A s \in Socks :
         /\ WF_socketVars(Opened(s)) /\ WF_socketVars(Closed(s))
         /\ WF_socketVars(HubAdd(s)) /\ WF_socketVars(ReadFrame(s)) /\ WF_socketVars(HubRemove(s))

----------------------------------------------------------------------------
(* Properties. *)

\* What a connection that has joined chs will have joined once it has read
\* frames: a channel it lets this user join and whose last frame subscribes,
\* or one it has joined (its own for sure) and that no frame leaves
AfterReading(chs, frames) ==
    {c \in HubChannels :
       \/ /\ c \in Joinable
          /\ \E i \in DOMAIN frames :
               /\ frames[i] = Frame("subscribe", c)
               /\ \A j \in i + 1 .. Len(frames) : frames[j] # Frame("unsubscribe", c)
       \/ /\ c \in chs
          /\ c = OwnChannel \/ \A i \in DOMAIN frames : frames[i] # Frame("unsubscribe", c)}

Drained(s) == AfterReading(IF conn[s] = "in" THEN joined[s] ELSE {OwnChannel}, out[s])

\* Hub.subs and Conn.channels are two views of one relation, and a connection
\* that Remove has seen is in neither: Publish never writes to a closed channel.
HubTablesAgree ==
    /\ \A s \in Socks, c \in HubChannels : s \in hubSubs[c] <=> c \in joined[s]
    /\ \A s \in Socks : conn[s] # "in" => joined[s] = {}

\* The socket the client believes in, once open, is (or will be, when its
\* frames are read) subscribed to exactly the channels with a subscription,
\* whatever abandoned sockets opened or closed meanwhile: no channel mounted
\* while it connected is missed, none unmounted is kept (onopen, addSubscription
\* and removeSubscription; subscribe of the web client).
CurrentSocketInSync ==
    /\ HubTablesAgree
    /\ IsLive(cur) => Drained(cur) = {OwnChannel} \cup {c \in Channels \cap Joinable : want[c] > 0}

\* Signed in, and nothing left that would ever call connect() by itself
Idle == shouldRun /\ cur = NoSock /\ awaiting = 0 /\ ~timer /\ stray = 0

\* Whatever closes, opens and resumes in whatever order, a signed-in client is
\* left with no socket, no pending connect and no timer by one thing only, a
\* token getter that answered null (connect returns there without a timer).
IdleOnlyWithoutToken == [][Idle' => Idle \/ TokenIsNull]_socketVars

\* A channel that stays subscribed while the user stays signed in is, from some
\* time on, subscribed on the client's current open socket, if tokens are given
\* and the network stops dropping sockets (onclose and its timer, onopen and its resubscription:
\* "re-sent automatically on reconnect").
Resubscribed ==
    \A c \in Channels \cap Joinable :
        /\ <>[](shouldRun /\ ~Idle /\ want[c] > 0)
        /\ <>[][~TokenIsNull /\ \A s \in Socks : ~Dropped(s)]_socketVars
        => <>[](IsLive(cur) /\ cur \in hubSubs[c])

=============================================================================
