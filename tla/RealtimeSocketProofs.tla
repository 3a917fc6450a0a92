------------------------- MODULE RealtimeSocketProofs -------------------------
(***************************************************************************)
(* Of the realtime connection: the hub's two tables are one relation, the  *)
(* socket the client believes in is subscribed to what its screens ask     *)
(* for, and a signed-in client is left idle only by a missing token, for   *)
(* any channels, any number of sockets, mounts, pending calls and frames.  *)
(***************************************************************************)
EXTENDS RealtimeSocket, FiniteSetTheorems, TLAPS

-----------------------------------------------------------------------------
(* What frames do to a connection *)

Frames == [type : {"subscribe", "unsubscribe"}, channel : Channels]

LEMMA FrameEquality ==
  ASSUME NEW f \in Frames, NEW c
  PROVE  /\ f = Frame("subscribe", c) <=> f.type = "subscribe" /\ f.channel = c
         /\ f = Frame("unsubscribe", c) <=> f.type = "unsubscribe" /\ f.channel = c
BY DEF Frames, Frame

LEMMA FrameType ==
  ASSUME NEW c \in Channels
  PROVE  Frame("subscribe", c) \in Frames /\ Frame("unsubscribe", c) \in Frames
BY DEF Frames, Frame

(* The reasons for c to be joined after frames: *)
Subscribed(c, frames) ==
  \E i \in DOMAIN frames :
    /\ frames[i] = Frame("subscribe", c)
    /\ \A j \in i + 1 .. Len(frames) : frames[j] # Frame("unsubscribe", c)
Unleft(c, frames) == \A i \in DOMAIN frames : frames[i] # Frame("unsubscribe", c)

LEMMA AfterReadingIs ==
  ASSUME NEW chs, NEW frames, NEW c \in HubChannels
  PROVE  c \in AfterReading(chs, frames) <=>
           \/ c \in Joinable /\ Subscribed(c, frames)
           \/ c \in chs /\ (c = OwnChannel \/ Unleft(c, frames))
BY DEF AfterReading, Subscribed, Unleft

(* Reading the first frame and then the others is reading them all. *)
LEMMA ReadsInOrder ==
  ASSUME NEW chs, NEW frames \in Seq(Frames), frames # <<>>, OwnChannel \in chs
  PROVE  AfterReading(Joins(chs, Head(frames)), Tail(frames)) = AfterReading(chs, frames)
<1> DEFINE f == Head(frames)
           rest == Tail(frames)
<1>1. /\ f \in Frames /\ rest \in Seq(Frames) /\ f = frames[1]
      /\ Len(frames) \in Nat /\ Len(frames) >= 1 /\ Len(rest) = Len(frames) - 1
      /\ DOMAIN frames = 1 .. Len(frames) /\ DOMAIN rest = 1 .. Len(rest)
      /\ \A i \in DOMAIN rest : rest[i] = frames[i + 1]
  OBVIOUS
<1> HIDE DEF f, rest
<1>2. ASSUME NEW c \in HubChannels
      PROVE  c \in AfterReading(Joins(chs, f), rest) <=> c \in AfterReading(chs, frames)
  <2>1. Unleft(c, frames) <=> f # Frame("unsubscribe", c) /\ Unleft(c, rest)
    <3>1. ASSUME Unleft(c, rest), f # Frame("unsubscribe", c), NEW i \in DOMAIN frames
          PROVE  frames[i] # Frame("unsubscribe", c)
      <4>1. CASE i = 1
        BY <1>1, <3>1, <4>1
      <4>2. CASE i # 1
        <5>1. i - 1 \in DOMAIN rest /\ rest[i - 1] = frames[i]
          BY <1>1, <4>2
        <5> QED BY <3>1, <5>1 DEF Unleft
      <4> QED BY <4>1, <4>2
    <3>2. ASSUME Unleft(c, frames)
          PROVE  f # Frame("unsubscribe", c) /\ Unleft(c, rest)
      BY <1>1, <3>2 DEF Unleft
    <3> QED BY <3>1, <3>2 DEF Unleft
  <2>2. Subscribed(c, frames) <=> Subscribed(c, rest) \/ (f = Frame("subscribe", c) /\ Unleft(c, rest))
    <3>1. ASSUME Subscribed(c, rest) PROVE Subscribed(c, frames)
      <4>1. PICK i \in DOMAIN rest : /\ rest[i] = Frame("subscribe", c)
                                     /\ \A j \in i + 1 .. Len(rest) : rest[j] # Frame("unsubscribe", c)
        BY <3>1 DEF Subscribed
      <4>2. i + 1 \in DOMAIN frames /\ frames[i + 1] = Frame("subscribe", c)
        BY <1>1, <4>1
      <4>3. ASSUME NEW j \in (i + 1) + 1 .. Len(frames) PROVE frames[j] # Frame("unsubscribe", c)
        <5>1. j - 1 \in i + 1 .. Len(rest) /\ rest[j - 1] = frames[j]
          BY <1>1
        <5> QED BY <4>1, <5>1
      <4> QED BY <4>2, <4>3 DEF Subscribed
    <3>2. ASSUME f = Frame("subscribe", c), Unleft(c, rest) PROVE Subscribed(c, frames)
      <4>1. ASSUME NEW j \in 1 + 1 .. Len(frames) PROVE frames[j] # Frame("unsubscribe", c)
        <5>1. j - 1 \in DOMAIN rest /\ rest[j - 1] = frames[j]
          BY <1>1
        <5> QED BY <3>2, <5>1 DEF Unleft
      <4>2. 1 \in DOMAIN frames /\ frames[1] = Frame("subscribe", c)
        BY <1>1, <3>2
      <4> QED BY <4>1, <4>2 DEF Subscribed
    <3>3. ASSUME Subscribed(c, frames)
          PROVE  Subscribed(c, rest) \/ (f = Frame("subscribe", c) /\ Unleft(c, rest))
      <4>1. PICK i \in DOMAIN frames : /\ frames[i] = Frame("subscribe", c)
                                       /\ \A j \in i + 1 .. Len(frames) : frames[j] # Frame("unsubscribe", c)
        BY <3>3 DEF Subscribed
      <4>2. ASSUME NEW j \in i .. Len(rest), j \in DOMAIN rest PROVE rest[j] # Frame("unsubscribe", c)
        <5>1. j + 1 \in i + 1 .. Len(frames) /\ rest[j] = frames[j + 1]
          BY <1>1, <4>2
        <5> QED BY <4>1, <5>1
      <4>3. CASE i = 1
        BY <1>1, <4>1, <4>2, <4>3 DEF Unleft
      <4>4. CASE i # 1
        <5>1. i - 1 \in DOMAIN rest /\ rest[i - 1] = Frame("subscribe", c)
          BY <1>1, <4>1, <4>4
        <5>2. \A j \in (i - 1) + 1 .. Len(rest) : rest[j] # Frame("unsubscribe", c)
          BY <1>1, <4>2
        <5> QED BY <5>1, <5>2 DEF Subscribed
      <4> QED BY <4>3, <4>4
    <3> QED BY <3>1, <3>2, <3>3
  <2>3. CASE f.type = "subscribe"
    <3>1. Joins(chs, f) = chs \cup ({f.channel} \cap Joinable)
      BY <2>3 DEF Joins
    <3>2. f # Frame("unsubscribe", c) /\ (f = Frame("subscribe", c) <=> f.channel = c)
      BY <1>1, <2>3, FrameEquality
    <3> QED BY <2>1, <2>2, <3>1, <3>2, AfterReadingIs
  <2>4. CASE f.type # "subscribe"
    <3>1. Joins(chs, f) = chs \ ({f.channel} \ {OwnChannel}) /\ f.type = "unsubscribe"
      BY <1>1, <2>4 DEF Joins, Frames
    <3>2. f # Frame("subscribe", c) /\ (f = Frame("unsubscribe", c) <=> f.channel = c)
      BY <1>1, <3>1, FrameEquality
    <3> QED BY <2>1, <2>2, <3>1, <3>2, AfterReadingIs
  <2> QED BY <2>3, <2>4
<1> QED BY <1>2 DEF AfterReading, f, rest

(* Frames that subscribe to D, and one that unsubscribes from d, at the end. *)
Subscribes(subs, D) ==
  /\ subs \in Seq(Frames)
  /\ \A i \in DOMAIN subs : \E d \in D : subs[i] = Frame("subscribe", d)
  /\ \A d \in D : \E i \in DOMAIN subs : subs[i] = Frame("subscribe", d)

LEMMA ReadsSubscribe ==
  ASSUME NEW chs, NEW frames \in Seq(Frames), NEW subs, NEW D \in SUBSET Channels,
         Subscribes(subs, D)
  PROVE  AfterReading(chs, frames \o subs) = AfterReading(chs, frames) \cup (D \cap Joinable)
<1> DEFINE all == frames \o subs
<1>1. /\ Len(frames) \in Nat /\ Len(subs) \in Nat /\ Len(all) = Len(frames) + Len(subs)
      /\ DOMAIN frames = 1 .. Len(frames) /\ DOMAIN subs = 1 .. Len(subs) /\ DOMAIN all = 1 .. Len(all)
      /\ \A i \in DOMAIN frames : all[i] = frames[i]
      /\ \A i \in DOMAIN subs : all[Len(frames) + i] = subs[i]
  BY DEF Subscribes
<1> HIDE DEF all
<1>2. ASSUME NEW c, NEW i \in Len(frames) + 1 .. Len(all)
      PROVE  all[i] # Frame("unsubscribe", c)
  <2>1. i - Len(frames) \in DOMAIN subs /\ all[i] = subs[i - Len(frames)]
    BY <1>1
  <2> QED BY <2>1 DEF Frame, Subscribes
<1>3. ASSUME NEW c \in HubChannels
      PROVE  c \in AfterReading(chs, all) <=> c \in AfterReading(chs, frames) \/ c \in D \cap Joinable
  <2>1. Unleft(c, all) <=> Unleft(c, frames)
    <3>1. ASSUME Unleft(c, frames), NEW i \in DOMAIN all PROVE all[i] # Frame("unsubscribe", c)
      <4>1. CASE i \in DOMAIN frames
        BY <1>1, <3>1, <4>1 DEF Unleft
      <4>2. CASE i \notin DOMAIN frames
        BY <1>1, <1>2, <4>2
      <4> QED BY <4>1, <4>2
    <3>2. ASSUME Unleft(c, all), NEW i \in DOMAIN frames PROVE frames[i] # Frame("unsubscribe", c)
      BY <1>1, <3>2 DEF Unleft
    <3> QED BY <3>1, <3>2 DEF Unleft
  <2>2. Subscribed(c, all) <=> Subscribed(c, frames) \/ c \in D
    <3>1. ASSUME Subscribed(c, frames) PROVE Subscribed(c, all)
      <4>1. PICK i \in DOMAIN frames : /\ frames[i] = Frame("subscribe", c)
                                       /\ \A j \in i + 1 .. Len(frames) : frames[j] # Frame("unsubscribe", c)
        BY <3>1 DEF Subscribed
      <4>2. ASSUME NEW j \in i + 1 .. Len(all) PROVE all[j] # Frame("unsubscribe", c)
        <5>1. CASE j <= Len(frames)
          <6>1. j \in i + 1 .. Len(frames) /\ j \in DOMAIN frames
            BY <1>1, <5>1
          <6> QED BY <1>1, <4>1, <6>1
        <5>2. CASE j > Len(frames)
          <6>1. j \in Len(frames) + 1 .. Len(all)
            BY <1>1, <5>2
          <6> QED BY <1>2, <6>1
        <5> QED BY <1>1, <5>1, <5>2
      <4>3. i \in DOMAIN all /\ all[i] = Frame("subscribe", c)
        BY <1>1, <4>1
      <4> QED BY <4>2, <4>3 DEF Subscribed
    <3>2. ASSUME c \in D PROVE Subscribed(c, all)
      <4>1. PICK i \in DOMAIN subs : subs[i] = Frame("subscribe", c)
        BY <3>2 DEF Subscribes
      <4>2. Len(frames) + i \in DOMAIN all /\ all[Len(frames) + i] = Frame("subscribe", c)
        BY <1>1, <4>1
      <4>3. \A j \in (Len(frames) + i) + 1 .. Len(all) : all[j] # Frame("unsubscribe", c)
        BY <1>1, <1>2
      <4> QED BY <4>2, <4>3 DEF Subscribed
    <3>3. ASSUME Subscribed(c, all) PROVE Subscribed(c, frames) \/ c \in D
      <4>1. PICK i \in DOMAIN all : /\ all[i] = Frame("subscribe", c)
                                    /\ \A j \in i + 1 .. Len(all) : all[j] # Frame("unsubscribe", c)
        BY <3>3 DEF Subscribed
      <4>2. CASE i \in DOMAIN frames
        BY <1>1, <4>1, <4>2 DEF Subscribed
      <4>3. CASE i \notin DOMAIN frames
        <5>1. i - Len(frames) \in DOMAIN subs /\ all[i] = subs[i - Len(frames)]
          BY <1>1, <4>3
        <5>2. PICK d \in D : subs[i - Len(frames)] = Frame("subscribe", d)
          BY <5>1 DEF Subscribes
        <5> QED BY <4>1, <5>1, <5>2 DEF Frame
      <4> QED BY <4>2, <4>3
    <3> QED BY <3>1, <3>2, <3>3
  <2> QED BY <2>1, <2>2, AfterReadingIs
<1>4. \A c \in D : c \in HubChannels
  BY DEF HubChannels
<1> QED BY <1>3, <1>4 DEF AfterReading, all

LEMMA ReadsUnsubscribe ==
  ASSUME NEW chs, NEW frames \in Seq(Frames), NEW d \in Channels, OwnChannel \in chs
  PROVE  AfterReading(chs, frames \o <<Frame("unsubscribe", d)>>)
           = AfterReading(chs, frames) \ ({d} \ {OwnChannel})
<1> DEFINE last == Frame("unsubscribe", d)
           all == frames \o <<last>>
<1>1. /\ Len(frames) \in Nat /\ Len(all) = Len(frames) + 1
      /\ DOMAIN frames = 1 .. Len(frames) /\ DOMAIN all = 1 .. Len(all)
      /\ \A i \in DOMAIN frames : all[i] = frames[i]
      /\ all[Len(all)] = last
  OBVIOUS
<1>2. last \in Frames /\ last.type = "unsubscribe" /\ last.channel = d
  BY DEF Frames, Frame
<1>3. \A c : last # Frame("subscribe", c) /\ (last = Frame("unsubscribe", c) <=> c = d)
  BY <1>2, FrameEquality
<1> HIDE DEF all, last
<1>4. ASSUME NEW c \in HubChannels
      PROVE  c \in AfterReading(chs, all) <=> c \in AfterReading(chs, frames) \ ({d} \ {OwnChannel})
  <2>1. Unleft(c, all) <=> Unleft(c, frames) /\ c # d
    <3>1. ASSUME Unleft(c, frames), c # d, NEW i \in DOMAIN all PROVE all[i] # Frame("unsubscribe", c)
      <4>1. CASE i \in DOMAIN frames
        BY <1>1, <3>1, <4>1 DEF Unleft
      <4>2. CASE i \notin DOMAIN frames
        <5>1. i = Len(all)
          BY <1>1, <4>2
        <5> QED BY <1>1, <1>3, <3>1, <5>1
      <4> QED BY <4>1, <4>2
    <3>2. ASSUME Unleft(c, all) PROVE Unleft(c, frames) /\ c # d
      <4>1. Len(all) \in DOMAIN all
        BY <1>1
      <4>2. \A i \in DOMAIN frames : i \in DOMAIN all
        BY <1>1
      <4> QED BY <1>1, <1>3, <3>2, <4>1, <4>2 DEF Unleft
    <3> QED BY <3>1, <3>2 DEF Unleft
  <2>2. Subscribed(c, all) <=> Subscribed(c, frames) /\ c # d
    <3>1. ASSUME Subscribed(c, frames), c # d PROVE Subscribed(c, all)
      <4>1. PICK i \in DOMAIN frames : /\ frames[i] = Frame("subscribe", c)
                                       /\ \A j \in i + 1 .. Len(frames) : frames[j] # Frame("unsubscribe", c)
        BY <3>1 DEF Subscribed
      <4>2. ASSUME NEW j \in i + 1 .. Len(all) PROVE all[j] # Frame("unsubscribe", c)
        <5>1. CASE j <= Len(frames)
          <6>1. j \in i + 1 .. Len(frames) /\ j \in DOMAIN frames
            BY <1>1, <5>1
          <6> QED BY <1>1, <4>1, <6>1
        <5>2. CASE j > Len(frames)
          <6>1. j = Len(all)
            BY <1>1, <5>2
          <6> QED BY <1>1, <1>3, <3>1, <6>1
        <5> QED BY <1>1, <5>1, <5>2
      <4>3. i \in DOMAIN all /\ all[i] = Frame("subscribe", c)
        BY <1>1, <4>1
      <4> QED BY <4>2, <4>3 DEF Subscribed
    <3>2. ASSUME Subscribed(c, all) PROVE Subscribed(c, frames) /\ c # d
      <4>1. PICK i \in DOMAIN all : /\ all[i] = Frame("subscribe", c)
                                    /\ \A j \in i + 1 .. Len(all) : all[j] # Frame("unsubscribe", c)
        BY <3>2 DEF Subscribed
      <4>2. i # Len(all)
        BY <1>1, <1>3, <4>1
      <4>3. i \in DOMAIN frames /\ frames[i] = Frame("subscribe", c)
        BY <1>1, <4>1, <4>2
      <4>4. \A j \in i + 1 .. Len(frames) : j \in i + 1 .. Len(all) /\ frames[j] = all[j]
        BY <1>1, <4>3
      <4>5. Len(all) \in i + 1 .. Len(all)
        BY <1>1, <4>3
      <4> QED BY <1>1, <1>3, <4>1, <4>3, <4>4, <4>5 DEF Subscribed
    <3> QED BY <3>1, <3>2
  <2> QED BY <2>1, <2>2, AfterReadingIs
<1> QED BY <1>4 DEF AfterReading, all, last

-----------------------------------------------------------------------------
(* The inductive invariant *)

Phases == {"none", "connecting", "open", "closing", "closed"}

SocketTypes ==
  /\ app \in {"mobile", "web"} /\ awaiting \in Nat /\ cur \in Socks \cup {NoSock}
  /\ want \in [Channels -> Nat]
  /\ phase \in [Socks -> Phases] /\ out \in [Socks -> Seq(Frames)]
  /\ conn \in [Socks -> {"none", "in", "gone"}]
  /\ joined \in [Socks -> SUBSET HubChannels] /\ hubSubs \in [HubChannels -> SUBSET Socks]

(* A socket that has not opened has neither frames nor a connection at the   *)
(* hub, so its name can be used again; one that is open was not removed.     *)
SocketLife ==
  \A s \in Socks :
    /\ phase[s] \in {"none", "connecting"} => conn[s] = "none" /\ out[s] = <<>>
    /\ phase[s] = "closed" => conn[s] = "in" /\ out[s] = <<>>
    /\ phase[s] = "open" => conn[s] # "gone"
    /\ conn[s] = "in" => OwnChannel \in joined[s]

(* The flag of the mobile client is set while the socket it believes in is   *)
(* open: rawSend drops no frame of a subscription that is noted.             *)
OpenIsKnown == app = "mobile" /\ IsLive(cur) => isOpen

Wanted == {OwnChannel} \cup {c \in Channels \cap Joinable : want[c] > 0}
Sync == IsLive(cur) => Drained(cur) = Wanted

SocketInv == SocketTypes /\ SocketLife /\ OpenIsKnown /\ HubTablesAgree /\ Sync

LEMMA NoSockIsNone == NoSock \notin Socks
BY SocketAssumption DEF NoSock

LEMMA CurIsSock == ASSUME SocketTypes, IsLive(cur) PROVE cur \in Socks
BY DEF SocketTypes, IsLive

(* What has become of the current socket's frames is what it was. *)
LEMMA SyncKept ==
  ASSUME Sync, cur' = cur, want' = want, IsLive(cur)' => IsLive(cur),
         IsLive(cur) => /\ out'[cur] = out[cur] /\ conn'[cur] = conn[cur]
                        /\ joined'[cur] = joined[cur]
  PROVE  Sync'
<1> SUFFICES ASSUME IsLive(cur)' PROVE Drained(cur)' = Wanted'
  BY DEF Sync
<1>1. Drained(cur)' = Drained(cur)
  BY DEF Drained, AfterReading
<1> QED BY <1>1 DEF Sync, Wanted

LEMMA HubTablesKept ==
  ASSUME HubTablesAgree, UNCHANGED <<conn, hubSubs, joined>>
  PROVE  HubTablesAgree'
BY DEF HubTablesAgree

LEMMA SocketInitial == SocketInit => SocketInv
<1> SUFFICES ASSUME SocketInit PROVE SocketInv
  OBVIOUS
<1>1. SocketTypes
  BY SocketAssumption DEF SocketInit, SocketTypes, Phases
<1>2. SocketLife /\ ~ IsLive(cur)
  BY DEF SocketInit, SocketLife, IsLive
<1>3. HubTablesAgree
  BY DEF SocketInit, HubTablesAgree
<1> QED BY <1>1, <1>2, <1>3 DEF SocketInv, OpenIsKnown, Sync
-----------------------------------------------------------------------------
(* The client's callbacks *)

(* Steps that touch no socket and no subscription. *)
LEMMA QuietKeeps ==
  ASSUME SocketInv, UNCHANGED <<app, cur, isOpen, want, phase, out, conn, hubSubs, joined>>,
         awaiting' \in Nat
  PROVE  SocketInv'
<1>1. SocketTypes' /\ SocketLife' /\ OpenIsKnown'
  BY DEF SocketInv, SocketTypes, SocketLife, OpenIsKnown, IsLive
<1>2. Sync'
  BY SyncKept DEF SocketInv, IsLive
<1> QED BY <1>1, <1>2, HubTablesKept DEF SocketInv

LEMMA ConnectingType ==
  ASSUME SocketTypes, NEW run, NEW c
  PROVE  /\ Connecting(run, c) \in Nat
         /\ run /\ c = NoSock => Connecting(run, c) # 0
<1>1. CASE app = "mobile"
  BY <1>1 DEF Connecting, SocketTypes
<1>2. CASE app = "web"
  BY <1>2 DEF Connecting
<1> QED BY <1>1, <1>2 DEF SocketTypes

LEMMA TokenArrivesKeeps ==
  ASSUME SocketInv, TokenArrives
  PROVE  SocketInv'
<1>1. awaiting' \in Nat /\ UNCHANGED <<app, isOpen, want, out, conn, hubSubs, joined>>
  BY DEF TokenArrives, screens, hub, SocketInv, SocketTypes
<1>2. CASE UNCHANGED <<cur, phase>>
  BY <1>1, <1>2, QuietKeeps
<1>3. ASSUME NEW s \in Socks, phase[s] = "none", cur' = s, phase' = [phase EXCEPT ![s] = "connecting"]
      PROVE  SocketInv'
  <2>1. phase' \in [Socks -> Phases] /\ phase'[s] = "connecting" /\ \A t \in Socks \ {s} : phase'[t] = phase[t]
    BY <1>3 DEF SocketInv, SocketTypes, Phases
  <2>2. SocketTypes'
    BY <1>1, <1>3, <2>1 DEF SocketInv, SocketTypes
  <2>3. SocketLife'
    BY <1>1, <1>3, <2>1 DEF SocketInv, SocketLife
  <2>4. ~ IsLive(cur)'
    BY <1>3, <2>1 DEF IsLive
  <2> QED BY <1>1, <2>2, <2>3, <2>4, HubTablesKept DEF SocketInv, OpenIsKnown, Sync
<1> QED BY <1>2, <1>3 DEF TokenArrives

(* Every channel with a subscription is in the frames of onopen. *)
LEMMA ResubscribeAll ==
  ASSUME SocketTypes
  PROVE  Subscribes(Resubscribe, {c \in Channels : want[c] > 0})
<1> DEFINE D == {c \in Channels : want[c] > 0}
           S == {Frame("subscribe", c) : c \in D}
           n == Cardinality(S)
<1>1. IsFiniteSet(S)
  <2>1. IsFiniteSet(D)
    BY SocketAssumption, FS_Subset
  <2> DEFINE send == [c \in D |-> Frame("subscribe", c)]
  <2>2. send \in Surjection(D, S)
    BY DEF Surjection
  <2> QED BY <2>1, <2>2, FS_Surjection
<1>2. n \in Nat /\ ExistsBijection(1 .. n, S)
  BY <1>1, FS_CardinalityType
<1>3. \E f \in [1 .. n -> S] : IsInjective(f)
  BY <1>2 DEF ExistsBijection, Bijection, Injection
<1>4. Resubscribe \in [1 .. n -> S] /\ IsInjective(Resubscribe)
  BY <1>3 DEF Resubscribe, SetToSeq
<1>5. Resubscribe \in Surjection(1 .. n, S)
  <2>1. Resubscribe \in Injection(1 .. n, S)
    BY <1>4 DEF Injection
  <2>2. Cardinality(1 .. n) = n
    BY <1>2, FS_Interval
  <2> QED BY <1>1, <2>1, <2>2, FS_Injection
<1>6. S \subseteq Frames
  BY FrameType
<1>7. Resubscribe \in Seq(Frames) /\ DOMAIN Resubscribe = 1 .. n
  <2>1. Resubscribe \in [1 .. n -> Frames] /\ n \in Nat
    BY <1>2, <1>4, <1>6
  <2> HIDE DEF n
  <2> QED BY <2>1
<1>8. \A f \in S : \E i \in 1 .. n : Resubscribe[i] = f
  BY <1>5 DEF Surjection
<1> QED BY <1>4, <1>7, <1>8 DEF Subscribes

(* The socket that opens is told everything, and told again when it was.     *)
LEMMA OpenedKeeps ==
  ASSUME SocketInv, NEW s \in Socks, Opened(s)
  PROVE  SocketInv'
<1> DEFINE target == IF app = "web" THEN s ELSE cur
           told == target # NoSock /\ phase'[target] = "open"
<1>1. /\ phase[s] = "connecting" /\ phase' = [phase EXCEPT ![s] = "open"] /\ isOpen'
      /\ out' = IF told THEN Sent(target, Resubscribe) ELSE out
      /\ UNCHANGED <<app, cur, awaiting, want, conn, hubSubs, joined>>
  BY DEF Opened, screens, hub
<1>2. /\ phase' \in [Socks -> Phases] /\ phase'[s] = "open"
      /\ \A t \in Socks \ {s} : phase'[t] = phase[t]
  BY <1>1 DEF SocketInv, SocketTypes, Phases
<1>3. target \in Socks \cup {NoSock}
  BY DEF SocketInv, SocketTypes
<1>4. out \in [Socks -> Seq(Frames)] /\ Resubscribe \in Seq(Frames)
  BY ResubscribeAll DEF SocketInv, SocketTypes, Subscribes
<1> HIDE DEF target
<1>5. /\ out' \in [Socks -> Seq(Frames)]
      /\ \A t \in Socks : out'[t] = IF told /\ t = target THEN out[t] \o Resubscribe ELSE out[t]
  <2>1. CASE told
    <3>1. out' = [out EXCEPT ![target] = out[target] \o Resubscribe] /\ target \in Socks
      BY <1>1, <1>3, <2>1 DEF Sent
    <3>2. out[target] \o Resubscribe \in Seq(Frames)
      BY <1>4, <3>1
    <3> QED BY <1>4, <2>1, <3>1, <3>2
  <2>2. CASE ~ told
    BY <1>1, <1>4, <2>2
  <2> QED BY <2>1, <2>2
<1>6. SocketTypes'
  BY <1>1, <1>2, <1>5 DEF SocketInv, SocketTypes
<1>7. SocketLife'
  <2>1. \A t \in Socks : phase'[t] # "open" => phase'[t] = phase[t] /\ out'[t] = out[t]
    BY <1>2, <1>5
  <2>2. \A t \in Socks : phase'[t] = "open" => phase[t] \in {"open", "connecting"}
    BY <1>1, <1>2
  <2> QED BY <1>1, <2>1, <2>2 DEF SocketInv, SocketLife
<1>8. ASSUME IsLive(cur)' PROVE Drained(cur)' = Wanted'
  <2>1. cur # NoSock /\ cur \in Socks /\ phase'[cur] = "open"
    BY <1>1, <1>8 DEF IsLive, SocketInv, SocketTypes
  <2> DEFINE base == IF conn[cur] = "in" THEN joined[cur] ELSE {OwnChannel}
             D == {c \in Channels : want[c] > 0}
  <2>2. Drained(cur) = AfterReading(base, out[cur]) /\ Drained(cur)' = AfterReading(base, out'[cur])
    BY <1>1 DEF Drained, AfterReading
  <2>3. AfterReading(base, out[cur] \o Resubscribe) = AfterReading(base, out[cur]) \cup (D \cap Joinable)
    <3>1. D \in SUBSET Channels /\ Subscribes(Resubscribe, D)
      BY ResubscribeAll DEF SocketInv
    <3>2. out[cur] \in Seq(Frames)
      BY <1>4, <2>1
    <3> HIDE DEF base, D
    <3> QED BY <3>1, <3>2, ReadsSubscribe
  <2>4. Wanted' = Wanted /\ Wanted = {OwnChannel} \cup (D \cap Joinable)
    BY <1>1 DEF Wanted
  <2>5. CASE IsLive(cur)
    <3>1. AfterReading(base, out[cur]) = Wanted
      BY <2>2, <2>5 DEF SocketInv, Sync
    <3> HIDE DEF base, D
    <3>2. out'[cur] = out[cur] \/ out'[cur] = out[cur] \o Resubscribe
      BY <1>5, <2>1
    <3> QED BY <2>2, <2>3, <2>4, <3>1, <3>2
  <2>6. CASE ~ IsLive(cur)
    <3>1. cur = s
      BY <1>2, <2>1, <2>6 DEF IsLive
    <3>2. told /\ target = cur
      BY <2>1, <3>1 DEF target
    <3>3. out[cur] = <<>> /\ base = {OwnChannel}
      BY <1>1, <3>1 DEF SocketInv, SocketLife
    <3>4. AfterReading(base, out[cur]) = {OwnChannel}
      BY <3>3 DEF AfterReading, HubChannels
    <3>5. out'[cur] = out[cur] \o Resubscribe
      BY <1>5, <2>1, <3>2
    <3> HIDE DEF base, D
    <3> QED BY <2>2, <2>3, <2>4, <3>4, <3>5
  <2> QED BY <2>5, <2>6
<1> QED BY <1>1, <1>6, <1>7, <1>8, HubTablesKept DEF SocketInv, OpenIsKnown, Sync

LEMMA ClosedKeeps ==
  ASSUME SocketInv, NEW s \in Socks, Closed(s)
  PROVE  SocketInv'
<1>1. /\ phase[s] = "closing"
      /\ phase' = [phase EXCEPT ![s] = IF conn[s] = "in" THEN "closed" ELSE "none"]
      /\ out' = [out EXCEPT ![s] = <<>>]
      /\ conn' = [conn EXCEPT ![s] = IF conn[s] = "gone" THEN "none" ELSE conn[s]]
      /\ cur' = NoSock /\ UNCHANGED <<app, awaiting, want, hubSubs, joined>>
  BY DEF Closed, screens
<1>2. /\ phase \in [Socks -> Phases] /\ out \in [Socks -> Seq(Frames)]
      /\ conn \in [Socks -> {"none", "in", "gone"}]
  BY DEF SocketInv, SocketTypes
<1>3. /\ phase' \in [Socks -> Phases] /\ phase'[s] = IF conn[s] = "in" THEN "closed" ELSE "none"
      /\ \A t \in Socks \ {s} : phase'[t] = phase[t]
  BY <1>1, <1>2 DEF Phases
<1>4. /\ out' \in [Socks -> Seq(Frames)] /\ out'[s] = <<>>
      /\ \A t \in Socks \ {s} : out'[t] = out[t]
  BY <1>1, <1>2
<1>5. /\ conn' \in [Socks -> {"none", "in", "gone"}]
      /\ conn'[s] = IF conn[s] = "gone" THEN "none" ELSE conn[s]
      /\ \A t \in Socks \ {s} : conn'[t] = conn[t]
  BY <1>1, <1>2
<1>6. SocketTypes'
  BY <1>1, <1>3, <1>4, <1>5 DEF SocketInv, SocketTypes
<1>7. SocketLife'
  <2>1. ASSUME NEW t \in Socks
        PROVE  /\ phase'[t] \in {"none", "connecting"} => conn'[t] = "none" /\ out'[t] = <<>>
               /\ phase'[t] = "closed" => conn'[t] = "in" /\ out'[t] = <<>>
               /\ phase'[t] = "open" => conn'[t] # "gone"
               /\ conn'[t] = "in" => OwnChannel \in joined[t]
    <3>1. CASE t = s
      BY <1>2, <1>3, <1>4, <1>5, <3>1 DEF SocketInv, SocketLife
    <3>2. CASE t # s
      BY <1>3, <1>4, <1>5, <3>2 DEF SocketInv, SocketLife
    <3> QED BY <3>1, <3>2
  <2> QED BY <1>1, <2>1 DEF SocketLife
<1>8. HubTablesAgree'
  <2>1. \A t \in Socks : conn'[t] # "in" => conn[t] # "in"
    BY <1>5
  <2> QED BY <1>1, <2>1 DEF SocketInv, HubTablesAgree
<1> QED BY <1>1, <1>6, <1>7, <1>8 DEF SocketInv, OpenIsKnown, Sync, IsLive

(* A socket that ends owes nothing. *)
LEMMA ClosingKeeps ==
  ASSUME SocketInv, NEW s \in Socks, phase' = [phase EXCEPT ![s] = "closing"],
         UNCHANGED <<app, awaiting, out, hub>>
  PROVE  /\ want' \in [Channels -> Nat] /\ cur' \in {cur, NoSock} => SocketTypes'
         /\ SocketLife' /\ HubTablesAgree'
         /\ \A t : IsLive(t)' => IsLive(t)
<1>1. /\ phase' \in [Socks -> Phases] /\ phase'[s] = "closing"
      /\ \A t \in Socks \ {s} : phase'[t] = phase[t]
  BY DEF SocketInv, SocketTypes, Phases
<1>2. want' \in [Channels -> Nat] /\ cur' \in {cur, NoSock} => SocketTypes'
  BY <1>1 DEF hub, SocketInv, SocketTypes
<1>3. SocketLife'
  BY <1>1 DEF hub, SocketInv, SocketLife
<1>4. HubTablesAgree'
  BY HubTablesKept DEF hub, SocketInv
<1>5. \A t : phase'[t] = "open" => phase[t] = "open"
  BY DEF SocketInv, SocketTypes
<1> QED BY <1>2, <1>3, <1>4, <1>5 DEF IsLive

LEMMA DroppedKeeps ==
  ASSUME SocketInv, NEW s \in Socks, Dropped(s)
  PROVE  SocketInv'
<1>1. /\ phase' = [phase EXCEPT ![s] = "closing"]
      /\ UNCHANGED <<app, awaiting, out, hub, cur, isOpen, want, conn, joined>>
  BY DEF Dropped, client, screens, hub
<1>2. want' \in [Channels -> Nat] /\ cur' \in {cur, NoSock}
  BY <1>1 DEF SocketInv, SocketTypes
<1>3. SocketTypes' /\ SocketLife' /\ HubTablesAgree' /\ (IsLive(cur)' => IsLive(cur))
  BY <1>1, <1>2, ClosingKeeps
<1>4. OpenIsKnown'
  BY <1>1, <1>3 DEF SocketInv, OpenIsKnown
<1>5. Sync'
  BY <1>1, <1>3, SyncKept DEF SocketInv
<1> QED BY <1>3, <1>4, <1>5 DEF SocketInv

LEMMA StopKeeps ==
  ASSUME SocketInv, StopSocket
  PROVE  SocketInv'
<1>1. /\ phase' = IF cur = NoSock THEN phase ELSE [phase EXCEPT ![cur] = "closing"]
      /\ cur' = NoSock
      /\ want' = IF app = "mobile" THEN [c \in Channels |-> 0] ELSE want
      /\ UNCHANGED <<app, awaiting, out, hub>>
  BY DEF StopSocket
<1>2. want' \in [Channels -> Nat] /\ cur' \in {cur, NoSock}
  BY <1>1 DEF SocketInv, SocketTypes
<1>3. SocketTypes' /\ SocketLife' /\ HubTablesAgree'
  <2>1. CASE cur = NoSock
    BY <1>1, <1>2, <2>1, HubTablesKept DEF SocketInv, SocketTypes, SocketLife, hub
  <2>2. CASE cur # NoSock
    <3>1. cur \in Socks
      BY <2>2 DEF SocketInv, SocketTypes
    <3> QED BY <1>1, <1>2, <2>2, <3>1, ClosingKeeps
  <2> QED BY <2>1, <2>2
<1> QED BY <1>1, <1>3 DEF SocketInv, OpenIsKnown, Sync, IsLive
-----------------------------------------------------------------------------
(* The screens *)

(* A frame for the current socket is sent while it is open, else no socket   *)
(* is open that would want it.                                               *)
LEMMA SendNowSends ==
  ASSUME SocketInv, NEW type \in {"subscribe", "unsubscribe"}, NEW c \in Channels, SendNow(type, c)
  PROVE  /\ out' \in [Socks -> Seq(Frames)]
         /\ IsLive(cur) => out'[cur] = out[cur] \o <<Frame(type, c)>>
         /\ \A t \in Socks : out'[t] = out[t] \/ (t = cur /\ IsLive(cur))
<1>1. out \in [Socks -> Seq(Frames)] /\ Frame(type, c) \in Frames
  BY FrameType DEF SocketInv, SocketTypes
<1>2. MaySend <=> IsLive(cur)
  BY DEF MaySend, SocketInv, OpenIsKnown
<1>3. CASE IsLive(cur)
  <2>1. cur \in Socks
    BY <1>3, CurIsSock DEF SocketInv
  <2>2. out' = [out EXCEPT ![cur] = out[cur] \o <<Frame(type, c)>>]
    BY <1>2, <1>3 DEF SendNow, Sent
  <2>3. out[cur] \o <<Frame(type, c)>> \in Seq(Frames)
    BY <1>1, <2>1
  <2> QED BY <1>1, <1>3, <2>1, <2>2, <2>3
<1>4. CASE ~ IsLive(cur)
  <2>1. out' = out
    BY <1>2, <1>4 DEF SendNow
  <2> QED BY <1>1, <1>4, <2>1
<1> QED BY <1>3, <1>4

(* What mounting and unmounting have in common. *)
LEMMA ScreenKeeps ==
  ASSUME SocketInv, UNCHANGED <<app, cur, isOpen, phase, conn, hubSubs, joined>>,
         awaiting' \in Nat, want' \in [Channels -> Nat], out' \in [Socks -> Seq(Frames)],
         \A t \in Socks : out'[t] = out[t] \/ (t = cur /\ IsLive(cur)),
         IsLive(cur) => Drained(cur)' = Wanted'
  PROVE  SocketInv'
<1>1. SocketTypes' /\ OpenIsKnown' /\ HubTablesAgree'
  BY HubTablesKept DEF SocketInv, SocketTypes, OpenIsKnown, IsLive
<1>2. SocketLife'
  <2>1. \A t \in Socks : phase[t] # "open" => out'[t] = out[t]
    BY DEF IsLive
  <2> QED BY <2>1 DEF SocketInv, SocketLife
<1>3. Sync'
  BY DEF Sync, IsLive
<1> QED BY <1>1, <1>2, <1>3 DEF SocketInv

LEMMA BaseHasOwn ==
  ASSUME SocketInv, NEW s \in Socks
  PROVE  OwnChannel \in (IF conn[s] = "in" THEN joined[s] ELSE {OwnChannel})
BY DEF SocketInv, SocketLife

LEMMA MountKeeps ==
  ASSUME SocketInv, NEW c \in Channels, Mount(c)
  PROVE  SocketInv'
<1>1. /\ want' = [want EXCEPT ![c] = want[c] + 1]
      /\ IF want[c] = 0 THEN SendNow("subscribe", c) ELSE UNCHANGED out
      /\ UNCHANGED <<app, cur, isOpen, phase, conn, hubSubs, joined>>
  BY DEF Mount, hub
<1>2. awaiting' \in Nat
  BY ConnectingType DEF Mount, SocketInv, SocketTypes
<1>3. /\ want' \in [Channels -> Nat] /\ want[c] \in Nat /\ want'[c] = want[c] + 1
      /\ \A d \in Channels \ {c} : want'[d] = want[d]
  BY <1>1 DEF SocketInv, SocketTypes
<1>4. Wanted' = Wanted \cup ({c} \cap Joinable)
  <2>1. \A d \in Channels : want'[d] > 0 <=> want[d] > 0 \/ d = c
    BY <1>3 DEF SocketInv, SocketTypes
  <2> QED BY <2>1 DEF Wanted
<1>5. CASE want[c] = 0
  <2>1. /\ out' \in [Socks -> Seq(Frames)]
        /\ IsLive(cur) => out'[cur] = out[cur] \o <<Frame("subscribe", c)>>
        /\ \A t \in Socks : out'[t] = out[t] \/ (t = cur /\ IsLive(cur))
    BY <1>1, <1>5, SendNowSends
  <2>2. ASSUME IsLive(cur) PROVE Drained(cur)' = Wanted'
    <3>1. cur \in Socks /\ out[cur] \in Seq(Frames)
      BY <2>2, CurIsSock DEF SocketInv, SocketTypes
    <3> DEFINE base == IF conn[cur] = "in" THEN joined[cur] ELSE {OwnChannel}
               subs == <<Frame("subscribe", c)>>
    <3>2. subs \in Seq(Frames) /\ DOMAIN subs = {1} /\ subs[1] = Frame("subscribe", c)
      BY FrameType
    <3>3. AfterReading(base, out[cur] \o subs) = AfterReading(base, out[cur]) \cup ({c} \cap Joinable)
      <4> DEFINE D == {c}
      <4>1. D \in SUBSET Channels /\ Subscribes(subs, D)
        BY <3>2 DEF Subscribes
      <4>2. AfterReading(base, out[cur] \o subs) = AfterReading(base, out[cur]) \cup (D \cap Joinable)
        <5> HIDE DEF base, subs, D
        <5>1. out[cur] \in Seq(Frames)
          BY <3>1
        <5> QED BY <4>1, <5>1, ReadsSubscribe
      <4> QED BY <4>2
    <3>4. AfterReading(base, out[cur]) = Wanted
      BY <2>2 DEF SocketInv, Sync, Drained
    <3>5. Drained(cur)' = AfterReading(base, out[cur] \o subs)
      BY <1>1, <2>1, <2>2 DEF Drained, AfterReading
    <3> QED BY <1>4, <3>3, <3>4, <3>5
  <2> QED BY <1>1, <1>2, <1>3, <2>1, <2>2, ScreenKeeps
<1>6. CASE want[c] # 0
  <2>1. UNCHANGED out
    BY <1>1, <1>6
  <2>2. c \in Joinable => c \in Wanted
    BY <1>3, <1>6 DEF Wanted
  <2>3. Wanted' = Wanted /\ Drained(cur)' = Drained(cur)
    BY <1>1, <1>4, <2>1, <2>2 DEF Drained, AfterReading
  <2>4. out' \in [Socks -> Seq(Frames)]
    BY <2>1 DEF SocketInv, SocketTypes
  <2> QED BY <1>1, <1>2, <1>3, <2>1, <2>3, <2>4, ScreenKeeps DEF SocketInv, Sync
<1> QED BY <1>5, <1>6

LEMMA UnmountKeeps ==
  ASSUME SocketInv, NEW c \in Channels, Unmount(c)
  PROVE  SocketInv'
<1>1. /\ want' = [want EXCEPT ![c] = IF want[c] = 0 THEN 0 ELSE want[c] - 1]
      /\ IF want[c] <= 1 THEN SendNow("unsubscribe", c) ELSE UNCHANGED out
      /\ UNCHANGED <<app, cur, isOpen, phase, conn, hubSubs, joined, awaiting>>
  BY DEF Unmount, hub, client
<1>2. awaiting' \in Nat
  BY <1>1 DEF SocketInv, SocketTypes
<1>3. /\ want' \in [Channels -> Nat] /\ want[c] \in Nat
      /\ want'[c] = IF want[c] = 0 THEN 0 ELSE want[c] - 1
      /\ \A d \in Channels \ {c} : want'[d] = want[d]
  BY <1>1 DEF SocketInv, SocketTypes
<1>4. CASE want[c] <= 1
  <2>1. /\ out' \in [Socks -> Seq(Frames)]
        /\ IsLive(cur) => out'[cur] = out[cur] \o <<Frame("unsubscribe", c)>>
        /\ \A t \in Socks : out'[t] = out[t] \/ (t = cur /\ IsLive(cur))
    BY <1>1, <1>4, SendNowSends
  <2>2. Wanted' = Wanted \ ({c} \ {OwnChannel})
    <3>1. \A d \in Channels : want'[d] > 0 <=> want[d] > 0 /\ d # c
      BY <1>3, <1>4 DEF SocketInv, SocketTypes
    <3> QED BY <3>1 DEF Wanted
  <2>3. ASSUME IsLive(cur) PROVE Drained(cur)' = Wanted'
    <3>1. cur \in Socks /\ out[cur] \in Seq(Frames)
      BY <2>3, CurIsSock DEF SocketInv, SocketTypes
    <3> DEFINE base == IF conn[cur] = "in" THEN joined[cur] ELSE {OwnChannel}
    <3>2. OwnChannel \in base
      BY <3>1, BaseHasOwn
    <3>3. Drained(cur)' = AfterReading(base, out[cur] \o <<Frame("unsubscribe", c)>>)
      BY <1>1, <2>1, <2>3 DEF Drained, AfterReading
    <3>4. AfterReading(base, out[cur]) = Wanted
      BY <2>3 DEF SocketInv, Sync, Drained
    <3> HIDE DEF base
    <3>5. AfterReading(base, out[cur] \o <<Frame("unsubscribe", c)>>)
            = AfterReading(base, out[cur]) \ ({c} \ {OwnChannel})
      BY <3>1, <3>2, ReadsUnsubscribe
    <3> QED BY <2>2, <3>3, <3>4, <3>5
  <2> QED BY <1>1, <1>2, <1>3, <2>1, <2>3, ScreenKeeps
<1>5. CASE ~ (want[c] <= 1)
  <2>1. UNCHANGED out
    BY <1>1, <1>5
  <2>2. \A d \in Channels : want'[d] > 0 <=> want[d] > 0
    <3>1. want[c] > 0 /\ want'[c] > 0
      BY <1>3, <1>5
    <3> QED BY <1>3, <3>1
  <2>3. Wanted' = Wanted /\ Drained(cur)' = Drained(cur)
    BY <1>1, <2>1, <2>2 DEF Wanted, Drained, AfterReading
  <2>4. out' \in [Socks -> Seq(Frames)]
    BY <2>1 DEF SocketInv, SocketTypes
  <2> QED BY <1>1, <1>2, <1>3, <2>1, <2>3, <2>4, ScreenKeeps DEF SocketInv, Sync
<1> QED BY <1>4, <1>5

-----------------------------------------------------------------------------
(* The hub *)

LEMMA HubAddKeeps ==
  ASSUME SocketInv, NEW s \in Socks, HubAdd(s)
  PROVE  SocketInv'
<1>1. /\ phase[s] = "open" /\ conn[s] = "none"
      /\ conn' = [conn EXCEPT ![s] = "in"]
      /\ hubSubs' = [hubSubs EXCEPT ![OwnChannel] = hubSubs[OwnChannel] \cup {s}]
      /\ joined' = [joined EXCEPT ![s] = {OwnChannel}]
      /\ UNCHANGED <<app, cur, isOpen, awaiting, want, phase, out>>
  BY DEF HubAdd, client, screens
<1>2. /\ conn \in [Socks -> {"none", "in", "gone"}] /\ OwnChannel \in HubChannels
      /\ joined \in [Socks -> SUBSET HubChannels] /\ hubSubs \in [HubChannels -> SUBSET Socks]
  BY DEF SocketInv, SocketTypes, HubChannels
<1>3. /\ conn' \in [Socks -> {"none", "in", "gone"}] /\ conn'[s] = "in"
      /\ \A t \in Socks \ {s} : conn'[t] = conn[t]
  BY <1>1, <1>2
<1>4. /\ joined' \in [Socks -> SUBSET HubChannels] /\ joined'[s] = {OwnChannel}
      /\ \A t \in Socks \ {s} : joined'[t] = joined[t]
  BY <1>1, <1>2
<1>5. /\ hubSubs' \in [HubChannels -> SUBSET Socks] /\ hubSubs'[OwnChannel] = hubSubs[OwnChannel] \cup {s}
      /\ \A c \in HubChannels \ {OwnChannel} : hubSubs'[c] = hubSubs[c]
  BY <1>1, <1>2
<1>6. SocketTypes' /\ SocketLife' /\ OpenIsKnown'
  BY <1>1, <1>3, <1>4, <1>5 DEF SocketInv, SocketTypes, SocketLife, OpenIsKnown, IsLive
<1>7. HubTablesAgree'
  <2>1. joined[s] = {}
    BY <1>1 DEF SocketInv, HubTablesAgree
  <2>2. ASSUME NEW t \in Socks, NEW c \in HubChannels PROVE t \in hubSubs'[c] <=> c \in joined'[t]
    <3>1. t \in hubSubs[c] <=> c \in joined[t]
      BY DEF SocketInv, HubTablesAgree
    <3> QED BY <1>2, <1>4, <1>5, <2>1, <3>1
  <2>3. \A t \in Socks : conn'[t] # "in" => joined'[t] = {}
    BY <1>3, <1>4 DEF SocketInv, HubTablesAgree
  <2> QED BY <2>2, <2>3 DEF HubTablesAgree
<1>8. Sync'
  <2>1. CASE cur = s
    <3>1. Drained(cur)' = Drained(cur)
      BY <1>1, <1>3, <1>4, <2>1 DEF Drained, AfterReading
    <3> QED BY <1>1, <3>1 DEF SocketInv, Sync, Wanted, IsLive
  <2>2. CASE cur # s
    <3>1. IsLive(cur) => cur \in Socks \ {s}
      BY <2>2, CurIsSock DEF SocketInv
    <3>2. IsLive(cur)' => IsLive(cur)
      BY <1>1 DEF IsLive
    <3> QED BY <1>1, <1>3, <1>4, <3>1, <3>2, SyncKept DEF SocketInv
  <2> QED BY <2>1, <2>2
<1> QED BY <1>6, <1>7, <1>8 DEF SocketInv

LEMMA ReadFrameKeeps ==
  ASSUME SocketInv, NEW s \in Socks, ReadFrame(s)
  PROVE  SocketInv'
<1> DEFINE now == Joins(joined[s], Head(out[s]))
<1>1. /\ conn[s] = "in" /\ out[s] # <<>>
      /\ joined' = [joined EXCEPT ![s] = now]
      /\ hubSubs' = [c \in HubChannels |-> IF c \in joined'[s] THEN hubSubs[c] \cup {s} ELSE hubSubs[c] \ {s}]
      /\ out' = [out EXCEPT ![s] = Tail(out[s])]
      /\ UNCHANGED <<app, cur, isOpen, awaiting, want, phase, conn>>
  BY DEF ReadFrame, client, screens
<1>2. /\ out \in [Socks -> Seq(Frames)] /\ OwnChannel \in joined[s]
      /\ joined \in [Socks -> SUBSET HubChannels] /\ hubSubs \in [HubChannels -> SUBSET Socks]
  BY <1>1 DEF SocketInv, SocketTypes, SocketLife
<1>3. Head(out[s]) \in Frames /\ Tail(out[s]) \in Seq(Frames)
  BY <1>1, <1>2
<1>4. now \subseteq HubChannels /\ OwnChannel \in now
  BY <1>2, <1>3 DEF Joins, Frames, HubChannels
<1>5. Drained(s) = AfterReading(now, Tail(out[s]))
  <2>1. out[s] \in Seq(Frames)
    BY <1>2
  <2>2. AfterReading(now, Tail(out[s])) = AfterReading(joined[s], out[s])
    BY <1>1, <1>2, <2>1, ReadsInOrder
  <2> QED BY <1>1, <2>2 DEF Drained
<1> HIDE DEF now
<1>6. /\ joined' \in [Socks -> SUBSET HubChannels] /\ joined'[s] = now
      /\ \A t \in Socks \ {s} : joined'[t] = joined[t]
  BY <1>1, <1>2, <1>4
<1>7. /\ out' \in [Socks -> Seq(Frames)] /\ out'[s] = Tail(out[s])
      /\ \A t \in Socks \ {s} : out'[t] = out[t]
  BY <1>1, <1>2, <1>3
<1>8. /\ hubSubs' \in [HubChannels -> SUBSET Socks]
      /\ \A c \in HubChannels : s \in hubSubs'[c] <=> c \in now
      /\ \A c \in HubChannels, t \in Socks \ {s} : t \in hubSubs'[c] <=> t \in hubSubs[c]
  BY <1>1, <1>2, <1>6
<1>9. phase[s] \in {"open", "closing"}
  <2>1. phase[s] \in Phases
    BY DEF SocketInv, SocketTypes
  <2> QED BY <1>1, <2>1 DEF Phases, SocketInv, SocketLife
<1>10. SocketTypes' /\ SocketLife' /\ OpenIsKnown'
  <2>1. SocketTypes'
    BY <1>1, <1>6, <1>7, <1>8 DEF SocketInv, SocketTypes
  <2>2. SocketLife'
    BY <1>1, <1>4, <1>6, <1>7, <1>9 DEF SocketInv, SocketLife
  <2> QED BY <1>1, <2>1, <2>2 DEF SocketInv, OpenIsKnown, IsLive
<1>11. HubTablesAgree'
  <2>1. ASSUME NEW t \in Socks, NEW c \in HubChannels PROVE t \in hubSubs'[c] <=> c \in joined'[t]
    <3>1. t \in hubSubs[c] <=> c \in joined[t]
      BY DEF SocketInv, HubTablesAgree
    <3> QED BY <1>6, <1>8, <3>1
  <2>2. \A t \in Socks : conn[t] # "in" => joined'[t] = {}
    BY <1>1, <1>6 DEF SocketInv, HubTablesAgree
  <2> QED BY <1>1, <2>1, <2>2 DEF HubTablesAgree
<1>12. Sync'
  <2>1. CASE cur = s
    <3>1. Drained(s)' = AfterReading(now, Tail(out[s]))
      BY <1>1, <1>6, <1>7 DEF Drained, AfterReading
    <3> QED BY <1>1, <1>5, <2>1, <3>1 DEF SocketInv, Sync, Wanted, IsLive
  <2>2. CASE cur # s
    <3>1. IsLive(cur) => cur \in Socks \ {s}
      BY <2>2, CurIsSock DEF SocketInv
    <3>2. IsLive(cur)' => IsLive(cur)
      BY <1>1 DEF IsLive
    <3> QED BY <1>1, <1>6, <1>7, <3>1, <3>2, SyncKept DEF SocketInv
  <2> QED BY <2>1, <2>2
<1> QED BY <1>10, <1>11, <1>12 DEF SocketInv

LEMMA HubRemoveKeeps ==
  ASSUME SocketInv, NEW s \in Socks, HubRemove(s)
  PROVE  SocketInv'
<1>1. /\ conn[s] = "in" /\ phase[s] \in {"closing", "closed"}
      /\ conn' = [conn EXCEPT ![s] = IF phase[s] = "closed" THEN "none" ELSE "gone"]
      /\ phase' = [phase EXCEPT ![s] = IF phase[s] = "closed" THEN "none" ELSE phase[s]]
      /\ hubSubs' = [c \in HubChannels |-> IF c \in joined[s] THEN hubSubs[c] \ {s} ELSE hubSubs[c]]
      /\ joined' = [joined EXCEPT ![s] = {}]
      /\ UNCHANGED <<app, cur, isOpen, awaiting, want, out>>
  BY DEF HubRemove, client, screens
<1>2. /\ phase \in [Socks -> Phases] /\ conn \in [Socks -> {"none", "in", "gone"}]
      /\ joined \in [Socks -> SUBSET HubChannels] /\ hubSubs \in [HubChannels -> SUBSET Socks]
  BY DEF SocketInv, SocketTypes
<1>3. /\ conn' \in [Socks -> {"none", "in", "gone"}]
      /\ conn'[s] = IF phase[s] = "closed" THEN "none" ELSE "gone"
      /\ \A t \in Socks \ {s} : conn'[t] = conn[t]
  BY <1>1, <1>2
<1>4. /\ phase' \in [Socks -> Phases]
      /\ phase'[s] = IF phase[s] = "closed" THEN "none" ELSE phase[s]
      /\ \A t \in Socks \ {s} : phase'[t] = phase[t]
  BY <1>1, <1>2 DEF Phases
<1>5. /\ joined' \in [Socks -> SUBSET HubChannels] /\ joined'[s] = {}
      /\ \A t \in Socks \ {s} : joined'[t] = joined[t]
  BY <1>1, <1>2
<1>6. /\ hubSubs' \in [HubChannels -> SUBSET Socks]
      /\ \A c \in HubChannels, t \in Socks \ {s} : t \in hubSubs'[c] <=> t \in hubSubs[c]
      /\ \A c \in HubChannels : s \notin hubSubs'[c] \/ (s \in hubSubs[c] /\ c \notin joined[s])
  BY <1>1, <1>2
<1>7. SocketTypes'
  BY <1>1, <1>3, <1>4, <1>5, <1>6 DEF SocketInv, SocketTypes
<1>8. SocketLife'
  <2>1. ASSUME NEW t \in Socks
        PROVE  /\ phase'[t] \in {"none", "connecting"} => conn'[t] = "none" /\ out[t] = <<>>
               /\ phase'[t] = "closed" => conn'[t] = "in" /\ out[t] = <<>>
               /\ phase'[t] = "open" => conn'[t] # "gone"
               /\ conn'[t] = "in" => OwnChannel \in joined'[t]
    <3>1. CASE t = s
      BY <1>1, <1>3, <1>4, <3>1 DEF SocketInv, SocketLife
    <3>2. CASE t # s
      BY <1>3, <1>4, <1>5, <3>2 DEF SocketInv, SocketLife
    <3> QED BY <3>1, <3>2
  <2> QED BY <1>1, <2>1 DEF SocketLife
<1>9. HubTablesAgree'
  <2>1. ASSUME NEW t \in Socks, NEW c \in HubChannels PROVE t \in hubSubs'[c] <=> c \in joined'[t]
    <3>1. t \in hubSubs[c] <=> c \in joined[t]
      BY DEF SocketInv, HubTablesAgree
    <3>2. CASE t = s
      BY <1>5, <1>6, <3>1, <3>2
    <3>3. CASE t # s
      BY <1>5, <1>6, <3>1, <3>3
    <3> QED BY <3>2, <3>3
  <2>2. \A t \in Socks : conn'[t] # "in" => joined'[t] = {}
    BY <1>3, <1>5 DEF SocketInv, HubTablesAgree
  <2> QED BY <2>1, <2>2 DEF HubTablesAgree
<1>10. \A t : phase'[t] = "open" /\ t \in Socks => phase[t] = "open" /\ t # s
  BY <1>1, <1>4
<1>11. IsLive(cur)' => IsLive(cur) /\ cur \in Socks \ {s}
  <2>1. cur \in Socks \cup {NoSock}
    BY DEF SocketInv, SocketTypes
  <2> QED BY <1>1, <1>10, <2>1 DEF IsLive
<1>12. Sync'
  <2> SUFFICES ASSUME IsLive(cur)' PROVE Sync'
    BY DEF Sync
  <2> QED BY <1>1, <1>3, <1>5, <1>11, SyncKept DEF SocketInv
<1>13. OpenIsKnown'
  BY <1>1, <1>11 DEF SocketInv, OpenIsKnown
<1> QED BY <1>7, <1>8, <1>9, <1>12, <1>13 DEF SocketInv
-----------------------------------------------------------------------------
LEMMA SocketStep == SocketInv /\ [SocketNext]_socketVars => SocketInv'
<1> SUFFICES ASSUME SocketInv, [SocketNext]_socketVars PROVE SocketInv'
  OBVIOUS
<1>1. CASE TokenArrives
  BY <1>1, TokenArrivesKeeps
<1>2. CASE TokenIsNull \/ TimerFires \/ StartSocket
  <2>1. UNCHANGED <<app, cur, isOpen, want, phase, out, conn, hubSubs, joined>>
    BY <1>2 DEF TokenIsNull, TimerFires, StartSocket, screens, hub
  <2>2. awaiting' \in Nat
    <3>1. CASE TokenIsNull
      BY <3>1 DEF TokenIsNull, SocketInv, SocketTypes
    <3>2. CASE TimerFires
      BY <3>2, ConnectingType DEF TimerFires, SocketInv
    <3>3. CASE StartSocket
      BY <3>3, ConnectingType DEF StartSocket, SocketInv
    <3> QED BY <1>2, <3>1, <3>2, <3>3
  <2> QED BY <2>1, <2>2, QuietKeeps
<1>3. CASE StopSocket
  BY <1>3, StopKeeps
<1>4. ASSUME NEW s \in Socks, Opened(s) \/ Closed(s) \/ HubAdd(s) \/ ReadFrame(s) \/ HubRemove(s) \/ Dropped(s)
      PROVE  SocketInv'
  BY <1>4, OpenedKeeps, ClosedKeeps, HubAddKeeps, ReadFrameKeeps, HubRemoveKeeps, DroppedKeeps
<1>5. ASSUME NEW c \in Channels, Mount(c) \/ Unmount(c) PROVE SocketInv'
  BY <1>5, MountKeeps, UnmountKeeps
<1>6. CASE UNCHANGED socketVars
  <2>1. UNCHANGED <<app, cur, isOpen, want, phase, out, conn, hubSubs, joined, awaiting>>
    BY <1>6 DEF socketVars, client, screens, hub
  <2> QED BY <2>1, QuietKeeps DEF SocketInv, SocketTypes
<1> QED BY <1>1, <1>2, <1>3, <1>4, <1>5, <1>6 DEF SocketNext, Progress

THEOREM SocketInvariance == SocketSpec => []SocketInv
<1> QED BY SocketInitial, SocketStep, PTL DEF SocketSpec

(* The hub's two tables are one relation (hub.go Add, Remove, subscribe and   *)
(* unsubscribe), and the client's open socket is, or will be when the hub has *)
(* read its frames, subscribed to just what its screens ask for (ws.ts onopen *)
(* and add/removeSubscription), whatever older sockets do meanwhile.          *)
THEOREM CurrentSocketServes == SocketSpec => []CurrentSocketInSync
<1>1. SocketInv => CurrentSocketInSync
  BY DEF SocketInv, Sync, Wanted, CurrentSocketInSync
<1> QED BY <1>1, SocketInvariance, PTL

(* Of the steps that leave a signed-in client without a socket, only a null   *)
(* token leaves it without a pending connect or timer as well (ws.ts connect, *)
(* onclose).                                                                  *)
THEOREM OnlyTokenLeavesIdle == SocketSpec => IdleOnlyWithoutToken
<1>1. SocketTypes /\ [SocketNext]_socketVars => [Idle' => Idle \/ TokenIsNull]_socketVars
  <2> SUFFICES ASSUME SocketTypes, SocketNext, Idle' PROVE Idle \/ TokenIsNull
    OBVIOUS
  <2>1. /\ shouldRun' /\ cur' = NoSock /\ awaiting' = 0 /\ ~ timer' /\ stray' = 0
    BY DEF Idle
  <2>2. ~ TokenArrives
    <3>1. ASSUME TokenArrives PROVE FALSE
      <4>1. CASE app = "mobile" /\ ~ shouldRun
        BY <2>1, <3>1, <4>1 DEF TokenArrives
      <4>2. CASE ~ (app = "mobile" /\ ~ shouldRun)
        <5>1. cur' \in Socks
          BY <3>1, <4>2 DEF TokenArrives
        <5> QED BY <2>1, <5>1, NoSockIsNone
      <4> QED BY <4>1, <4>2
    <3> QED BY <3>1
  <2>3. ~ TimerFires
    BY <2>1, ConnectingType DEF TimerFires
  <2>4. ~ StartSocket
    BY <2>1, ConnectingType DEF StartSocket
  <2>5. ~ StopSocket
    BY <2>1 DEF StopSocket
  <2>6. ASSUME NEW s \in Socks, Closed(s) PROVE FALSE
    BY <2>1, <2>6 DEF Closed
  <2>7. ASSUME NEW c \in Channels, Mount(c) PROVE Idle
    <3>1. UNCHANGED <<shouldRun, cur, timer, stray>>
      BY <2>7 DEF Mount
    <3>2. app # "mobile" => awaiting' = awaiting
      BY <2>7 DEF Mount
    <3>3. app = "mobile" => awaiting' # 0
      BY <2>1, <2>7, <3>1, ConnectingType DEF Mount
    <3> QED BY <2>1, <3>1, <3>2, <3>3 DEF Idle
  <2>8. CASE \/ \E s \in Socks : Opened(s) \/ HubAdd(s) \/ ReadFrame(s) \/ HubRemove(s) \/ Dropped(s)
             \/ \E c \in Channels : Unmount(c)
    <3>1. UNCHANGED <<shouldRun, cur, awaiting, timer, stray>>
      BY <2>8 DEF Opened, HubAdd, ReadFrame, HubRemove, Dropped, Unmount, client
    <3> QED BY <2>1, <3>1 DEF Idle
  <2> QED BY <2>2, <2>3, <2>4, <2>5, <2>6, <2>7, <2>8 DEF SocketNext, Progress
<1>2. SocketInv => SocketTypes
  BY DEF SocketInv
<1> QED BY <1>1, <1>2, SocketInvariance, PTL DEF SocketSpec, IdleOnlyWithoutToken

===============================================================================
