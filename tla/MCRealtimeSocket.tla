-------------------------- MODULE MCRealtimeSocket --------------------------
(* Instances of RealtimeSocket: both clients, the channel of one market beside *)
(* the user's own.                                                           *)
EXTENDS RealtimeSocket

MCApps == {"mobile", "web"}
MCChannels == {"book"}
MCJoinable == {"user", "book"}
MCSocks == 1 .. 2

=============================================================================
