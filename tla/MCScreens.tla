----------------------------- MODULE MCScreens ------------------------------
(* The user's own profile, somebody else's and one picture, of one or two    *)
(* bytes, in a cache of two that may die once; a thread of two messages      *)
(* that grows by two, in pages of one; three presses of a toggle;            *)
(* lists of up to three rows in pages of one; a session of four turns:       *)
(* sign-ins, sign-outs, warps, restarts; texts of five characters, cut at    *)
(* three; two calls of a search in flight and one change of the              *)
(* reservations; bets of up to ten dollars; two authors with up to two       *)
(* stories each, and two attempts to send one; a free name and a short one   *)
(* that may be reserved, with one event outside the form; two pages that     *)
(* queue two updates with two tokens; a market with one price or none and    *)
(* three events.                                                             *)
EXTENDS Screens, TLC

MCJson == {"own", "other"}
MCMedia == {"photo"}
MCOwn == {"own"}
MCSizes == 1 .. 2
MCScores == 1 .. 2

MCAmounts == {0, 100, 500, 1000}
MCSlides == {1, 50, 60, 99}
MCLimits == {0, 50, 150}

MCNames == {"bob", "dave"}
MCShort == {"bob"}
MCVisitors == {"u", "v"}

MCAskPrices == {40}
=============================================================================
