------------------------------ MODULE Session -------------------------------
(* Who the app is: the account signed in with Privy, the user an admin has   *)
(* warped into (a header on every request), the profile /v1/me gave and the  *)
(* screens show, and the account the device's push token is stored for.      *)
(*                                                                           *)
(* A request takes its token, then its header, is handled, and is answered;  *)
(* nothing looks at who is signed in by then.                                *)
EXTENDS Naturals, FiniteSets

CONSTANTS
  MaxTurns,       \* bound: sign-ins, sign-outs, warps and restarts
  MaxRequests     \* bound: calls under way

ASSUME SessionAssumption == MaxTurns \in Nat /\ MaxRequests \in Nat \ {0}

VARIABLES
  app,         \* "mobile" or "web"
  account,     \* the account signed in
  target,      \* who it has warped into, in memory
  disk,        \* and in storage
  hydrated,    \* storage has been read
  me,          \* the profile on screen
  status,      \* "loading", "ready" or "error" (mobile)
  calls,    \* [tag, kind, phase, token, who, stale, again]
  switching,   \* enter or exit has not refetched yet
  device,      \* [owner, stored, for]: push_tokens row, TOKEN_KEY, registeredFor
  leaving,     \* logout: "no", "hook", "delete", "signout"
  turns,
  astray,      \* history: what is on screen came from a request older than the
               \* last change of identity, or a later one failed
  leaked       \* history: the token outlived the account, see SessionSound

sessionVars ==
  <<app, account, target, disk, hydrated, me, status, calls, switching, device, leaving,
    turns, astray, leaked>>

None == "none"
Admin == "admin"
Member == "member"
Viewed == "viewed"

(* WarpMiddleware: who a request acts as, None when it is refused.           *)
Acts(token, header) ==
  IF header = None THEN token ELSE IF token = Admin THEN header ELSE None

(* Read-only while warped. *)
MayChange(token, header) == token # None /\ header = None

FreeTag(running) ==
  CHOOSE t \in 1 .. MaxRequests + 2 : \A r \in running : r.tag # t

Asking(running, kind, token) ==
  running \cup {[tag |-> FreeTag(running), kind |-> kind, phase |-> "asked", token |-> token,
                 who |-> None, stale |-> FALSE, again |-> FALSE]}

Fits(running) == Cardinality(running) <= MaxRequests

(* A change of account leaves every request behind, one of the target those  *)
(* that have their header.                                                   *)
Outdated(running, phases) ==
  {[r EXCEPT !.stale = @ \/ r.phase \in phases] : r \in running}

Unregistered == [owner |-> None, stored |-> FALSE, for |-> None]

SessionInit ==
  /\ app \in {"mobile", "web"} /\ account = None
  /\ disk = None /\ target = None /\ hydrated = TRUE
  /\ me = None /\ status = "ready" /\ calls = {} /\ switching = FALSE
  /\ device = Unregistered /\ leaving = "no" /\ turns = 0
  /\ astray = FALSE /\ leaked = FALSE

Turn == turns < MaxTurns /\ turns' = turns + 1

-----------------------------------------------------------------------------
(* PushSync's effect runs whenever the account or the profile changes.       *)
Registers(who, shown) ==
  app = "mobile" /\ who # None /\ shown # None /\ device.for # shown

(* The screen becomes `shown`, the calls `running` and what the effect       *)
(* adds to them.                                                             *)
Show(who, shown, running) ==
  /\ me' = shown
  /\ device' = [device EXCEPT !.for = IF who = None THEN None
                                      ELSE IF Registers(who, shown) THEN shown ELSE @]
  /\ calls' = IF Registers(who, shown) THEN Asking(running, "push", None) ELSE running
  /\ Fits(calls')

(* load: the screen stays ready only over a profile. *)
LoadStatus(shown) ==
  IF app = "mobile" /\ status = "ready" /\ shown # None THEN "ready" ELSE "loading"

SignIn(who) ==
  /\ account = None /\ leaving = "no" /\ Turn /\ account' = who
  /\ status' = LoadStatus(me)
  /\ Show(who, me, Asking(Outdated(calls, {"asked", "sent", "handled"}), "me", who))
  /\ UNCHANGED <<app, target, disk, hydrated, switching, leaving, astray, leaked>>

(* refresh, and on mobile every return to the foreground.  A web refresh     *)
(* does not show the spinner.                                                *)
Refresh ==
  /\ account # None
  /\ calls' = Asking(calls, "me", account) /\ Fits(calls')
  /\ status' = IF app = "mobile" THEN LoadStatus(me) ELSE status
  /\ UNCHANGED <<app, account, target, disk, hydrated, me, switching, device, leaving, turns,
                 astray, leaked>>

(* resolveWarpTargetId waits for the storage; push reads its token only now. *)
SendRequest(r) ==
  /\ r.phase = "asked" /\ hydrated
  /\ LET token == IF r.kind = "push" THEN account ELSE r.token IN
     calls' = (calls \ {r}) \cup
       {[r EXCEPT !.phase = "sent",
                  !.who = IF r.kind = "me" THEN Acts(token, target)
                          ELSE IF MayChange(token, target) THEN token ELSE None]}
  /\ UNCHANGED <<app, account, target, disk, hydrated, me, status, switching, device, leaving,
                 turns, astray, leaked>>

(* RegisterPushToken: a token has one owner, the last to register it.        *)
HandlePush(r) ==
  /\ r.kind = "push" /\ r.phase = "sent" /\ r.who # None
  /\ device' = [device EXCEPT !.owner = r.who]
  /\ calls' = (calls \ {r}) \cup {[r EXCEPT !.phase = "handled"]}
  /\ leaked' = (leaked \/ leaving # "no" \/ account # r.who)
  /\ UNCHANGED <<app, account, target, disk, hydrated, me, status, switching, leaving, turns,
                 astray>>

PushAnswered(r) ==
  /\ r.kind = "push" /\ r.phase = "handled"
  /\ device' = [device EXCEPT !.stored = TRUE] /\ calls' = calls \ {r}
  /\ UNCHANGED <<app, account, target, disk, hydrated, me, status, switching, leaving, turns,
                 astray, leaked>>

(* The profile is shown, whoever asked for it; the wallet goes to the        *)
(* backend when it has none, and is answered with a profile too.             *)
ProfileAnswered(r) ==
  /\ r.kind \in {"me", "wallet"} /\ r.phase = "sent" /\ r.who # None
  /\ \E wallet \in IF app = "mobile" /\ r.kind = "me" THEN BOOLEAN ELSE {FALSE} :
       Show(account, r.who, IF wallet THEN Asking(calls \ {r}, "wallet", account)
                                      ELSE calls \ {r})
  /\ status' = IF r.kind = "me" THEN "ready" ELSE status
  /\ astray' = r.stale
  /\ UNCHANGED <<app, account, target, disk, hydrated, switching, leaving, turns, leaked>>

(* The mobile screen keeps the profile it has. *)
MobileLoadFails(r) ==
  /\ app = "mobile" /\ r.kind = "me"
  /\ calls' = calls \ {r} /\ status' = "error" /\ astray' = TRUE
  /\ UNCHANGED <<app, account, target, disk, hydrated, me, switching, device, leaving, turns,
                 leaked>>

(* Storage may not take what is written. *)
Stored(what) == disk' \in {disk, what}

(* The web page drops a warp, whatever the failure was, and asks once more.  *)
WebLoadFails(r) ==
  /\ app = "web" /\ r.kind = "me"
  /\ IF target # None /\ ~ r.again
     THEN /\ target' = None /\ Stored(None)
          /\ calls' = Outdated(calls \ {r}, {"sent"}) \cup
               {[r EXCEPT !.phase = "asked", !.token = account, !.who = None, !.stale = FALSE,
                          !.again = TRUE]}
          /\ UNCHANGED <<me, status>>
     ELSE /\ me' = None /\ status' = "ready" /\ calls' = calls \ {r}
          /\ UNCHANGED <<target, disk>>
  /\ UNCHANGED <<app, account, hydrated, switching, device, leaving, turns, astray, leaked>>

(* The other calls fail in silence. *)
RequestFails(r) ==
  /\ r.kind \in {"push", "wallet"} /\ calls' = calls \ {r}
  /\ leaked' = (leaked \/ r.phase = "handled")
  /\ UNCHANGED <<app, account, target, disk, hydrated, me, status, switching, device, leaving,
                 turns, astray>>

-----------------------------------------------------------------------------
(* Warping: the target changes at once, its storage is awaited, then the     *)
(* cache is cleared and /v1/me is asked for.                                 *)
SwitchQuietly(to) ==
  /\ target' = to /\ Stored(to) /\ switching' = switching
  /\ calls' = Outdated(calls, {"sent"})
Switch(to) ==
  /\ target' = to /\ Stored(to) /\ switching' = TRUE
  /\ calls' = Outdated(calls, {"sent"})

EnterWarp ==
  /\ account # None /\ me = Admin /\ target = None /\ Turn /\ Switch(Viewed)
  /\ UNCHANGED <<app, account, hydrated, me, status, device, leaving, astray, leaked>>

ExitWarp ==
  /\ target # None /\ (app = "web" => account # None) /\ Turn /\ Switch(None)
  /\ UNCHANGED <<app, account, hydrated, me, status, device, leaving, astray, leaked>>

SwitchRefreshes ==
  /\ switching /\ switching' = FALSE
  /\ calls' = Asking(calls, "me", account) /\ Fits(calls')
  /\ status' = IF app = "mobile" THEN LoadStatus(me) ELSE status
  /\ UNCHANGED <<app, account, target, disk, hydrated, me, device, leaving, turns, astray, leaked>>

-----------------------------------------------------------------------------
(* Logging out: the hook deletes the push token while the session is good.   *)
Logout ==
  /\ account # None /\ leaving = "no" /\ Turn
  /\ leaving' = IF device.stored THEN "delete" ELSE "signout"
  /\ leaked' = (leaked \/ \E r \in calls : r.phase = "handled")
  /\ UNCHANGED <<app, account, target, disk, hydrated, me, status, calls, switching, device,
                 astray>>

(* Only the owner's row is deleted; TOKEN_KEY goes in any case.              *)
TokenDeleted ==
  /\ leaving = "delete" /\ leaving' = "signout"
  /\ \E arrives \in BOOLEAN :
       LET deleted == arrives /\ MayChange(account, target) /\ device.owner = account IN
       /\ device' = [device EXCEPT !.stored = FALSE, !.owner = IF deleted THEN None ELSE @]
       /\ leaked' = (leaked \/ ~ deleted)
  /\ UNCHANGED <<app, account, target, disk, hydrated, me, status, calls, switching, turns,
                 astray>>

(* The target stays. *)
SignedOut ==
  /\ leaving = "signout" /\ leaving' = "no"
  /\ account' = None /\ status' = "ready"
  /\ Show(None, None, Outdated(calls, {"asked", "sent", "handled"}))
  /\ UNCHANGED <<app, target, disk, hydrated, switching, turns, astray, leaked>>

(* The app is closed and opened: the account and the storage are still there.*)
Restart ==
  /\ Turn
  /\ hydrated' = (app = "web") /\ target' = IF app = "web" THEN disk ELSE None
  /\ me' = None /\ status' = IF account = None THEN "ready" ELSE "loading"
  /\ calls' = IF account = None THEN {} ELSE Asking({}, "me", account)
  /\ switching' = FALSE /\ leaving' = "no" /\ device' = [device EXCEPT !.for = None]
  /\ leaked' = (leaked \/ \E r \in calls : r.kind = "push")
  /\ astray' = FALSE
  /\ UNCHANGED <<app, account, disk>>

Hydrate ==
  /\ ~ hydrated /\ hydrated' = TRUE
  /\ target' = IF disk # None THEN disk ELSE target
  /\ UNCHANGED <<app, account, disk, me, status, calls, switching, device, leaving, turns,
                 astray, leaked>>

SessionNext ==
  \/ \E who \in {Admin, Member} : SignIn(who)
  \/ Refresh \/ EnterWarp \/ ExitWarp \/ SwitchRefreshes
  \/ \E r \in calls :
       \/ SendRequest(r) \/ HandlePush(r) \/ PushAnswered(r) \/ ProfileAnswered(r)
       \/ MobileLoadFails(r) \/ WebLoadFails(r) \/ RequestFails(r)
  \/ Logout \/ TokenDeleted \/ SignedOut \/ Restart \/ Hydrate

-----------------------------------------------------------------------------
Loading == \E r \in calls : r.kind = "me"

Underway == switching \/ \E r \in calls : r.kind # "push"

AtSplash == status = "loading" \/ (app = "mobile" /\ me = None /\ status = "ready")

(* The profile on screen is who the calls act as, once nothing is under      *)
(* way, through sign-ins, sign-outs and warps in any order; only an answer   *)
(* older than the last change, or on mobile a failed load, leaves another.   *)
(* Who is signed in is never left at the splash screen without a load.  And  *)
(* the device's token is stored for no account but the one signed in, unless *)
(* its deletion failed (as every mutation does in a warp) or its             *)
(* registration was cut off by the logout, a restart or a lost answer.       *)
SessionSound ==
  /\ ~ Underway /\ ~ astray => me \in {None, Acts(account, target)}
  /\ account # None /\ AtSplash => Loading
  /\ ~ leaked => device.owner \in {None, account}
=============================================================================
