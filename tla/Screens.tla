------------------------------ MODULE Screens -------------------------------
(* The screens of the clients, the mobile disk cache under them and the      *)
(* demo's page, one per behaviour: what they have in common is that answers, *)
(* events, timers and presses cross, that none shares state with another,    *)
(* and that the user may stop at any point.                                  *)
EXTENDS RotatingCache, Conversation, Toggles, Paging, Session, Mentions, Lookup, Attachment,
        Stories, ProfileForm, DemoBidder, LiveMarket

VARIABLE screen     \* the screen of this behaviour

screenVars == <<screen, cacheVars, threadVars, toggleVars, pagingVars, sessionVars, mentionVars,
                lookupVars, attachmentVars, storyVars, profileVars, demoVars, liveVars>>

Caching == "caching"
Talking == "talking"
Toggling == "toggling"
Listing == "listing"
SigningIn == "signing in"
Mentioning == "mentioning"
Searching == "searching"
Betting == "betting"
Watch == "watching stories"
Naming == "editing the profile"
Queueing == "queueing updates"
Trading == "watching a market"

(* The other screens stay at one of their initial states. *)
OnOrAt(name, start) == screen = name \/ start

Init ==
  /\ screen \in {Caching, Talking, Toggling, Listing, SigningIn, Mentioning, Searching, Betting,
                 Watch, Naming, Queueing, Trading}
  /\ CacheInit
  /\ ConversationInit /\ OnOrAt(Talking, client = "mobile" /\ list = <<>> /\ history = <<>>)
  /\ TogglesInit /\ OnOrAt(Toggling, toggle = MobilePostLike /\ truth.on = FALSE)
  /\ PagingInit /\ OnOrAt(Listing, surface = "newest" /\ order = <<>>)
  /\ SessionInit /\ OnOrAt(SigningIn, app = "mobile")
  /\ MentionsInit /\ OnOrAt(Mentioning, field = "mobile")
  /\ LookupInit /\ OnOrAt(Searching, box = MobileAttach)
  /\ AttachmentInit /\ OnOrAt(Betting, editing = "mobile")
  /\ StoriesInit /\ OnOrAt(Watch, viewing = "mobile" /\ Rail = <<>>)
  /\ ProfileInit /\ OnOrAt(Naming, /\ form = Settings /\ ~recent /\ row.bio = Empty
                             /\ \A n \in Names : reservation[n] = "none")
  /\ DemoInit /\ OnOrAt(Queueing, granted = 0)
  /\ LiveInit /\ OnOrAt(Trading, view = MobileCard /\ ~opened /\ chain.ask = NoAsk)

(* Of all screens at most the one named moves. *)
RestUnless(name, vars) == IF screen = name THEN TRUE ELSE UNCHANGED vars
OnlyOn(name) ==
  /\ screen = name /\ UNCHANGED screen
  /\ RestUnless(Caching, cacheVars) /\ RestUnless(Talking, threadVars)
  /\ RestUnless(Toggling, toggleVars) /\ RestUnless(Listing, pagingVars)
  /\ RestUnless(SigningIn, sessionVars) /\ RestUnless(Mentioning, mentionVars)
  /\ RestUnless(Searching, lookupVars) /\ RestUnless(Betting, attachmentVars)
  /\ RestUnless(Watch, storyVars) /\ RestUnless(Naming, profileVars)
  /\ RestUnless(Queueing, demoVars) /\ RestUnless(Trading, liveVars)

Next ==
  \/ OnlyOn(Caching) /\ CacheNext
  \/ OnlyOn(Talking) /\ ConversationNext
  \/ OnlyOn(Toggling) /\ TogglesNext
  \/ OnlyOn(Listing) /\ PagingNext
  \/ OnlyOn(SigningIn) /\ SessionNext
  \/ OnlyOn(Mentioning) /\ MentionsNext
  \/ OnlyOn(Searching) /\ LookupNext
  \/ OnlyOn(Betting) /\ AttachmentNext
  \/ OnlyOn(Watch) /\ StoriesNext
  \/ OnlyOn(Naming) /\ ProfileNext
  \/ OnlyOn(Queueing) /\ DemoNext
  \/ OnlyOn(Trading) /\ LiveNext

Spec == Init /\ [][Next]_screenVars
=============================================================================
