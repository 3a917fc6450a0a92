---------------------------- MODULE ScreensProofs -----------------------------
(***************************************************************************)
(* Of the screens of the clients and the demo's page, what holds however   *)
(* answers, events, timers and presses cross, for any number of them.      *)
(***************************************************************************)
EXTENDS Screens, TotalsProofs, TLAPS

-----------------------------------------------------------------------------
(* A step of the whole is one of each screen, or leaves it alone. *)

LEMMA OthersRest ==
  ASSUME NEW name, OnlyOn(name)
  PROVE  /\ name # Caching => UNCHANGED cacheVars
         /\ name # Toggling => UNCHANGED toggleVars
         /\ name # SigningIn => UNCHANGED sessionVars
         /\ name # Betting => UNCHANGED attachmentVars
         /\ name # Naming => UNCHANGED profileVars
         /\ name # Queueing => UNCHANGED demoVars
         /\ name # Trading => UNCHANGED liveVars
         /\ name # Mentioning => UNCHANGED mentionVars
BY DEF OnlyOn, RestUnless

LEMMA OneMoves ==
  ASSUME Next
  PROVE  /\ CacheNext \/ \E name : name # Caching /\ OnlyOn(name)
         /\ TogglesNext \/ \E name : name # Toggling /\ OnlyOn(name)
         /\ SessionNext \/ \E name : name # SigningIn /\ OnlyOn(name)
         /\ AttachmentNext \/ \E name : name # Betting /\ OnlyOn(name)
         /\ ProfileNext \/ \E name : name # Naming /\ OnlyOn(name)
         /\ DemoNext \/ \E name : name # Queueing /\ OnlyOn(name)
         /\ LiveNext \/ \E name : name # Trading /\ OnlyOn(name)
         /\ MentionsNext \/ \E name : name # Mentioning /\ OnlyOn(name)
<1>1. \/ OnlyOn(Caching) /\ CacheNext
      \/ OnlyOn(Toggling) /\ TogglesNext
      \/ OnlyOn(SigningIn) /\ SessionNext
      \/ OnlyOn(Betting) /\ AttachmentNext
      \/ OnlyOn(Naming) /\ ProfileNext
      \/ OnlyOn(Queueing) /\ DemoNext
      \/ OnlyOn(Trading) /\ LiveNext
      \/ OnlyOn(Mentioning) /\ MentionsNext
      \/ \E name \in {Searching, Watch, Talking, Listing} : OnlyOn(name)
  BY DEF Next
<1> QED
  BY <1>1 DEF Caching, Talking, Toggling, Listing, SigningIn, Mentioning, Searching, Betting,
              Watch, Naming, Queueing, Trading

LEMMA ScreenMoves ==
  [Next]_screenVars =>
         /\ [CacheNext]_cacheVars /\ [TogglesNext]_toggleVars /\ [SessionNext]_sessionVars
         /\ [AttachmentNext]_attachmentVars /\ [ProfileNext]_profileVars /\ [DemoNext]_demoVars
         /\ [LiveNext]_liveVars /\ [MentionsNext]_mentionVars
<1> SUFFICES ASSUME [Next]_screenVars
    PROVE  /\ [CacheNext]_cacheVars /\ [TogglesNext]_toggleVars /\ [SessionNext]_sessionVars
           /\ [AttachmentNext]_attachmentVars /\ [ProfileNext]_profileVars
           /\ [DemoNext]_demoVars /\ [LiveNext]_liveVars /\ [MentionsNext]_mentionVars
  OBVIOUS
<1>1. CASE UNCHANGED screenVars
  BY <1>1 DEF screenVars
<1>2. CASE Next
  BY <1>2, OneMoves, OthersRest
<1> QED BY <1>1, <1>2

-----------------------------------------------------------------------------
(* Toggles *)

Sides == [on : BOOLEAN, count : Int]
ToggleRequests == [press : Int, to : BOOLEAN, handled : BOOLEAN]
ToggleTypes ==
  /\ shown \in Sides /\ truth \in Sides /\ requests \subseteq ToggleRequests /\ presses \in Nat
  /\ started \in BOOLEAN /\ crossed \in BOOLEAN /\ (toggle.reads => started)

Unit(on) == IF on THEN 1 ELSE -1

(* Nothing crossed: at most one request is under way, and before it is       *)
(* handled the screen is that one turn ahead of the backend.                 *)
Ahead(r) ==
  /\ shown.on = r.to
  /\ r.handled => truth.on = r.to /\ (toggle.reads => shown.count = truth.count)
  /\ ~ r.handled /\ started =>
       /\ truth.on = ~ r.to
       /\ toggle.reads => shown.count = truth.count + Unit(r.to)

ToggleInv ==
  /\ ToggleTypes
  /\ ~ crossed => /\ \A r, q \in requests : r = q
                  /\ \A r \in requests : Ahead(r)
                  /\ ToggleAgrees

LEMMA TurnedIs ==
  ASSUME NEW state \in Sides, NEW on \in BOOLEAN
  PROVE  /\ Turned(state, on) \in Sides /\ Turned(state, on).on = on
         /\ state.on = on => Turned(state, on).count = state.count
         /\ state.on = ~ on => Turned(state, on).count = state.count + Unit(on)
<1>1. state.on \in BOOLEAN /\ state.count \in Int
  BY DEF Sides
<1>2. CASE state.on = on
  BY <1>1, <1>2 DEF Turned
<1>3. CASE state.on # on
  <2>1. Turned(state, on) = [on |-> on, count |-> state.count + Unit(on)]
    BY <1>3 DEF Turned, Unit
  <2>2. state.count + Unit(on) \in Int
    BY <1>1 DEF Unit
  <2> QED BY <1>1, <1>3, <2>1, <2>2 DEF Sides
<1> QED BY <1>2, <1>3

LEMMA ToggleInitial == TogglesInit => ToggleInv
<1> SUFFICES ASSUME TogglesInit PROVE ToggleInv
  OBVIOUS
<1>1. PICK on \in BOOLEAN :
        /\ truth = [on |-> on, count |-> IF on THEN 1 ELSE 0]
        /\ shown = [truth EXCEPT !.on = toggle.reads /\ on]
  BY DEF TogglesInit
<1>a. toggle.reads \in BOOLEAN
  <2> DEFINE Kinds == [guarded : BOOLEAN, reverts : BOOLEAN, reads : BOOLEAN]
  <2>2. AllToggles \subseteq Kinds
    BY DEF AllToggles, MobilePostLike, MobilePostReact, MobileCommentLike,
           MobileReelLike, MobileFollow, MobileSwitch, WebPostLike, WebPostReact, WebCommentLike,
           WebReelLike, WebFollow
  <2>1. toggle \in Kinds
    BY <2>2 DEF TogglesInit
  <2> QED BY <2>1
<1>2. /\ requests = {} /\ presses = 0 /\ started = toggle.reads /\ crossed = FALSE
      /\ toggle.reads \in BOOLEAN
  BY <1>a DEF TogglesInit
<1>3. /\ truth \in Sides /\ shown \in Sides /\ shown.count = truth.count
      /\ toggle.reads => shown.on = truth.on
  BY <1>1, <1>2 DEF Sides
<1> QED BY <1>2, <1>3 DEF ToggleInv, ToggleTypes, ToggleAgrees

LEMMA PressToggleKeeps == ASSUME ToggleInv, PressToggle PROVE ToggleInv'
<1>r. PICK r : r = [press |-> presses + 1, to |-> ~ shown.on, handled |-> FALSE]
  OBVIOUS
<1>1. /\ shown' = Turned(shown, ~ shown.on) /\ presses' = presses + 1
      /\ requests' = requests \cup {r}
      /\ crossed' = (crossed \/ (~ toggle.guarded /\ requests # {}))
      /\ toggle.guarded => requests = {}
      /\ UNCHANGED <<toggle, truth, started>>
  BY <1>r DEF PressToggle, MayPress
<1>2. /\ r \in ToggleRequests /\ r.to = ~ shown.on /\ ~ r.handled
      /\ shown \in Sides /\ shown.on \in BOOLEAN /\ r.to \in BOOLEAN
  BY <1>r DEF ToggleInv, ToggleTypes, ToggleRequests, Sides
<1>3. /\ shown' \in Sides /\ shown'.on = r.to
      /\ shown'.count = shown.count + Unit(r.to)
  BY <1>1, <1>2, TurnedIs
<1>4. ToggleTypes'
  BY <1>1, <1>2, <1>3 DEF ToggleInv, ToggleTypes
<1>5. ASSUME ~ crossed'
      PROVE  (\A p, q \in requests' : p = q) /\ (\A q \in requests' : Ahead(q)') /\ ToggleAgrees'
  <2>1. ~ crossed /\ requests = {} /\ requests' = {r} /\ ToggleAgrees
    BY <1>1, <1>5 DEF ToggleInv
  <2>2. started => shown.on = truth.on /\ (toggle.reads => shown.count = truth.count)
    BY <2>1 DEF ToggleAgrees
  <2>3. started => truth.on = ~ r.to
    BY <1>2, <2>2
  <2>4. started /\ toggle.reads => shown'.count = truth.count + Unit(r.to)
    BY <1>3, <2>2
  <2>5. Ahead(r)'
    BY <1>1, <1>2, <1>3, <2>3, <2>4 DEF Ahead
  <2> QED BY <2>1, <2>5 DEF ToggleAgrees
<1> QED BY <1>4, <1>5 DEF ToggleInv

LEMMA HandleToggleKeeps == ASSUME ToggleInv, NEW r \in requests, HandleToggle(r) PROVE ToggleInv'
<1> DEFINE done == [r EXCEPT !.handled = TRUE]
<1>1. /\ ~ r.handled /\ truth' = Turned(truth, r.to)
      /\ requests' = (requests \ {r}) \cup {done}
      /\ UNCHANGED <<toggle, shown, presses, started, crossed>>
  BY DEF HandleToggle
<1>2. r \in ToggleRequests /\ r.to \in BOOLEAN /\ truth \in Sides /\ truth.count \in Int
  BY DEF ToggleInv, ToggleTypes, ToggleRequests, Sides
<1>3. done \in ToggleRequests /\ done.to = r.to /\ done.handled
  BY <1>2 DEF ToggleRequests
<1> HIDE DEF done
<1>4. /\ truth' \in Sides /\ truth'.on = r.to
      /\ truth.on = ~ r.to => truth'.count = truth.count + Unit(r.to)
  BY <1>1, <1>2, TurnedIs
<1>5. ToggleTypes'
  BY <1>1, <1>3, <1>4 DEF ToggleInv, ToggleTypes
<1>6. ASSUME ~ crossed'
      PROVE  (\A p, q \in requests' : p = q) /\ (\A q \in requests' : Ahead(q)') /\ ToggleAgrees'
  <2>1. requests' = {done} /\ Ahead(r)
    BY <1>1, <1>6 DEF ToggleInv
  <2>2. shown.on = r.to
    BY <2>1 DEF Ahead
  <2>3. toggle.reads => truth.on = ~ r.to /\ shown.count = truth.count + Unit(r.to)
    BY <1>1, <2>1 DEF Ahead, ToggleInv, ToggleTypes
  <2>4. Ahead(done)'
    BY <1>1, <1>3, <1>4, <2>2, <2>3 DEF Ahead
  <2> QED BY <2>1, <2>4 DEF ToggleAgrees
<1> QED BY <1>5, <1>6 DEF ToggleInv

LEMMA ToggleAnsweredKeeps == ASSUME ToggleInv, NEW r \in requests, ToggleAnswered(r) PROVE ToggleInv'
<1>1. /\ r.handled /\ requests' = requests \ {r} /\ started' = TRUE
      /\ UNCHANGED <<toggle, shown, truth, presses, crossed>>
  BY DEF ToggleAnswered
<1>2. ToggleTypes'
  BY <1>1 DEF ToggleInv, ToggleTypes
<1>3. ASSUME ~ crossed'
      PROVE  (\A p, q \in requests' : p = q) /\ (\A q \in requests' : Ahead(q)') /\ ToggleAgrees'
  <2>1. requests' = {} /\ Ahead(r)
    BY <1>1, <1>3 DEF ToggleInv
  <2> QED BY <1>1, <2>1 DEF Ahead, ToggleAgrees
<1> QED BY <1>2, <1>3 DEF ToggleInv

LEMMA ToggleFailedKeeps == ASSUME ToggleInv, NEW r \in requests, ToggleFailed(r) PROVE ToggleInv'
<1>1. /\ requests' = requests \ {r} /\ shown' = Undone(shown, r)
      /\ crossed' = (crossed \/ r.handled \/ ~ toggle.reverts)
      /\ UNCHANGED <<toggle, truth, presses, started>>
  BY DEF ToggleFailed
<1>2. /\ r \in ToggleRequests /\ r.to \in BOOLEAN /\ r.handled \in BOOLEAN
      /\ shown \in Sides /\ shown.count \in Int /\ Unit(r.to) \in Int
  BY DEF ToggleInv, ToggleTypes, ToggleRequests, Sides, Unit
<1>3. shown' = IF toggle.reverts THEN [on |-> ~ r.to, count |-> shown.count - Unit(r.to)] ELSE shown
  BY <1>1 DEF Undone, Unit
<1>4. shown' \in Sides
  <2>1. shown.count - Unit(r.to) \in Int
    BY <1>2
  <2> QED BY <1>2, <1>3, <2>1 DEF Sides
<1>5. ToggleTypes'
  BY <1>1, <1>2, <1>4 DEF ToggleInv, ToggleTypes
<1>6. ASSUME ~ crossed'
      PROVE  (\A p, q \in requests' : p = q) /\ (\A q \in requests' : Ahead(q)') /\ ToggleAgrees'
  <2>1. requests' = {} /\ Ahead(r) /\ ~ r.handled /\ toggle.reverts
    BY <1>1, <1>6 DEF ToggleInv
  <2>2. started => truth.on = ~ r.to /\ (toggle.reads => shown.count = truth.count + Unit(r.to))
    BY <2>1 DEF Ahead
  <2>3. shown'.on = ~ r.to /\ shown'.count = shown.count - Unit(r.to)
    BY <1>3, <2>1
  <2>4. truth.count \in Int
    BY DEF ToggleInv, ToggleTypes, Sides
  <2>5. started /\ toggle.reads => shown'.count = truth.count
    BY <1>2, <2>2, <2>3, <2>4
  <2> QED BY <1>1, <2>1, <2>2, <2>3, <2>5 DEF ToggleAgrees
<1> QED BY <1>5, <1>6 DEF ToggleInv

LEMMA ToggleStep == ToggleInv /\ [TogglesNext]_toggleVars => ToggleInv'
<1> SUFFICES ASSUME ToggleInv, [TogglesNext]_toggleVars PROVE ToggleInv'
  OBVIOUS
<1>1. CASE UNCHANGED toggleVars
  BY <1>1 DEF toggleVars, ToggleInv, ToggleTypes, Ahead, ToggleAgrees
<1> QED BY <1>1, PressToggleKeeps, HandleToggleKeeps, ToggleAnsweredKeeps, ToggleFailedKeeps
        DEF TogglesNext

(* A toggle that nothing crossed is shown as the backend has it when no       *)
(* request is under way (mobile and web optimistic like, follow and react     *)
(* buttons; social.go Like, Follow, whose repetition changes nothing).        *)
THEOREM TogglesSettle == Spec => []ToggleAgrees
<1>1. Init => ToggleInv
  BY ToggleInitial DEF Init
<1>2. ToggleInv /\ [Next]_screenVars => ToggleInv'
  BY ScreenMoves, ToggleStep
<1>3. ToggleInv => ToggleAgrees
  BY DEF ToggleInv, ToggleAgrees
<1> QED BY <1>1, <1>2, <1>3, PTL DEF Spec

-----------------------------------------------------------------------------
(* The disk cache *)

Tiers == {"pinned", "normal", "media"}
CacheEntries == [n : Nat, json : BOOLEAN, bytes : Nat, tier : Tiers]
EntryTables == UNION {[D -> CacheEntries] : D \in SUBSET Keys}
Manifests == [entries : EntryTables, seq : Nat, total : Nat]
Payloads == [n : Nat, json : BOOLEAN, key : Keys]
Jobs == [key : Keys, bytes : Nat, tier : Tiers]
Writing == {"stale", "evict", "commit"}
InFile == manifestFile \notin {NoManifest, Torn}
InMirror == mirror # NoManifest

CacheTypes ==
  /\ mem \in Manifests /\ files \subseteq Payloads /\ reading \subseteq Payloads
  /\ manifestFile \in {NoManifest, Torn} \cup {Saved(m) : m \in Manifests}
  /\ mirror \in {NoManifest} \cup {Saved(m) : m \in Manifests}
  /\ pc \in Writing => job \in Jobs

(* The counter of a manifest, in memory or saved, is what its entries take,  *)
(* and none of their names is one it has yet to hand out.                    *)
Accounted(m) ==
  /\ IsFiniteSet(DOMAIN m.entries)
  /\ m.total = BytesOf(m.entries) /\ m.total <= Budget
  /\ \A k \in DOMAIN m.entries : m.entries[k].n <= m.seq

(* The mutation under way has no entry, and room when it commits.            *)
CacheAccounts ==
  /\ Accounted(mem)
  /\ InFile => Accounted(manifestFile.manifest)
  /\ InMirror => Accounted(mirror.manifest)
  /\ pc \in Writing => job.key \notin Entries
  /\ pc = "commit" => mem.total + job.bytes <= Budget

(* The payload under a name an entry of m has is its key's.                  *)
Owned(m) ==
  \A k \in DOMAIN m.entries, f \in files :
     f.n = m.entries[k].n /\ f.json = m.entries[k].json => f.key = k

(* The manifest a restart would load owns its names too: it handed out none  *)
(* that memory has not.  That is the file, or the mirror while there is no   *)
(* file; under a torn file the mirror is never read.                         *)
CacheNames ==
  /\ Owned(mem)
  /\ InFile => Owned(manifestFile.manifest) /\ (Ready => manifestFile.manifest.seq <= mem.seq)
  /\ manifestFile = NoManifest /\ InMirror =>
       Owned(mirror.manifest) /\ (Ready => mirror.manifest.seq <= mem.seq)
  /\ pc = "commit" =>
       \A f \in files : f.n = mem.seq /\ f.json = (job.tier # "media") => f.key = job.key
  /\ pc = "reset2" => manifestFile = NoManifest
  /\ ~ Ready => reading = {}
  /\ \A r \in reading :
       r.n <= mem.seq /\ \A f \in files : f.n = r.n /\ f.json = r.json => f.key = r.key

CacheInv == CacheTypes /\ CacheAccounts /\ CacheNames

LEMMA BytesAre ==
  ASSUME NEW t \in EntryTables
  PROVE  [k \in DOMAIN t |-> t[k].bytes] \in [DOMAIN t -> Nat]
BY DEF EntryTables, CacheEntries

LEMMA EmptyIsFine == EmptyManifest \in Manifests /\ Accounted(EmptyManifest) /\ Owned(EmptyManifest)
                     /\ DOMAIN EmptyManifest.entries = {}
<1> DEFINE t == [k \in {} |-> {}]
<1>1. t \in [{} -> CacheEntries] /\ DOMAIN t = {}
  OBVIOUS
<1>2. t \in EntryTables
  BY <1>1 DEF EntryTables
<1>3. EmptyManifest = [entries |-> t, seq |-> 0, total |-> 0]
  BY DEF EmptyManifest
<1> HIDE DEF t
<1>4. BytesOf(t) = 0
  <2> DEFINE g == [k \in DOMAIN t |-> t[k].bytes]
  <2>1. g \in [{} -> Nat]
    BY <1>1
  <2> HIDE DEF g
  <2>2. Total(g) = 0 <=> \A x \in {} : g[x] = 0
    BY <2>1, TotalZero, FS_EmptySet
  <2> QED BY <2>2 DEF BytesOf, g
<1>5. IsFiniteSet({})
  BY FS_EmptySet
<1>6. 0 <= Budget
  BY CacheAssumption
<1> QED BY <1>1, <1>2, <1>3, <1>4, <1>5, <1>6 DEF Manifests, Accounted, Owned

(* Taking entries out frees what they took, no more.                         *)
LEMMA WithoutKeeps ==
  ASSUME NEW m \in Manifests, Accounted(m), NEW K
  PROVE  /\ Without(m, K) \in Manifests /\ Accounted(Without(m, K))
         /\ DOMAIN Without(m, K).entries = DOMAIN m.entries \ K
         /\ \A k \in DOMAIN m.entries \ K : Without(m, K).entries[k] = m.entries[k]
         /\ Without(m, K).seq = m.seq /\ Without(m, K).total <= m.total
<1> DEFINE D == DOMAIN m.entries
           E == m.entries
           gone == K \cap D
           rest == Restrict(m.entries, D \ K)
           out == Restrict(m.entries, gone)
           freed == BytesOf(out)
           w == Without(m, K)
           f == [k \in D |-> E[k].bytes]
<1>1. m.entries \in EntryTables /\ m.seq \in Nat /\ m.total \in Nat /\ Budget \in Nat
  BY CacheAssumption DEF Manifests
<1>2. PICK C \in SUBSET Keys : m.entries \in [C -> CacheEntries]
  BY <1>1 DEF EntryTables
<1>3. /\ D \subseteq Keys /\ m.entries \in [D -> CacheEntries] /\ IsFiniteSet(D)
      /\ m.total = Total(f) /\ f \in [D -> Nat]
  <2>1. f \in [D -> Nat]
    BY <1>1, BytesAre
  <2>2. D = C
    BY <1>2
  <2>3. IsFiniteSet(D) /\ m.total = Total(f)
    BY DEF Accounted, BytesOf
  <2> QED BY <1>2, <2>1, <2>2, <2>3
<1>4. w = [m EXCEPT !.entries = rest, !.total = IF @ < freed THEN 0 ELSE @ - freed]
  BY DEF Without
<1>5. /\ rest \in [D \ K -> CacheEntries] /\ rest \in EntryTables
      /\ DOMAIN rest = D \ K /\ \A k \in D \ K : rest[k] = E[k]
  <2>1. rest = [k \in D \ K |-> m.entries[k]]
    BY DEF Restrict
  <2>2. rest \in [D \ K -> CacheEntries]
    BY <1>3, <2>1
  <2>3. D \ K \in SUBSET Keys
    BY <1>3
  <2> QED BY <2>1, <2>2, <2>3 DEF EntryTables
<1>6. BytesOf(rest) = Total([k \in D \ gone |-> f[k]]) /\ freed = Total([k \in gone |-> f[k]])
  <2>1. D \ gone = D \ K
    OBVIOUS
  <2>2. [k \in DOMAIN rest |-> rest[k].bytes] = [k \in D \ gone |-> f[k]]
    BY <1>5, <2>1
  <2>3. out = [k \in gone |-> m.entries[k]]
    BY DEF Restrict
  <2>4. [k \in DOMAIN out |-> out[k].bytes] = [k \in gone |-> f[k]]
    BY <2>3
  <2> QED BY <2>2, <2>4 DEF BytesOf
<1> HIDE DEF f, w, rest, out, freed
<1>7. m.total = freed + BytesOf(rest) /\ freed \in Nat /\ BytesOf(rest) \in Nat
  <2>1. gone \in SUBSET D
    OBVIOUS
  <2>2. Total(f) = Total([k \in gone |-> f[k]]) + Total([k \in D \ gone |-> f[k]])
    <3> HIDE DEF D, gone
    <3> QED BY <1>3, <2>1, TotalParts, Zenon
  <2>3. IsFiniteSet(gone) /\ IsFiniteSet(D \ gone)
    BY <1>3, FS_Subset
  <2>4. Total([k \in gone |-> f[k]]) \in Nat
    <3>1. [k \in gone |-> f[k]] \in [gone -> Nat]
      BY <1>3
    <3> QED BY <2>3, <3>1, TotalType
  <2>5. Total([k \in D \ gone |-> f[k]]) \in Nat
    <3>1. [k \in D \ gone |-> f[k]] \in [D \ gone -> Nat]
      BY <1>3
    <3> QED BY <2>3, <3>1, TotalType
  <2> QED BY <1>3, <1>6, <2>2, <2>4, <2>5
<1>8. ~ (m.total < freed) /\ m.total - freed = BytesOf(rest) /\ m.total - freed <= m.total
  BY <1>1, <1>7
<1>9. w.entries = rest /\ w.seq = m.seq /\ w.total = BytesOf(rest) /\ w \in Manifests
  <2>1. w = [m EXCEPT !.entries = rest, !.total = BytesOf(rest)]
    BY <1>4, <1>8
  <2>2. m = [entries |-> m.entries, seq |-> m.seq, total |-> m.total]
    BY DEF Manifests
  <2>3. w = [entries |-> rest, seq |-> m.seq, total |-> BytesOf(rest)]
    BY <2>1, <2>2
  <2> QED BY <1>1, <1>5, <1>7, <2>3 DEF Manifests
<1>10. IsFiniteSet(D \ K) /\ BytesOf(rest) <= Budget /\ BytesOf(rest) <= m.total
  <2>1. m.total <= Budget
    BY DEF Accounted
  <2>2. IsFiniteSet(D \ K)
    BY <1>3, FS_Subset
  <2> QED BY <1>1, <1>7, <2>1, <2>2
<1>11. \A k \in D \ K : rest[k].n <= m.seq
  BY <1>5 DEF Accounted
<1>12. Accounted(w)
  BY <1>5, <1>9, <1>10, <1>11 DEF Accounted
<1> QED BY <1>5, <1>9, <1>10, <1>12 DEF w


LEMMA CacheInitial == CacheInit => CacheInv
<1> SUFFICES ASSUME CacheInit PROVE CacheInv
  OBVIOUS
<1>1. /\ mem = EmptyManifest /\ files = {} /\ manifestFile = NoManifest /\ mirror = NoManifest
      /\ pc = "load" /\ reading = {}
  BY DEF CacheInit
<1>2. /\ EmptyManifest \in Manifests /\ Accounted(EmptyManifest) /\ Owned(EmptyManifest)
  BY EmptyIsFine
<1> QED BY <1>1, <1>2 DEF CacheInv, CacheTypes, CacheAccounts, CacheNames, Writing, Ready, InFile,
                          InMirror

(* A manifest a load takes is sound.                                         *)
LEMMA SavedAre ==
  ASSUME CacheInv
  PROVE  /\ InFile => /\ manifestFile.manifest \in Manifests /\ Accounted(manifestFile.manifest)
                      /\ Owned(manifestFile.manifest)
         /\ InMirror => mirror.manifest \in Manifests /\ Accounted(mirror.manifest)
<1>1. ASSUME InFile PROVE manifestFile.manifest \in Manifests
  <2>1. PICK m \in Manifests : manifestFile = Saved(m)
    BY <1>1 DEF CacheInv, CacheTypes, InFile
  <2> QED BY <2>1 DEF Saved
<1>2. ASSUME InMirror PROVE mirror.manifest \in Manifests
  <2>1. PICK m \in Manifests : mirror = Saved(m)
    BY <1>2 DEF CacheInv, CacheTypes, InMirror
  <2> QED BY <2>1 DEF Saved
<1> QED BY <1>1, <1>2 DEF CacheInv, CacheAccounts, CacheNames

LEMMA LoadKeeps == ASSUME CacheInv, Load PROVE CacheInv'
<1>1. /\ pc = "load" /\ pc' \in {"idle", "reset"} /\ reading = {}
      /\ UNCHANGED <<files, manifestFile, mirror, job, reading, crashes>>
  BY DEF Load, CacheInv, CacheNames, Ready
<1>2. \/ mem' = EmptyManifest /\ ~ InFile /\ (manifestFile = NoManifest => ~ InMirror)
      \/ InMirror /\ manifestFile = NoManifest /\ mem' = mirror.manifest
      \/ InFile /\ mem' = manifestFile.manifest
  BY DEF Load, InFile, InMirror, Torn, NoManifest
<1>3. mem' \in Manifests /\ Accounted(mem') /\ Owned(mem')
  BY <1>2, EmptyIsFine, SavedAre DEF CacheInv, CacheNames
<1>4. CacheTypes'
  BY <1>1, <1>3 DEF CacheInv, CacheTypes, Writing
<1>5. Accounted(mem)'
  BY <1>3 DEF Accounted, BytesOf
<1>6. CacheAccounts'
  BY <1>1, <1>5 DEF CacheInv, CacheAccounts, Writing, InFile, InMirror, Accounted, BytesOf
<1>7. Owned(mem)'
  BY <1>1, <1>3 DEF Owned
<1>8. /\ InFile => manifestFile.manifest.seq <= mem'.seq
      /\ manifestFile = NoManifest /\ InMirror => mirror.manifest.seq <= mem'.seq
  <2>1. mem'.seq \in Nat
    BY <1>3 DEF Manifests
  <2> QED BY <1>2, <2>1 DEF InFile
<1>9. CacheNames'
  BY <1>1, <1>7, <1>8 DEF CacheInv, CacheNames, Owned, InFile, InMirror, Ready
<1> QED BY <1>4, <1>6, <1>9 DEF CacheInv

LEMMA HardResetKeeps == ASSUME CacheInv, HardReset PROVE CacheInv'
<1>1. /\ mem' = mem /\ job' = job /\ reading' = reading /\ ~ Ready /\ reading = {}
      /\ \/ /\ files' = {} /\ manifestFile' = NoManifest /\ pc' = "reset2" /\ mirror' = mirror
         \/ /\ mirror' = NoManifest /\ pc = "reset2" /\ pc' = "idle"
            /\ files' = files /\ manifestFile' = manifestFile /\ manifestFile = NoManifest
  BY DEF HardReset, CacheInv, CacheNames, Ready
<1>2. CacheTypes'
  BY <1>1 DEF CacheInv, CacheTypes, Writing
<1>3. CacheAccounts'
  BY <1>1 DEF CacheInv, CacheAccounts, Writing, InFile, InMirror, Accounted, BytesOf
<1>4. CacheNames'
  BY <1>1 DEF CacheInv, CacheNames, Owned, InFile, InMirror, Ready
<1> QED BY <1>2, <1>3, <1>4 DEF CacheInv

LEMMA CrashKeeps == ASSUME CacheInv, Crash PROVE CacheInv'
<1>1. /\ mem' = EmptyManifest /\ pc' = "load" /\ reading' = {}
      /\ UNCHANGED <<files, manifestFile, mirror>>
  BY DEF Crash
<1>2. mem' \in Manifests /\ Accounted(mem') /\ Owned(mem')
  BY <1>1, EmptyIsFine
<1>3. CacheTypes'
  BY <1>1, <1>2 DEF CacheInv, CacheTypes, Writing
<1>4. Accounted(mem)'
  BY <1>2 DEF Accounted, BytesOf
<1>5. CacheAccounts'
  BY <1>1, <1>4 DEF CacheInv, CacheAccounts, Writing, InFile, InMirror, Accounted, BytesOf
<1>6. CacheNames'
  BY <1>1, <1>2 DEF CacheInv, CacheNames, Owned, InFile, InMirror, Ready
<1> QED BY <1>3, <1>5, <1>6 DEF CacheInv

(* removeEntry takes entries and files out and hands out no name.            *)
LEMMA RemovalIs ==
  ASSUME CacheInv, NEW K, RemoveEntries(K)
  PROVE  /\ mem' \in Manifests /\ Accounted(mem)' /\ files' \subseteq files
         /\ DOMAIN mem'.entries = Entries \ K
         /\ \A k \in Entries \ K : mem'.entries[k] = mem.entries[k]
         /\ mem'.seq = mem.seq /\ mem'.total <= mem.total
<1>1. mem' = Without(mem, K) /\ files' \subseteq files
  BY DEF RemoveEntries
<1>2. mem \in Manifests /\ Accounted(mem)
  BY DEF CacheInv, CacheTypes, CacheAccounts
<1>3. /\ Without(mem, K) \in Manifests /\ Accounted(Without(mem, K))
      /\ DOMAIN Without(mem, K).entries = Entries \ K
      /\ \A k \in Entries \ K : Without(mem, K).entries[k] = mem.entries[k]
      /\ Without(mem, K).seq = mem.seq /\ Without(mem, K).total <= mem.total
  BY <1>2, WithoutKeeps DEF Entries
<1> HIDE DEF Entries
<1>4. Accounted(mem')
  BY <1>1, <1>3
<1>5. Accounted(mem)'
  BY <1>4 DEF Accounted, BytesOf
<1> QED BY <1>1, <1>3, <1>5

LEMMA RemovalKeeps ==
  ASSUME CacheInv, NEW K, RemoveEntries(K),
         UNCHANGED <<manifestFile, mirror, reading>>,
         Ready, Ready', pc' # "commit", pc' \in Writing => job' \in Jobs,
         pc' \in Writing => job'.key \notin Entries \ K
  PROVE  CacheInv'
<1>1. /\ mem' \in Manifests /\ Accounted(mem)' /\ files' \subseteq files
      /\ DOMAIN mem'.entries = Entries \ K
      /\ \A k \in Entries \ K : mem'.entries[k] = mem.entries[k]
      /\ mem'.seq = mem.seq /\ mem'.total <= mem.total
  BY RemovalIs
<1>2. CacheTypes'
  BY <1>1 DEF CacheInv, CacheTypes
<1>3. CacheAccounts'
  BY <1>1 DEF CacheInv, CacheAccounts, InFile, InMirror, Accounted, BytesOf, Entries
<1>4. Owned(mem)'
  BY <1>1 DEF CacheInv, CacheNames, Owned, Entries
<1>5. CacheNames'
  BY <1>1, <1>4 DEF CacheInv, CacheNames, Owned, InFile, InMirror, Ready
<1> QED BY <1>2, <1>3, <1>5 DEF CacheInv

LEMMA StartWriteKeeps ==
  ASSUME CacheInv, NEW k \in Keys, NEW bytes \in Sizes, NEW tier \in Tiers,
         StartWrite(k, bytes, tier)
  PROVE  CacheInv'
<1>1. /\ pc = "idle" /\ pc' = "stale" /\ job' = [key |-> k, bytes |-> bytes, tier |-> tier]
      /\ RemoveEntries({k}) /\ UNCHANGED <<manifestFile, mirror, reading>>
  BY DEF StartWrite
<1>2. job' \in Jobs /\ job'.key = k
  BY <1>1, CacheAssumption DEF Jobs
<1>3. Ready /\ Ready'
  BY <1>1 DEF Ready
<1> QED BY <1>1, <1>2, <1>3, RemovalKeeps

LEMMA DropStaleKeeps == ASSUME CacheInv, DropStale PROVE CacheInv'
<1>1. pc = "stale" /\ UNCHANGED <<manifestFile, mirror, reading>>
  BY DEF DropStale
<1>2. CASE job.bytes > Budget
  <2>1. pc' = "idle" /\ UNCHANGED <<mem, files>>
    BY <1>2 DEF DropStale
  <2>2. CacheTypes'
    BY <1>1, <2>1 DEF CacheInv, CacheTypes, Writing
  <2>3. CacheAccounts'
    BY <1>1, <2>1 DEF CacheInv, CacheAccounts, Writing, InFile, InMirror, Accounted, BytesOf
  <2>4. CacheNames'
    BY <1>1, <2>1 DEF CacheInv, CacheNames, Owned, InFile, InMirror, Ready
  <2> QED BY <2>2, <2>3, <2>4 DEF CacheInv
<1>3. CASE ~ (job.bytes > Budget)
  <2>1. PICK stale \in SUBSET Entries : RemoveEntries(stale)
    BY <1>3 DEF DropStale
  <2>2. pc' = "evict" /\ job' = job /\ Ready /\ Ready'
    BY <1>1, <1>3 DEF DropStale, Ready
  <2>3. job \in Jobs /\ job.key \notin Entries
    BY <1>1 DEF CacheInv, CacheTypes, CacheAccounts, Writing
  <2> QED BY <1>1, <2>1, <2>2, <2>3, RemovalKeeps
<1> QED BY <1>2, <1>3

LEMMA EvictOneKeeps == ASSUME CacheInv, EvictOne PROVE CacheInv'
<1>1. PICK victim \in Victims : RemoveEntries({victim})
  BY DEF EvictOne
<1>2. /\ pc = "evict" /\ pc' = pc /\ job' = job /\ UNCHANGED <<manifestFile, mirror, reading>>
      /\ Ready /\ Ready'
  BY DEF EvictOne, Ready
<1>3. job \in Jobs /\ job.key \notin Entries
  BY <1>2 DEF CacheInv, CacheTypes, CacheAccounts, Writing
<1> QED BY <1>1, <1>2, <1>3, RemovalKeeps

LEMMA DropEntryKeeps == ASSUME CacheInv, NEW k, DropEntry(k) PROVE CacheInv'
<1>1. /\ pc = "idle" /\ pc' = pc /\ RemoveEntries({k})
      /\ UNCHANGED <<manifestFile, mirror, reading>> /\ Ready /\ Ready'
  BY DEF DropEntry, Ready
<1> QED BY <1>1, RemovalKeeps DEF Writing


(* The name is new to memory, to the manifest a restart would load and to    *)
(* every read under way: nobody's file is written over.                      *)
LEMMA WriteFileKeeps == ASSUME CacheInv, WriteFile PROVE CacheInv'
<1> DEFINE n == mem.seq + 1
           json == job.tier # "media"
           payload == [n |-> n, json |-> json, key |-> job.key]
           kept == {f \in files : ~(f.n = n /\ f.json = json)}
<1>1. /\ pc = "evict" /\ mem.total + job.bytes <= Budget
      /\ mem' = [mem EXCEPT !.seq = n]
      /\ \/ files' = kept \cup {payload} /\ pc' = "commit" /\ job' = job
         \/ pc' = "idle" /\ files' = files
      /\ UNCHANGED <<manifestFile, mirror, reading>>
  BY DEF WriteFile
<1>2. /\ mem \in Manifests /\ mem.seq \in Nat /\ n \in Nat /\ mem.seq < n /\ job \in Jobs
      /\ job.key \in Keys /\ json \in BOOLEAN
  BY <1>1 DEF CacheInv, CacheTypes, Manifests, Writing, Jobs
<1>3. mem' = [entries |-> mem.entries, seq |-> n, total |-> mem.total]
  BY <1>1, <1>2 DEF Manifests
<1>4. mem' \in Manifests /\ mem'.entries = mem.entries /\ mem'.seq = n /\ mem'.total = mem.total
  BY <1>2, <1>3 DEF Manifests
<1>5. payload \in Payloads /\ payload.n = n /\ payload.json = json /\ payload.key = job.key
  BY <1>2 DEF Payloads
<1>6. files' \subseteq kept \cup {payload} \/ files' = files
  BY <1>1
<1>a. \A f \in files' : f \in files \/ f = payload
  BY <1>1
<1>b. pc' = "commit" => \A f \in files' : f.n = n /\ f.json = json => f.key = job.key
  BY <1>1, <1>5
<1> HIDE DEF n, json, payload, kept
<1>7. CacheTypes'
  BY <1>1, <1>2, <1>4, <1>5, <1>a DEF CacheInv, CacheTypes, Writing
<1>8. Accounted(mem)'
  <2>1. \A k \in Entries : mem.entries[k].n \in Nat /\ mem.entries[k].n <= mem.seq
    <3>1. mem.entries \in EntryTables
      BY <1>2 DEF Manifests
    <3>2. \A k \in Entries : mem.entries[k] \in CacheEntries
      BY <3>1 DEF EntryTables, Entries
    <3> QED BY <3>2 DEF CacheEntries, CacheInv, CacheAccounts, Accounted, Entries
  <2>2. \A k \in Entries : mem.entries[k].n <= n /\ mem.entries[k].n < n
    BY <1>2, <2>1
  <2> QED BY <1>4, <2>2 DEF CacheInv, CacheAccounts, Accounted, BytesOf, Entries
<1>9. CacheAccounts'
  BY <1>1, <1>4, <1>8 DEF CacheInv, CacheAccounts, Writing, InFile, InMirror, Accounted, BytesOf,
                          Entries
<1>10. ASSUME NEW m \in Manifests, Accounted(m), Owned(m), m.seq <= mem.seq
       PROVE  Owned(m)' /\ m.seq <= n
  <2>1. m.seq \in Nat /\ m.seq < n
    BY <1>2, <1>10 DEF Manifests
  <2>2. \A k \in DOMAIN m.entries : m.entries[k].n \in Nat /\ m.entries[k].n < n
    <3>1. m.entries \in EntryTables
      BY DEF Manifests
    <3>2. \A k \in DOMAIN m.entries : m.entries[k].n \in Nat
      BY <3>1 DEF EntryTables, CacheEntries
    <3>3. \A k \in DOMAIN m.entries : m.entries[k].n <= m.seq
      BY <1>10 DEF Accounted
    <3> QED BY <1>2, <2>1, <3>2, <3>3
  <2> QED BY <1>2, <1>5, <1>10, <1>a, <2>1, <2>2 DEF Owned
<1>11. Ready /\ Ready'
  BY <1>1 DEF Ready
<1>12. Owned(mem)'
  <2>1. PICK m : m = mem
    OBVIOUS
  <2>2. m \in Manifests /\ Accounted(m) /\ Owned(m) /\ m.seq <= mem.seq
    BY <1>2, <2>1 DEF CacheInv, CacheAccounts, CacheNames
  <2>3. Owned(m)'
    BY <1>10, <2>2
  <2> QED BY <1>4, <2>1, <2>3 DEF Owned
<1>13. InFile' => Owned(manifestFile.manifest)' /\ manifestFile.manifest.seq <= n
  <2>1. PICK m : m = manifestFile.manifest
    OBVIOUS
  <2>2. InFile => m \in Manifests /\ Accounted(m) /\ Owned(m) /\ m.seq <= mem.seq
    BY <1>11, <2>1, SavedAre DEF CacheInv, CacheNames
  <2>3. InFile => Owned(m)' /\ m.seq <= n
    BY <1>10, <2>2
  <2> QED BY <1>1, <2>1, <2>3 DEF Owned, InFile
<1>14. manifestFile = NoManifest /\ InMirror =>
         Owned(mirror.manifest)' /\ mirror.manifest.seq <= n
  <2>1. PICK m : m = mirror.manifest
    OBVIOUS
  <2>2. manifestFile = NoManifest /\ InMirror =>
          m \in Manifests /\ Accounted(m) /\ Owned(m) /\ m.seq <= mem.seq
    BY <1>11, <2>1, SavedAre DEF CacheInv, CacheNames
  <2>3. manifestFile = NoManifest /\ InMirror => Owned(m)' /\ m.seq <= n
    BY <1>10, <2>2
  <2> QED BY <1>1, <2>1, <2>3 DEF Owned
<1>15. \A r \in reading :
         r.n <= n /\ \A f \in files' : f.n = r.n /\ f.json = r.json => f.key = r.key
  <2>1. \A r \in reading : r.n \in Nat /\ r.n <= mem.seq /\ r.n < n /\ r.n <= n
    BY <1>2 DEF CacheInv, CacheTypes, CacheNames, Payloads
  <2> QED BY <1>2, <1>5, <1>a, <2>1 DEF CacheInv, CacheNames
<1>16. pc' = "commit" =>
         \A f \in files' : f.n = mem'.seq /\ f.json = (job'.tier # "media") => f.key = job'.key
  BY <1>1, <1>4, <1>b DEF json
<1>17. CacheNames'
  BY <1>1, <1>4, <1>11, <1>12, <1>13, <1>14, <1>15, <1>16 DEF CacheNames, InFile, InMirror, Ready
<1> QED BY <1>7, <1>9, <1>17 DEF CacheInv

LEMMA CommitKeeps == ASSUME CacheInv, Commit PROVE CacheInv'
<1> DEFINE e == [n |-> mem.seq, json |-> job.tier # "media", bytes |-> job.bytes, tier |-> job.tier]
           t == [k \in Entries \cup {job.key} |-> IF k = job.key THEN e ELSE mem.entries[k]]
<1>1. /\ pc = "commit" /\ mem' = [mem EXCEPT !.entries = t, !.total = @ + job.bytes]
      /\ pc' = "persist" /\ UNCHANGED <<files, manifestFile, mirror, reading>>
  BY DEF Commit
<1>2. /\ mem \in Manifests /\ mem.entries \in EntryTables /\ mem.seq \in Nat /\ mem.total \in Nat
      /\ job \in Jobs /\ job.key \in Keys /\ job.bytes \in Nat /\ job.tier \in Tiers
      /\ job.key \notin Entries /\ mem.total + job.bytes <= Budget
      /\ IsFiniteSet(Entries) /\ mem.total = BytesOf(mem.entries)
  BY <1>1 DEF CacheInv, CacheTypes, CacheAccounts, Accounted, Entries, Manifests, Writing, Jobs
<1>3. PICK C \in SUBSET Keys : mem.entries \in [C -> CacheEntries]
  BY <1>2 DEF EntryTables
<1>4. C = Entries /\ \A k \in Entries : mem.entries[k] \in CacheEntries
  BY <1>3 DEF Entries
<1>5. e \in CacheEntries /\ e.n = mem.seq /\ e.json = (job.tier # "media") /\ e.bytes = job.bytes
  BY <1>2 DEF CacheEntries
<1> HIDE DEF e
<1>6. t \in [Entries \cup {job.key} -> CacheEntries]
  BY <1>4, <1>5
<1>7. /\ t \in EntryTables /\ DOMAIN t = Entries \cup {job.key} /\ t[job.key] = e
      /\ \A k \in Entries : t[k] = mem.entries[k]
  <2>1. Entries \cup {job.key} \in SUBSET Keys
    BY <1>2, <1>3, <1>4
  <2> QED BY <1>2, <1>6, <2>1 DEF EntryTables
<1> HIDE DEF t
<1>8. BytesOf(t) = mem.total + job.bytes
  <2> DEFINE f == [k \in DOMAIN mem.entries |-> mem.entries[k].bytes]
             g == [k \in DOMAIN t |-> t[k].bytes]
  <2>1. f \in [Entries -> Nat] /\ g \in [Entries \cup {job.key} -> Nat]
    BY <1>2, <1>7, BytesAre DEF Entries
  <2>2. g[job.key] = job.bytes /\ \A k \in Entries : g[k] = f[k]
    BY <1>5, <1>7 DEF Entries
  <2>3. BytesOf(t) = Total(g) /\ mem.total = Total(f)
    BY <1>2 DEF BytesOf
  <2> HIDE DEF f, g
  <2>4. Extends(Entries, f, g, job.key)
    <3>1. IsFiniteSet(Entries \cup {job.key})
      BY <1>2, FS_AddElement
    <3> QED BY <1>2, <2>1, <2>2, <3>1 DEF Extends
  <2>5. Total(g) = Total(f) + g[job.key]
    BY <2>4, TotalExtend
  <2> QED BY <2>2, <2>3, <2>5
<1>9. mem' = [entries |-> t, seq |-> mem.seq, total |-> mem.total + job.bytes]
  BY <1>1, <1>2 DEF Manifests
<1>10. /\ mem' \in Manifests /\ mem'.entries = t /\ mem'.seq = mem.seq
       /\ mem'.total = mem.total + job.bytes
  <2>1. mem.total + job.bytes \in Nat
    BY <1>2
  <2> QED BY <1>2, <1>7, <1>9, <2>1 DEF Manifests
<1>11. Accounted(mem)'
  <2>1. IsFiniteSet(Entries \cup {job.key})
    BY <1>2, FS_AddElement
  <2>2. \A k \in DOMAIN t : t[k].n <= mem.seq
    <3>1. \A k \in Entries : mem.entries[k].n <= mem.seq
      BY DEF CacheInv, CacheAccounts, Accounted, Entries
    <3>2. mem.seq <= mem.seq
      BY <1>2
    <3> QED BY <1>5, <1>7, <3>1, <3>2
  <2>3. mem'.total = BytesOf(mem'.entries) /\ mem'.total <= Budget
    BY <1>2, <1>8, <1>10
  <2> QED BY <1>7, <1>10, <2>1, <2>2, <2>3 DEF Accounted, BytesOf
<1>12. CacheTypes'
  BY <1>1, <1>10 DEF CacheInv, CacheTypes, Writing
<1>13. CacheAccounts'
  BY <1>1, <1>11 DEF CacheInv, CacheAccounts, Writing, InFile, InMirror, Accounted, BytesOf
<1>14. Owned(mem)'
  <2>1. \A f \in files : f.n = e.n /\ f.json = e.json => f.key = job.key
    BY <1>1, <1>5 DEF CacheInv, CacheNames
  <2>2. \A k \in Entries, f \in files :
          f.n = mem.entries[k].n /\ f.json = mem.entries[k].json => f.key = k
    BY DEF CacheInv, CacheNames, Owned, Entries
  <2> QED BY <1>1, <1>7, <1>10, <2>1, <2>2 DEF Owned
<1>15. CacheNames'
  BY <1>1, <1>10, <1>14 DEF CacheInv, CacheNames, Owned, InFile, InMirror, Ready
<1> QED BY <1>12, <1>13, <1>15 DEF CacheInv

LEMMA PersistNowKeeps == ASSUME CacheInv, PersistNow PROVE CacheInv'
<1>1. /\ mem' = mem /\ UNCHANGED <<files, job, reading>> /\ Ready /\ Ready'
      /\ pc' \notin Writing /\ pc' # "reset2"
  BY DEF PersistNow, Ready, Writing
<1>2. \/ manifestFile' = Torn /\ mirror' = mirror
      \/ manifestFile' = Saved(mem) /\ mirror' = mirror
      \/ mirror' = Saved(mem) /\ manifestFile' = manifestFile
  BY DEF PersistNow
<1>3. /\ mem \in Manifests /\ mem.seq \in Nat /\ Accounted(mem) /\ Owned(mem)
      /\ Saved(mem).manifest = mem
  BY DEF CacheInv, CacheTypes, CacheAccounts, CacheNames, Manifests, Saved
<1>4. mem.seq <= mem.seq /\ Saved(mem) # NoManifest /\ Torn # NoManifest
  BY <1>3 DEF Saved, NoManifest, Torn
<1>5. CacheTypes'
  BY <1>1, <1>2, <1>3 DEF CacheInv, CacheTypes
<1>6. CacheAccounts'
  BY <1>1, <1>2, <1>3 DEF CacheInv, CacheAccounts, InFile, InMirror, Accounted, BytesOf, Writing
<1>7. CacheNames'
  BY <1>1, <1>2, <1>3, <1>4
     DEF CacheInv, CacheNames, Owned, InFile, InMirror, Ready, Writing
<1> QED BY <1>5, <1>6, <1>7 DEF CacheInv

LEMMA ReadsKeep ==
  ASSUME CacheInv, UNCHANGED <<mem, files, manifestFile, mirror, job>>,
         \/ Ready /\ pc' = pc /\ \E k \in Entries : reading' = reading \cup {FileOf(k, mem.entries[k])}
         \/ pc' = pc /\ reading' \subseteq reading
         \/ pc = "idle" /\ pc' = "persist" /\ reading' = reading
  PROVE  CacheInv'
<1>1. pc' = pc \/ (Ready /\ Ready' /\ pc' = "persist")
  BY DEF Ready
<1>2. mem.entries \in EntryTables /\ Accounted(mem) /\ Owned(mem)
  BY DEF CacheInv, CacheTypes, CacheAccounts, CacheNames, Manifests
<1>3. ASSUME NEW r \in reading'
      PROVE  /\ r \in Payloads /\ (r \in reading \/ Ready)
             /\ r.n <= mem.seq /\ \A f \in files : f.n = r.n /\ f.json = r.json => f.key = r.key
  <2>1. CASE r \in reading
    BY <2>1 DEF CacheInv, CacheTypes, CacheNames
  <2>2. CASE r \notin reading
    <3>1. PICK k \in Entries : r = FileOf(k, mem.entries[k])
      BY <1>3, <2>2
    <3>2. mem.entries[k] \in CacheEntries /\ k \in Keys
      BY <1>2, <3>1 DEF EntryTables, Entries
    <3>3. r = [n |-> mem.entries[k].n, json |-> mem.entries[k].json, key |-> k]
      BY <3>1 DEF FileOf
    <3>4. mem.entries[k].n <= mem.seq /\ Ready
      BY <1>2, <1>3, <2>2 DEF Accounted, Entries
    <3>5. \A f \in files : f.n = mem.entries[k].n /\ f.json = mem.entries[k].json => f.key = k
      BY <1>2 DEF Owned, Entries
    <3> QED BY <3>2, <3>3, <3>4, <3>5 DEF Payloads, CacheEntries
  <2> QED BY <2>1, <2>2
<1>4. CacheTypes'
  BY <1>1, <1>3 DEF CacheInv, CacheTypes, Writing
<1>5. CacheAccounts'
  BY <1>1 DEF CacheInv, CacheAccounts, Writing, InFile, InMirror, Accounted, BytesOf, Entries
<1>6. CacheNames'
  BY <1>1, <1>3 DEF CacheInv, CacheNames, Owned, InFile, InMirror, Ready
<1> QED BY <1>4, <1>5, <1>6 DEF CacheInv

LEMMA CacheStep == CacheInv /\ [CacheNext]_cacheVars => CacheInv'
<1> SUFFICES ASSUME CacheInv, [CacheNext]_cacheVars PROVE CacheInv'
  OBVIOUS
<1>1. CASE UNCHANGED cacheVars
  <2>1. UNCHANGED <<mem, files, manifestFile, mirror, pc, job, reading, crashes>>
    BY <1>1 DEF cacheVars
  <2> QED BY <2>1, ReadsKeep
<1>2. CASE Load \/ HardReset \/ Crash \/ DropStale \/ EvictOne \/ WriteFile \/ Commit \/ PersistNow
  BY <1>2, LoadKeeps, HardResetKeeps, CrashKeeps, DropStaleKeeps, EvictOneKeeps, WriteFileKeeps,
     CommitKeeps, PersistNowKeeps
<1>3. CASE Flush
  BY <1>3, ReadsKeep DEF Flush
<1>4. ASSUME NEW k \in JsonKeys, putJSON(k) \/ getJSON(k) \/ DropEntry(k) PROVE CacheInv'
  <2>1. CASE putJSON(k)
    <3>1. PICK bytes \in Sizes, tier \in tierForPath(k) : StartWrite(k, bytes, tier)
      BY <2>1 DEF putJSON
    <3>2. k \in Keys /\ tier \in Tiers
      BY DEF Keys, tierForPath, Tiers
    <3> QED BY <3>1, <3>2, StartWriteKeeps
  <2>2. CASE getJSON(k)
    BY <2>2, ReadsKeep DEF getJSON
  <2>3. CASE DropEntry(k)
    BY <2>3, DropEntryKeeps
  <2> QED BY <1>4, <2>1, <2>2, <2>3
<1>5. ASSUME NEW k \in MediaKeys, adoptFile(k) PROVE CacheInv'
  <2>1. PICK bytes \in Sizes : StartWrite(k, bytes, "media")
    BY <1>5 DEF adoptFile
  <2>2. k \in Keys /\ "media" \in Tiers
    BY DEF Keys, Tiers
  <2> QED BY <2>1, <2>2, StartWriteKeeps
<1>6. ASSUME NEW r \in reading, ReadEnds(r) PROVE CacheInv'
  BY <1>6, ReadsKeep DEF ReadEnds
<1> QED BY <1>1, <1>2, <1>3, <1>4, <1>5, <1>6 DEF CacheNext

LEMMA CacheInvariance == Spec => []CacheInv
<1>1. Init => CacheInv
  BY CacheInitial DEF Init
<1>2. CacheInv /\ [Next]_screenVars => CacheInv'
  BY ScreenMoves, CacheStep
<1> QED BY <1>1, <1>2, PTL DEF Spec

(* The counter the budget is enforced with is what the entries take, at      *)
(* every step and after every restart, and within the budget (removeEntry,   *)
(* evictToFit and the two writes; the manifest is loaded with its counter).  *)
THEOREM BudgetHolds == Spec => []BytesAccounted
<1>1. CacheInv => BytesAccounted
  BY DEF CacheInv, CacheAccounts, Accounted, BytesAccounted
<1> QED BY <1>1, CacheInvariance, PTL

(* The file of an entry, or of a read under way, has that key's payload or   *)
(* is gone, through crashes, torn manifests and names handed out again       *)
(* (++manifest.seq, load, hardReset).                                        *)
THEOREM NoOthersPayload == Spec => []OwnPayload
<1>1. CacheInv => OwnPayload
  BY DEF CacheInv, CacheNames, Owned, OwnPayload, Named, Entries
<1> QED BY <1>1, CacheInvariance, PTL

(* A pinned entry leaves for room only when all are pinned, whatever hits    *)
(* and ages the others have (cache.ts: "evicted only when nothing else       *)
(* remains"; scoreOf).                                                       *)
THEOREM PinnedGoLast == Spec => PinnedLast
<1>1. ASSUME CacheInv, EvictOne, NEW v \in Entries \ DOMAIN mem'.entries,
             mem.entries[v].tier = "pinned", NEW k \in Entries
      PROVE  mem.entries[k].tier = "pinned"
  <2>1. PICK victim \in Victims : RemoveEntries({victim})
    BY <1>1 DEF EvictOne
  <2>2. DOMAIN mem'.entries = Entries \ {victim}
    BY <1>1, <2>1, RemovalIs
  <2>3. v \in Victims
    BY <2>2
  <2>4. PICK base \in [Entries -> Scores] :
          scoreOf(mem.entries[v], base[v]) <= scoreOf(mem.entries[k], base[k])
    BY <2>3 DEF Victims
  <2>5. /\ base[v] \in Nat /\ base[k] \in Nat /\ base[k] < PinnedBonus /\ PinnedBonus \in Nat
    BY CacheAssumption
  <2> QED BY <1>1, <2>4, <2>5 DEF scoreOf
<1>2. CacheInv /\ [Next]_screenVars =>
        [EvictOne => \A v \in Entries \ DOMAIN mem'.entries :
           mem.entries[v].tier = "pinned" =>
             \A k \in Entries : mem.entries[k].tier = "pinned"]_cacheVars
  BY <1>1
<1> QED BY <1>2, CacheInvariance, PTL DEF Spec, PinnedLast

-----------------------------------------------------------------------------
(* The bet of a post *)

IsPanel(p) ==
  p = [side |-> p.side, amount |-> p.amount, slider |-> p.slider, limit |-> p.limit,
       advanced |-> p.advanced]
IsWebBet(b) ==
  /\ b.kind \in {"new", "existing"}
  /\ b = [kind |-> b.kind, quote |-> b.quote, side |-> b.side, price |-> b.price,
          shares |-> b.shares]
IsMobileNew(b) ==
  /\ b.kind = "new" /\ b.spend \in Nat /\ b.price \in 1 .. 99
  /\ b = [kind |-> b.kind, side |-> b.side, spend |-> b.spend, price |-> b.price]
IsMobileExisting(b) ==
  /\ b.kind = "existing" /\ b.spend \in Nat
  /\ b = [kind |-> b.kind, quote |-> b.quote, side |-> b.side, spend |-> b.spend,
          limit |-> b.limit]

(* What is written on the web is what the panel shows, or nothing has been.  *)
WrittenOrEmpty(b, p) ==
  \/ b.shares = 0
  \/ /\ b.side = p.side /\ b.price = PanelPrice(b.kind, b.quote, p)
     /\ b.shares = SharesFor(p.amount, PanelPrice(b.kind, b.quote, p))

SentIsRight ==
  sent # NoBet =>
    /\ sent.signed = sent.shown
    /\ editing = "web" => sent.signed.shares > 0
    /\ sent.kind = "new" /\ ~OpeningTaken(sent.signed) =>
         editing = "mobile" /\ sent.amount >= 100 /\ sent.amount % sent.signed.price # 0

(* On mobile the value has the panel's amount.                               *)
BetInv ==
  /\ editing \in {"mobile", "web"} /\ IsPanel(panel)
  /\ bet # NoBet /\ editing = "web" => IsWebBet(bet) /\ WrittenOrEmpty(bet, panel)
  /\ bet # NoBet /\ editing = "mobile" =>
       (IsMobileNew(bet) \/ IsMobileExisting(bet)) /\ bet.spend = panel.amount
  /\ SentIsRight

LEMMA ShownIsSigned ==
  ASSUME BetInv, bet # NoBet
  PROVE  Signed(bet) = PanelShown(bet, panel) \/ (editing = "web" /\ bet.shares = 0)
<1>1. CASE editing = "mobile"
  BY <1>1 DEF BetInv, Signed, PanelShown
<1>2. CASE editing = "web"
  BY <1>2 DEF BetInv, Signed, PanelShown, WrittenOrEmpty
<1> QED BY <1>1, <1>2 DEF BetInv

(* The effect leaves the value only where it is what it would write.         *)
LEMMA PushedIsWritten ==
  ASSUME editing = "web", NEW b, IsWebBet(b), NEW p, NEW before,
         before = Depends(b.kind, b.quote, p) => WrittenOrEmpty(b, p)
  PROVE  IsWebBet(Pushed(b, before, p)) /\ WrittenOrEmpty(Pushed(b, before, p), p)
<1> DEFINE price == PanelPrice(b.kind, b.quote, p)
           c == [kind |-> b.kind, quote |-> b.quote, side |-> p.side, price |-> price,
                 shares |-> SharesFor(p.amount, price)]
<1>1. CASE before = Depends(b.kind, b.quote, p)
  BY <1>1 DEF Pushed
<1>2. CASE before # Depends(b.kind, b.quote, p)
  <2>1. PanelShown(b, p) = [side |-> p.side, price |-> price, shares |-> SharesFor(p.amount, price)]
    BY DEF PanelShown
  <2>2. Pushed(b, before, p) = [b EXCEPT !.side = p.side, !.price = price,
                                         !.shares = SharesFor(p.amount, price)]
    BY <1>2, <2>1 DEF Pushed
  <2>3. Pushed(b, before, p) = c
    BY <2>2 DEF IsWebBet
  <2>4. c.kind = b.kind /\ c.quote = b.quote /\ c.side = p.side /\ c.price = price
        /\ c.shares = SharesFor(p.amount, price)
    OBVIOUS
  <2> QED BY <2>3, <2>4 DEF IsWebBet, WrittenOrEmpty
<1> QED BY <1>1, <1>2

LEMMA IsABet == ASSUME NEW b, IsWebBet(b) \/ IsMobileNew(b) \/ IsMobileExisting(b) PROVE b # NoBet
BY DEF IsWebBet, IsMobileNew, IsMobileExisting, NoBet

LEMMA SelectKeeps ==
  ASSUME BetInv, (\E quote \in Quotes : SelectMarket(quote)) \/ SelectCandidate
  PROVE  BetInv'
<1>1. editing \in {"mobile", "web"} /\ editing' = editing /\ sent' = sent /\ IsPanel(panel)
  BY DEF BetInv, SelectMarket, SelectCandidate
<1>2. SentIsRight'
  BY <1>1 DEF BetInv, SentIsRight
<1>3. CASE editing = "web"
  <2>1. panel' = panel
    BY <1>3 DEF SelectMarket, SelectCandidate
  <2>2. PICK b, before : IsWebBet(b) /\ b.shares = 0 /\ bet' = Pushed(b, before, panel)
    <3>1. ASSUME NEW quote \in Quotes, SelectMarket(quote)
          PROVE  \E b, before : IsWebBet(b) /\ b.shares = 0 /\ bet' = Pushed(b, before, panel)
      <4> DEFINE b == [kind |-> "existing", quote |-> quote, side |-> "yes",
                       price |-> quote.yes, shares |-> 0]
      <4>1. IsWebBet(b) /\ b.shares = 0
        BY DEF IsWebBet
      <4>2. bet' = Pushed(b, Unattached, panel)
        BY <1>3, <3>1 DEF SelectMarket
      <4> HIDE DEF b
      <4> QED BY <4>1, <4>2
    <3>2. ASSUME SelectCandidate
          PROVE  \E b, before : IsWebBet(b) /\ b.shares = 0 /\ bet' = Pushed(b, before, panel)
      <4> DEFINE b == [kind |-> "new", quote |-> [yes |-> 50, no |-> 50], side |-> "yes",
                       price |-> 50, shares |-> 0]
      <4>1. IsWebBet(b) /\ b.shares = 0
        BY DEF IsWebBet
      <4>2. bet' = Pushed(b, Unattached, panel)
        BY <1>3, <3>2 DEF SelectCandidate
      <4> HIDE DEF b
      <4> QED BY <4>1, <4>2
    <3> QED BY <3>1, <3>2
  <2>3. WrittenOrEmpty(b, panel)
    BY <2>2 DEF WrittenOrEmpty
  <2>4. IsWebBet(bet') /\ WrittenOrEmpty(bet', panel)
    BY <1>3, <2>2, <2>3, PushedIsWritten
  <2>5. IsWebBet(bet)' /\ WrittenOrEmpty(bet, panel)'
    BY <2>1, <2>4 DEF IsWebBet, WrittenOrEmpty, PanelPrice, SharesFor
  <2> QED BY <1>1, <1>2, <1>3, <2>1, <2>5 DEF BetInv, IsPanel
<1>4. CASE editing = "mobile"
  <2>1. \E amount \in Nat :
          /\ panel' = [panel EXCEPT !.amount = amount, !.advanced = FALSE]
          /\ bet'.spend = amount /\ (IsMobileNew(bet') \/ IsMobileExisting(bet'))
    <3>1. CASE \E quote \in Quotes : SelectMarket(quote)
      <4>1. PICK quote \in Quotes : SelectMarket(quote)
        BY <3>1
      <4>2. /\ panel' = [panel EXCEPT !.amount = 1000, !.advanced = FALSE]
            /\ bet' = [kind |-> "existing", quote |-> quote, side |-> "yes", spend |-> 1000,
                       limit |-> NoLimit]
        BY <1>4, <4>1 DEF SelectMarket
      <4>3. bet'.spend = 1000 /\ IsMobileExisting(bet')
        BY <4>2 DEF IsMobileExisting
      <4>4. PICK amount \in Nat : amount = 1000
        OBVIOUS
      <4>5. panel' = [panel EXCEPT !.amount = amount, !.advanced = FALSE] /\ bet'.spend = amount
        BY <4>2, <4>3, <4>4
      <4> QED BY <4>3, <4>5
    <3>2. CASE SelectCandidate
      <4>1. /\ panel' = [panel EXCEPT !.amount = 500, !.advanced = FALSE]
            /\ bet' = [kind |-> "new", side |-> "yes", spend |-> 500, price |-> 50]
        BY <1>4, <3>2 DEF SelectCandidate
      <4>2. bet'.spend = 500 /\ IsMobileNew(bet')
        BY <4>1 DEF IsMobileNew
      <4>3. 500 \in Nat
        OBVIOUS
      <4> QED BY <4>1, <4>2, <4>3
    <3> QED BY <3>1, <3>2
  <2>2. IsPanel(panel') /\ panel'.amount = bet'.spend
    BY <1>1, <2>1 DEF IsPanel
  <2>3. IsPanel(panel)' /\ (IsMobileNew(bet)' \/ IsMobileExisting(bet)')
    BY <2>1, <2>2 DEF IsPanel, IsMobileNew, IsMobileExisting
  <2> QED BY <1>1, <1>2, <1>4, <2>2, <2>3 DEF BetInv
<1> QED BY <1>1, <1>3, <1>4

LEMMA UnselectKeeps == ASSUME BetInv, Unselect PROVE BetInv'
<1>1. bet' = NoBet /\ editing' = editing /\ sent' = sent /\ IsPanel(panel)
      /\ (panel' = panel \/ panel' = [panel EXCEPT !.limit = NoLimit, !.advanced = FALSE])
  BY DEF Unselect, BetInv
<1>2. IsPanel(panel')
  BY <1>1 DEF IsPanel
<1>3. IsPanel(panel)' /\ SentIsRight'
  BY <1>1, <1>2 DEF IsPanel, SentIsRight, BetInv
<1> QED BY <1>1, <1>3 DEF BetInv, NoBet

LEMMA EditKeeps == ASSUME BetInv, NEW p, IsPanel(p), Edit(p) PROVE BetInv'
<1>1. /\ editing = "web" /\ bet # NoBet /\ panel' = p /\ editing' = editing /\ sent' = sent
      /\ bet' = Pushed(bet, Depends(bet.kind, bet.quote, panel), p)
      /\ IsWebBet(bet) /\ WrittenOrEmpty(bet, panel)
  BY DEF Edit, BetInv
<1>2. Depends(bet.kind, bet.quote, panel) = Depends(bet.kind, bet.quote, p)
        => WrittenOrEmpty(bet, p)
  BY <1>1 DEF WrittenOrEmpty, Depends, Watched
<1>3. IsWebBet(bet') /\ WrittenOrEmpty(bet', p)
  BY <1>1, <1>2, PushedIsWritten
<1>4. IsWebBet(bet)' /\ WrittenOrEmpty(bet, panel)' /\ IsPanel(panel)' /\ SentIsRight'
  BY <1>1, <1>3 DEF IsWebBet, WrittenOrEmpty, PanelPrice, SharesFor, IsPanel, SentIsRight, BetInv
<1> QED BY <1>1, <1>4 DEF BetInv

LEMMA RewriteKeeps ==
  ASSUME BetInv, NEW b, NEW p, Rewrite(b, p), IsPanel(p), b.spend = p.amount,
         IsMobileNew(b) \/ IsMobileExisting(b)
  PROVE  BetInv'
<1>1. /\ editing = "mobile" /\ bet' = b /\ panel' = p /\ editing' = editing /\ sent' = sent
  BY DEF Rewrite
<1>2. /\ IsPanel(panel)' /\ SentIsRight' /\ (IsMobileNew(bet)' \/ IsMobileExisting(bet)')
      /\ bet'.spend = panel'.amount
  BY <1>1 DEF IsPanel, IsMobileNew, IsMobileExisting, SentIsRight, BetInv
<1> QED BY <1>1, <1>2 DEF BetInv


LEMMA EditPanelKeeps == ASSUME BetInv, EditPanel PROVE BetInv'
<1>1. IsPanel(panel)
  BY DEF BetInv
<1>2. \E p : Edit(p) /\ IsPanel(p)
  <2>1. CASE \E side \in {"yes", "no"} : Edit([panel EXCEPT !.side = side])
    <3>1. PICK side : Edit([panel EXCEPT !.side = side])
      BY <2>1
    <3>2. IsPanel([panel EXCEPT !.side = side])
      BY <1>1 DEF IsPanel
    <3> QED BY <3>1, <3>2
  <2>2. CASE \E amount \in Amounts : Edit([panel EXCEPT !.amount = amount])
    <3>1. PICK amount : Edit([panel EXCEPT !.amount = amount])
      BY <2>2
    <3>2. IsPanel([panel EXCEPT !.amount = amount])
      BY <1>1 DEF IsPanel
    <3> QED BY <3>1, <3>2
  <2>3. CASE bet.kind = "new" /\ \E slide \in Slides : Edit([panel EXCEPT !.slider = slide])
    <3>1. PICK slide : Edit([panel EXCEPT !.slider = slide])
      BY <2>3
    <3>2. IsPanel([panel EXCEPT !.slider = slide])
      BY <1>1 DEF IsPanel
    <3> QED BY <3>1, <3>2
  <2>4. CASE bet.kind = "existing" /\ Edit([panel EXCEPT !.advanced = ~@])
    <3>1. IsPanel([panel EXCEPT !.advanced = ~ panel.advanced])
      BY <1>1 DEF IsPanel
    <3> QED BY <2>4, <3>1
  <2>5. CASE \E limit \in Limits \cup {NoLimit} : Edit([panel EXCEPT !.limit = limit])
    <3>1. PICK limit : Edit([panel EXCEPT !.limit = limit])
      BY <2>5
    <3>2. IsPanel([panel EXCEPT !.limit = limit])
      BY <1>1 DEF IsPanel
    <3> QED BY <3>1, <3>2
  <2> QED BY <2>1, <2>2, <2>3, <2>4, <2>5 DEF EditPanel
<1> QED BY <1>2, EditKeeps

LEMMA RewritesKeep ==
  ASSUME BetInv,
         \/ \E side \in {"yes", "no"} : SetSide(side)
         \/ \E amount \in Amounts : SetSpend(amount)
         \/ \E price \in Slides : Slide(price)
         \/ \E by \in {-1, 1} : Step(by)
         \/ Unfold
  PROVE  BetInv'
<1>1. IsPanel(panel)
  BY DEF BetInv
<1>2. ASSUME editing = "mobile", bet # NoBet
      PROVE  (IsMobileNew(bet) \/ IsMobileExisting(bet)) /\ bet.spend = panel.amount
  BY <1>2 DEF BetInv
<1>3. CASE \E side \in {"yes", "no"} : SetSide(side)
  <2>1. PICK side : Rewrite([bet EXCEPT !.side = side], panel)
    BY <1>3 DEF SetSide
  <2>2. editing = "mobile" /\ bet # NoBet
    BY <2>1 DEF Rewrite
  <2> DEFINE b == [bet EXCEPT !.side = side]
  <2>3. IsMobileNew(bet) => IsMobileNew(b) /\ b.spend = bet.spend
    BY DEF IsMobileNew
  <2>4. IsMobileExisting(bet) => IsMobileExisting(b) /\ b.spend = bet.spend
    BY DEF IsMobileExisting
  <2>5. (IsMobileNew(b) \/ IsMobileExisting(b)) /\ b.spend = panel.amount
    BY <1>2, <2>2, <2>3, <2>4
  <2> HIDE DEF b
  <2>6. Rewrite(b, panel)
    BY <2>1 DEF b
  <2> QED BY <1>1, <2>5, <2>6, RewriteKeeps
<1>4. CASE \E amount \in Amounts : SetSpend(amount)
  <2>1. PICK amount \in Amounts :
          Rewrite([bet EXCEPT !.spend = amount], [panel EXCEPT !.amount = amount])
    BY <1>4 DEF SetSpend
  <2>2. editing = "mobile" /\ bet # NoBet /\ amount \in Nat
    BY <2>1, AttachmentAssumption DEF Rewrite
  <2> DEFINE b == [bet EXCEPT !.spend = amount]
             p == [panel EXCEPT !.amount = amount]
  <2>3. IsMobileNew(bet) => IsMobileNew(b) /\ b.spend = amount
    BY <2>2 DEF IsMobileNew
  <2>4. IsMobileExisting(bet) => IsMobileExisting(b) /\ b.spend = amount
    BY <2>2 DEF IsMobileExisting
  <2>5. IsPanel(p) /\ p.amount = amount
    BY <1>1 DEF IsPanel
  <2>6. (IsMobileNew(b) \/ IsMobileExisting(b)) /\ b.spend = p.amount
    BY <1>2, <2>2, <2>3, <2>4, <2>5
  <2>7. Rewrite(b, p)
    BY <2>1
  <2> HIDE DEF b, p
  <2> QED BY <2>5, <2>6, <2>7, RewriteKeeps
<1>5. CASE \E price \in Slides : Slide(price)
  <2>1. PICK price \in Slides : bet.kind = "new" /\ Rewrite([bet EXCEPT !.price = price], panel)
    BY <1>5 DEF Slide
  <2>2. editing = "mobile" /\ bet # NoBet /\ price \in 1 .. 99
    BY <2>1, AttachmentAssumption DEF Rewrite
  <2> DEFINE b == [bet EXCEPT !.price = price]
  <2>3. IsMobileNew(bet)
    BY <1>2, <2>1, <2>2 DEF IsMobileExisting
  <2>4. IsMobileNew(b) /\ b.spend = bet.spend
    BY <2>2, <2>3 DEF IsMobileNew
  <2>5. Rewrite(b, panel) /\ b.spend = panel.amount
    BY <1>2, <2>1, <2>2, <2>4
  <2> HIDE DEF b
  <2> QED BY <1>1, <2>4, <2>5, RewriteKeeps
<1>6. CASE \E by \in {-1, 1} : Step(by)
  <2>1. PICK limit : bet.kind = "existing" /\ Rewrite([bet EXCEPT !.limit = limit], panel)
    BY <1>6 DEF Step
  <2>2. editing = "mobile" /\ bet # NoBet
    BY <2>1 DEF Rewrite
  <2> DEFINE b == [bet EXCEPT !.limit = limit]
  <2>3. IsMobileExisting(bet)
    BY <1>2, <2>1, <2>2 DEF IsMobileNew
  <2>4. IsMobileExisting(b) /\ b.spend = bet.spend
    BY <2>2, <2>3 DEF IsMobileExisting
  <2>5. Rewrite(b, panel) /\ b.spend = panel.amount
    BY <1>2, <2>1, <2>2, <2>4
  <2> HIDE DEF b
  <2> QED BY <1>1, <2>4, <2>5, RewriteKeeps
<1>7. CASE Unfold
  <2> DEFINE p == [panel EXCEPT !.advanced = ~ panel.advanced]
  <2>1. Rewrite(bet, p)
    BY <1>7 DEF Unfold
  <2>2. editing = "mobile" /\ bet # NoBet
    BY <2>1 DEF Rewrite
  <2>3. IsPanel(p) /\ p.amount = panel.amount
    BY <1>1 DEF IsPanel
  <2> HIDE DEF p
  <2> QED BY <1>2, <2>1, <2>2, <2>3, RewriteKeeps
<1> QED BY <1>3, <1>4, <1>5, <1>6, <1>7

(* Shares that divide the amount spend all of it.                            *)
LEMMA WholeSpend ==
  ASSUME NEW spend \in Nat, NEW price \in 1 .. 99, spend % price = 0
  PROVE  SharesFor(spend, price) * price = spend
<1>1. spend = price * (spend \div price) + (spend % price)
  OBVIOUS
<1> QED BY <1>1 DEF SharesFor

LEMMA SendBetKeeps == ASSUME BetInv, SendBet PROVE BetInv'
<1>1. /\ bet # NoBet /\ AttachmentValid /\ UNCHANGED <<editing, panel, bet>>
      /\ sent' = [kind |-> bet.kind, shown |-> PanelShown(bet, panel), signed |-> Signed(bet),
                  amount |-> panel.amount]
  BY DEF SendBet
<1>2. /\ sent'.kind = bet.kind /\ sent'.shown = PanelShown(bet, panel)
      /\ sent'.signed = Signed(bet) /\ sent'.amount = panel.amount
  BY <1>1
<1>3. CASE editing = "web"
  <2>1. Signed(bet).shares = bet.shares /\ Signed(bet).price = bet.price
    BY <1>3 DEF Signed
  <2>2. bet.shares > 0 /\ (bet.kind = "new" => Opening(bet.shares, bet.price) >= 100)
    BY <1>1, <1>3 DEF AttachmentValid
  <2>3. ~ (bet.shares = 0)
    BY <2>2
  <2>4. Signed(bet) = PanelShown(bet, panel)
    BY <1>1, <2>3, ShownIsSigned
  <2>5. bet.kind = "new" => OpeningTaken(Signed(bet))
    BY <2>1, <2>2 DEF OpeningTaken
  <2>6. SentIsRight'
    BY <1>1, <1>2, <1>3, <2>1, <2>2, <2>4, <2>5 DEF SentIsRight, OpeningTaken, Opening
  <2> QED BY <1>1, <1>3, <2>6
          DEF BetInv, IsPanel, IsWebBet, WrittenOrEmpty, PanelPrice, SharesFor
<1>4. CASE editing = "mobile"
  <2>1. Signed(bet) = PanelShown(bet, panel) /\ Signed(bet).price = MobilePrice(bet)
        /\ Signed(bet).shares = SharesFor(bet.spend, MobilePrice(bet))
    BY <1>1, <1>4, ShownIsSigned DEF Signed
  <2>2. ASSUME bet.kind = "new", ~ OpeningTaken(Signed(bet))
        PROVE  panel.amount >= 100 /\ panel.amount % Signed(bet).price # 0
    <3>1. IsMobileNew(bet) /\ bet.spend = panel.amount
      BY <1>1, <1>4, <2>2 DEF BetInv, IsMobileExisting
    <3>2. bet.spend >= 100 /\ MobilePrice(bet) = bet.price
      BY <1>1, <1>4, <2>2 DEF AttachmentValid, MobilePrice
    <3>3. ~ (SharesFor(bet.spend, bet.price) * bet.price >= 100)
      BY <2>1, <2>2, <3>2 DEF OpeningTaken, Opening
    <3>4. bet.spend % bet.price # 0
      <4>1. bet.spend \in Nat /\ bet.price \in 1 .. 99
        BY <3>1 DEF IsMobileNew
      <4> QED BY <3>2, <3>3, <4>1, WholeSpend
    <3> QED BY <2>1, <3>1, <3>2, <3>4
  <2>3. SentIsRight'
    BY <1>1, <1>2, <1>4, <2>1, <2>2 DEF SentIsRight, OpeningTaken, Opening
  <2> QED BY <1>1, <1>4, <2>3 DEF BetInv, IsPanel, IsMobileNew, IsMobileExisting
<1> QED BY <1>3, <1>4 DEF BetInv

LEMMA AttachmentStep == BetInv /\ [AttachmentNext]_attachmentVars => BetInv'
<1> SUFFICES ASSUME BetInv, [AttachmentNext]_attachmentVars PROVE BetInv'
  OBVIOUS
<1>1. CASE UNCHANGED attachmentVars
  <2>1. UNCHANGED <<editing, panel, bet, sent>>
    BY <1>1 DEF attachmentVars
  <2> QED BY <2>1 DEF BetInv, IsPanel, IsWebBet, IsMobileNew, IsMobileExisting, WrittenOrEmpty,
                      PanelPrice, SharesFor, SentIsRight
<1> QED BY <1>1, SelectKeeps, UnselectKeeps, EditPanelKeeps, RewritesKeep, SendBetKeeps
        DEF AttachmentNext

(* The bet signed is the bet the panel shows, whatever was chosen, removed   *)
(* and edited before, for any amounts, prices and slides, and one that opens *)
(* a market opens it with the dollar the backend wants, but for what the     *)
(* shares leave of a mobile amount (AttachMarket.tsx effect on side,         *)
(* priceCents and shares; create page attachmentValid; handleCreateMarket).  *)
THEOREM BetSignedAsShown == Spec => []BetAsShown
<1>1. Init => BetInv
  BY DEF Init, AttachmentInit, BetInv, IsPanel, SentIsRight
<1>2. BetInv /\ [Next]_screenVars => BetInv'
  BY ScreenMoves, AttachmentStep
<1>3. BetInv => BetAsShown
  BY ShownIsSigned DEF BetAsShown, BetInv, SentIsRight
<1> QED BY <1>1, <1>2, <1>3, PTL DEF Spec

-----------------------------------------------------------------------------
(* The demo's page *)

Txs == [of : Nat, step : Steps, amount : Nat]
DemoRequests ==
  [step : Steps \cup {"idle", "allowance", "check", "snapshot"},
   wait : {"none", "sent", "receipt"}, amount : Nat, number : Nat]

DemoTypes ==
  /\ funds \in Nat /\ granted \in Nat /\ mempool \in Seq(Txs) /\ numbered \in Nat
  /\ request \in [Visitors -> DemoRequests] /\ placed \subseteq Nat
  /\ told \in [confirmed : SUBSET Nat, failed : SUBSET Nat]

(* Requests have numbers of their own. *)
DemoNumbers ==
  /\ \A v \in Visitors : Bidding(v) => request[v].number <= numbered
  /\ \A u, v \in Visitors :
       Bidding(u) /\ Bidding(v) /\ request[u].number = request[v].number => u = v
  /\ \A i \in 1 .. Len(mempool) : mempool[i].of <= numbered
  /\ \A n \in told.confirmed \cup told.failed \cup placed : n <= numbered

(* A request's transaction in the mempool is the one it waits for, or the    *)
(* first approval it gave up on, which is before its reset.                  *)
OwnTx(r, t) ==
  \/ t.step = r.step /\ r.wait = "sent" /\ t.amount = r.amount
  \/ t.step = "approve" /\ r.step = "reset" /\ r.wait # "receipt"

DemoPool ==
  /\ \A v \in Visitors : Bidding(v) =>
       \A i \in 1 .. Len(mempool) : mempool[i].of = request[v].number => OwnTx(request[v], mempool[i])
  /\ \A i, j \in 1 .. Len(mempool) :
       i < j /\ mempool[i].of = mempool[j].of =>
         mempool[i].step = "approve" /\ mempool[j].step = "reset"

(* A request nobody crossed can pay for the bid it is about to place, or has *)
(* placed; one without a verdict is in no list of them.                      *)
RequestSound(v) ==
  LET r == request[v] IN
  /\ r.wait # "none" => r.step \in Steps
  /\ Bidding(v) =>
       /\ r.number \notin told.failed /\ (r.step # "snapshot" => r.number \notin told.confirmed)
       /\ r.step = "snapshot" \/ (r.step = "bid" /\ r.wait # "none") \/ r.number \notin placed
       /\ r.step = "bid" /\ r.wait = "receipt" => r.number \in placed \cup met
       /\ r.step = "bid" /\ r.wait # "receipt" /\ r.number \notin met => granted >= r.amount
       /\ r.step = "bid" /\ r.wait = "sent" /\ r.number \notin met =>
            r.amount >= BaseFee /\ r.amount <= funds

(* One that failed and did not give up has no bid, placed or on its way.     *)
FailedHaveNone ==
  \A n \in told.failed \ gaveUp :
    n \notin placed /\ \A i \in 1 .. Len(mempool) : ~ (mempool[i].of = n /\ mempool[i].step = "bid")

DemoInv ==
  /\ DemoTypes /\ DemoNumbers /\ DemoPool /\ FailedHaveNone
  /\ \A v \in Visitors : RequestSound(v)
  /\ told.confirmed \subseteq placed \cup met /\ told.confirmed \cap told.failed = {}

LEMMA PoolGrows ==
  ASSUME NEW s \in Seq(Txs), NEW t \in Txs
  PROVE  /\ Append(s, t) \in Seq(Txs) /\ Len(s) \in Nat
         /\ \A i \in 1 .. Len(Append(s, t)) :
              \/ i \in 1 .. Len(s) /\ Append(s, t)[i] = s[i]
              \/ i = Len(s) + 1 /\ Append(s, t)[i] = t
OBVIOUS

LEMMA PoolShrinks ==
  ASSUME NEW s \in Seq(Txs), s # <<>>
  PROVE  /\ Tail(s) \in Seq(Txs) /\ Head(s) \in Txs /\ Head(s) = s[1] /\ 1 \in 1 .. Len(s)
         /\ \A i \in 1 .. Len(Tail(s)) : i + 1 \in 1 .. Len(s) /\ Tail(s)[i] = s[i + 1] /\ 1 < i + 1
OBVIOUS

LEMMA DemoInitial == DemoInit => DemoInv
<1> SUFFICES ASSUME DemoInit PROVE DemoInv
  OBVIOUS
<1>1. /\ funds = Purse /\ granted \in {0, BaseFee} /\ mempool = <<>> /\ numbered = 0
      /\ request = [v \in Visitors |-> NoBidRequest]
      /\ placed = {} /\ told = [confirmed |-> {}, failed |-> {}] /\ gaveUp = {} /\ met = {}
  BY DEF DemoInit
<1>2. Purse \in Nat /\ BaseFee \in Nat
  BY DemoAssumption
<1>3. NoBidRequest \in DemoRequests /\ NoBidRequest.step = "idle" /\ NoBidRequest.wait = "none"
  BY DEF NoBidRequest, DemoRequests, Steps
<1>4. told \in [confirmed : SUBSET Nat, failed : SUBSET Nat] /\ told.confirmed = {} /\ told.failed = {}
  BY <1>1
<1>5. mempool \in Seq(Txs) /\ Len(mempool) = 0
  BY <1>1
<1>6. \A v \in Visitors : request[v] = NoBidRequest /\ ~ Bidding(v)
  BY <1>1, <1>3 DEF Bidding
<1> QED BY <1>1, <1>2, <1>3, <1>4, <1>5, <1>6
        DEF DemoInv, DemoTypes, DemoNumbers, DemoPool, FailedHaveNone, RequestSound

(* What a step of the request of v leaves to show, if the chain rests.       *)
LEMMA RequestMoves ==
  ASSUME DemoInv, NEW v \in Visitors, NEW r \in DemoRequests,
         request' = [request EXCEPT ![v] = r],
         UNCHANGED <<funds, granted, mempool, placed, numbered, met>>, r.step # "idle",
         Bidding(v), r.number = request[v].number, told' = told, gaveUp \subseteq gaveUp',
         RequestSound(v)',
         \A i \in 1 .. Len(mempool) : mempool[i].of = r.number => OwnTx(r, mempool[i])
  PROVE  DemoInv'
<1>1. /\ request \in [Visitors -> DemoRequests] /\ request' \in [Visitors -> DemoRequests]
      /\ request'[v] = r /\ \A u \in Visitors \ {v} : request'[u] = request[u]
  BY DEF DemoInv, DemoTypes
<1>2. /\ Bidding(v)' /\ \A u \in Visitors \ {v} : Bidding(u)' <=> Bidding(u)
  BY <1>1 DEF Bidding
<1>3. DemoTypes'
  BY <1>1 DEF DemoInv, DemoTypes
<1>4. DemoNumbers'
  BY <1>1, <1>2 DEF DemoInv, DemoNumbers
<1>5. DemoPool'
  BY <1>1, <1>2 DEF DemoInv, DemoPool
<1>6. FailedHaveNone'
  BY DEF DemoInv, FailedHaveNone
<1>7. \A u \in Visitors : RequestSound(u)'
  BY <1>1, <1>2 DEF DemoInv, RequestSound
<1> QED BY <1>3, <1>4, <1>5, <1>6, <1>7 DEF DemoInv

(* A request ends without a verdict, or with one that is true of it.         *)
LEMMA RequestEnds ==
  ASSUME DemoInv, NEW v \in Visitors, Bidding(v), request' = [request EXCEPT ![v] = NoBidRequest],
         UNCHANGED <<funds, granted, mempool, placed, numbered, met>>, gaveUp \subseteq gaveUp',
         \/ told' = told
         \/ /\ told' = [told EXCEPT !.failed = @ \cup {request[v].number}]
            /\ request[v].step # "snapshot"
            /\ request[v].wait = "none" \/ request[v].number \in gaveUp'
  PROVE  DemoInv'
<1> DEFINE n == request[v].number
<1>1. /\ request \in [Visitors -> DemoRequests] /\ NoBidRequest \in DemoRequests
      /\ request' \in [Visitors -> DemoRequests]
      /\ request'[v] = NoBidRequest /\ \A u \in Visitors \ {v} : request'[u] = request[u]
  BY DEF DemoInv, DemoTypes, NoBidRequest, DemoRequests
<1>2. /\ ~ Bidding(v)' /\ \A u \in Visitors \ {v} : Bidding(u)' <=> Bidding(u)
  BY <1>1 DEF Bidding, NoBidRequest
<1>3. n \in Nat /\ n <= numbered
  BY <1>1 DEF DemoInv, DemoNumbers, DemoRequests
<1>4. /\ told' \in [confirmed : SUBSET Nat, failed : SUBSET Nat]
      /\ told'.confirmed = told.confirmed
      /\ told'.failed = told.failed \/
           (/\ told'.failed = told.failed \cup {n} /\ request[v].step # "snapshot"
            /\ request[v].wait = "none" \/ n \in gaveUp')
  BY <1>3 DEF DemoInv, DemoTypes
<1>5. DemoTypes'
  BY <1>1, <1>4 DEF DemoInv, DemoTypes
<1>6. DemoNumbers'
  BY <1>1, <1>2, <1>3, <1>4 DEF DemoInv, DemoNumbers
<1>7. DemoPool'
  BY <1>1, <1>2 DEF DemoInv, DemoPool
<1>8. request[v].wait = "none" /\ request[v].step # "snapshot" =>
        n \notin placed /\ \A i \in 1 .. Len(mempool) : ~ (mempool[i].of = n /\ mempool[i].step = "bid")
  BY DEF DemoInv, DemoPool, OwnTx, RequestSound
<1>9. FailedHaveNone'
  BY <1>4, <1>8 DEF DemoInv, FailedHaveNone
<1>10. \A u \in Visitors : RequestSound(u)'
  <2>1. \A u \in Visitors \ {v} : Bidding(u) => request[u].number # n
    BY DEF DemoInv, DemoNumbers
  <2> QED BY <1>1, <1>2, <1>4, <2>1 DEF DemoInv, RequestSound, NoBidRequest
<1>11. told'.confirmed \subseteq placed \cup met /\ told'.confirmed \cap told'.failed = {}
  BY <1>4 DEF DemoInv, RequestSound
<1> QED BY <1>5, <1>6, <1>7, <1>9, <1>10, <1>11 DEF DemoInv


LEMMA GoesIs ==
  ASSUME DemoInv, NEW v \in Visitors, NEW to, Goes(v, to), to \in Steps \cup {"check", "snapshot"}
  PROVE  \E r \in DemoRequests :
           /\ request' = [request EXCEPT ![v] = r] /\ request'[v] = r
           /\ r.step = to /\ r.wait = "none" /\ r.step # "idle"
           /\ r.amount = request[v].amount /\ r.number = request[v].number
<1>q. PICK q : q = request[v]
  OBVIOUS
<1>r. PICK r : r = [step |-> to, wait |-> "none", amount |-> q.amount, number |-> q.number]
  OBVIOUS
<1>1. request \in [Visitors -> DemoRequests] /\ q \in DemoRequests
  BY <1>q DEF DemoInv, DemoTypes
<1>2. q = [step |-> q.step, wait |-> q.wait, amount |-> q.amount, number |-> q.number]
      /\ q.amount \in Nat /\ q.number \in Nat
  BY <1>1 DEF DemoRequests
<1>3. request' = [request EXCEPT ![v] = [[q EXCEPT !.step = to] EXCEPT !.wait = "none"]]
  BY <1>1, <1>q DEF Goes
<1>4. [[q EXCEPT !.step = to] EXCEPT !.wait = "none"] = r
  <2>1. PICK p : p = [q EXCEPT !.step = to]
    OBVIOUS
  <2>2. p = [step |-> to, wait |-> q.wait, amount |-> q.amount, number |-> q.number]
    BY <1>2, <2>1
  <2>3. [p EXCEPT !.wait = "none"] = r
    BY <2>2, <1>r
  <2> QED BY <2>1, <2>3
<1>5. r \in DemoRequests /\ r.step # "idle"
  BY <1>2, <1>r DEF DemoRequests, Steps
<1>6. request' = [request EXCEPT ![v] = r] /\ request'[v] = r
  BY <1>1, <1>3, <1>4
<1> QED BY <1>5, <1>6, <1>q, <1>r

LEMMA QueueKeeps == ASSUME DemoInv, NEW v \in Visitors, NEW amount \in Nat, Queue(v, amount) PROVE DemoInv'
<1> DEFINE n == numbered + 1
           r == [step |-> "allowance", wait |-> "none", amount |-> amount, number |-> n]
<1>1. /\ ~ Bidding(v) /\ numbered' = n
      /\ \/ request' = request /\ told' = [told EXCEPT !.failed = @ \cup {n}]
         \/ told' = told /\ request' = [request EXCEPT ![v] = r]
      /\ UNCHANGED <<funds, granted, mempool, placed, gaveUp, met>>
  BY DEF Queue, chainVars
<1>2. numbered \in Nat /\ n \in Nat /\ numbered < n /\ ~ (n <= numbered)
  BY DEF DemoInv, DemoTypes
<1>3. r \in DemoRequests /\ r.step = "allowance" /\ r.wait = "none" /\ r.number = n
  BY <1>2 DEF DemoRequests, Steps
<1> HIDE DEF r, n
<1>4. /\ \A i \in 1 .. Len(mempool) : mempool[i].of # n
      /\ n \notin told.confirmed /\ n \notin told.failed /\ n \notin placed
      /\ \A u \in Visitors : Bidding(u) => request[u].number # n
  BY <1>2 DEF DemoInv, DemoNumbers
<1>5. /\ \A m \in Nat : m <= numbered => m <= n
      /\ \A u \in Visitors : request[u].number \in Nat
      /\ \A i \in 1 .. Len(mempool) : mempool[i].of \in Nat
  <2>1. mempool \in Seq(Txs) /\ request \in [Visitors -> DemoRequests]
    BY DEF DemoInv, DemoTypes
  <2>2. \A i \in 1 .. Len(mempool) : mempool[i] \in Txs
    BY <2>1
  <2>3. \A m \in Nat : m <= numbered => m <= n
    BY <1>2
  <2> QED BY <2>1, <2>2, <2>3 DEF Txs, DemoRequests
<1>6. CASE request' = request /\ told' = [told EXCEPT !.failed = @ \cup {n}]
  <2>1. /\ told' \in [confirmed : SUBSET Nat, failed : SUBSET Nat]
        /\ told'.confirmed = told.confirmed /\ told'.failed = told.failed \cup {n}
    BY <1>2, <1>6 DEF DemoInv, DemoTypes
  <2>2. DemoTypes'
    BY <1>1, <1>2, <1>6, <2>1 DEF DemoInv, DemoTypes
  <2>3. \A u \in Visitors : Bidding(u)' <=> Bidding(u)
    BY <1>6 DEF Bidding
  <2>4. \A m \in told'.confirmed \cup told'.failed \cup placed : m <= n
    <3>1. told.confirmed \cup told.failed \subseteq Nat
      BY DEF DemoInv, DemoTypes
    <3>2. \A m \in told.confirmed \cup told.failed : m <= n
      BY <1>5, <3>1 DEF DemoInv, DemoNumbers
    <3>3. \A m \in placed : m <= n
      BY <1>2 DEF DemoInv, DemoNumbers, DemoTypes
    <3>4. n <= n
      BY <1>2
    <3> QED BY <2>1, <3>2, <3>3, <3>4
  <2>5. DemoNumbers'
    BY <1>1, <1>2, <1>5, <1>6, <2>3, <2>4 DEF DemoInv, DemoNumbers
  <2>6. DemoPool'
    BY <1>1, <1>6, <2>3 DEF DemoInv, DemoPool
  <2>7. FailedHaveNone'
    BY <1>1, <1>4, <2>1 DEF DemoInv, FailedHaveNone
  <2>8. \A u \in Visitors : RequestSound(u)'
    BY <1>1, <1>4, <1>6, <2>1, <2>3 DEF DemoInv, RequestSound
  <2>9. told'.confirmed \subseteq placed \cup met /\ told'.confirmed \cap told'.failed = {}
    BY <1>4, <2>1 DEF DemoInv
  <2> QED BY <1>1, <2>2, <2>5, <2>6, <2>7, <2>8, <2>9 DEF DemoInv
<1>7. CASE told' = told /\ request' = [request EXCEPT ![v] = r]
  <2>1. /\ request' \in [Visitors -> DemoRequests] /\ request'[v] = r
        /\ \A u \in Visitors \ {v} : request'[u] = request[u]
    BY <1>3, <1>7 DEF DemoInv, DemoTypes
  <2>2. Bidding(v)' /\ \A u \in Visitors \ {v} : Bidding(u)' <=> Bidding(u)
    BY <1>3, <2>1 DEF Bidding
  <2>3. DemoTypes'
    BY <1>1, <1>2, <1>7, <2>1 DEF DemoInv, DemoTypes
  <2>4. \A m \in told.confirmed \cup told.failed \cup placed : m <= n
    <3>1. told.confirmed \cup told.failed \subseteq Nat
      BY DEF DemoInv, DemoTypes
    <3>2. \A m \in told.confirmed \cup told.failed : m <= n
      BY <1>5, <3>1 DEF DemoInv, DemoNumbers
    <3>3. \A m \in placed : m <= n
      BY <1>2 DEF DemoInv, DemoNumbers, DemoTypes
    <3> QED BY <3>2, <3>3
  <2>5. DemoNumbers'
    <3>1. \A u \in Visitors : Bidding(u)' => request'[u].number <= n
      BY <1>2, <1>3, <1>5, <2>1, <2>2 DEF DemoInv, DemoNumbers
    <3>2. \A u, w \in Visitors :
            Bidding(u)' /\ Bidding(w)' /\ request'[u].number = request'[w].number => u = w
      BY <1>3, <1>4, <2>1, <2>2 DEF DemoInv, DemoNumbers
    <3>3. \A i \in 1 .. Len(mempool) : mempool[i].of <= n
      BY <1>5 DEF DemoInv, DemoNumbers
    <3> QED BY <1>1, <1>7, <2>4, <3>1, <3>2, <3>3 DEF DemoNumbers
  <2>6. DemoPool'
    BY <1>1, <1>3, <1>4, <2>1, <2>2 DEF DemoInv, DemoPool
  <2>7. FailedHaveNone'
    BY <1>1, <1>7 DEF DemoInv, FailedHaveNone
  <2>8. \A u \in Visitors : RequestSound(u)'
    BY <1>1, <1>3, <1>4, <1>7, <2>1, <2>2 DEF DemoInv, RequestSound
  <2> QED BY <1>1, <1>7, <2>3, <2>5, <2>6, <2>7, <2>8 DEF DemoInv
<1> QED BY <1>1, <1>6, <1>7

LEMMA ReadAllowanceKeeps == ASSUME DemoInv, NEW v \in Visitors, ReadAllowance(v) PROVE DemoInv'
<1>1. /\ request[v].step = "allowance" /\ Goes(v, IF Allowed(v) THEN "bid" ELSE "approve")
      /\ UNCHANGED <<funds, granted, mempool, placed, numbered, told, gaveUp, met>>
  BY DEF ReadAllowance, chainVars, pageVars
<1>a. PICK to : to = (IF Allowed(v) THEN "bid" ELSE "approve") /\ Goes(v, to)
  BY <1>1
<1>b. to \in Steps \cup {"check", "snapshot"}
  BY <1>a DEF Steps
<1>2. PICK r \in DemoRequests :
        /\ request' = [request EXCEPT ![v] = r] /\ request'[v] = r
        /\ r.step = to /\ r.wait = "none" /\ r.step # "idle"
        /\ r.amount = request[v].amount /\ r.number = request[v].number
  BY <1>a, <1>b, GoesIs
<1>3. Bidding(v) /\ request[v].wait = "none"
  BY <1>1 DEF Bidding, DemoInv, RequestSound, Steps
<1>4. \A i \in 1 .. Len(mempool) : mempool[i].of = r.number => OwnTx(r, mempool[i])
  BY <1>1, <1>2, <1>3 DEF DemoInv, DemoPool, OwnTx
<1>5. RequestSound(v)'
  BY <1>1, <1>a, <1>2, <1>3 DEF DemoInv, RequestSound, Allowed, Bidding
<1> QED BY <1>1, <1>2, <1>3, <1>4, <1>5, RequestMoves

LEMMA SendTxKeeps == ASSUME DemoInv, NEW v \in Visitors, SendTx(v) PROVE DemoInv'
<1> DEFINE q == request[v]
           t == [of |-> q.number, step |-> q.step, amount |-> q.amount]
           r == [step |-> q.step, wait |-> "sent", amount |-> q.amount, number |-> q.number]
<1>1. /\ q.step \in Steps /\ q.wait = "none" /\ Works(t)
      /\ mempool' = Append(mempool, t) /\ request' = [request EXCEPT ![v].wait = "sent"]
      /\ UNCHANGED <<funds, granted, placed, numbered, told, gaveUp, met>>
  BY DEF SendTx, pageVars
<1>2. /\ request \in [Visitors -> DemoRequests] /\ q \in DemoRequests /\ q.number \in Nat
      /\ q.amount \in Nat /\ Bidding(v)
      /\ q = [step |-> q.step, wait |-> q.wait, amount |-> q.amount, number |-> q.number]
  BY <1>1 DEF DemoInv, DemoTypes, DemoRequests, Bidding, Steps
<1>3. /\ r \in DemoRequests /\ r.step = q.step /\ r.wait = "sent" /\ r.amount = q.amount
      /\ r.number = q.number /\ r = [q EXCEPT !.wait = "sent"]
  BY <1>1, <1>2 DEF DemoRequests
<1>4. /\ request' \in [Visitors -> DemoRequests] /\ request'[v] = r
      /\ \A u \in Visitors \ {v} : request'[u] = request[u]
  BY <1>1, <1>2, <1>3
<1>5. t \in Txs /\ t.of = q.number /\ t.step = q.step /\ t.amount = q.amount
  BY <1>1, <1>2 DEF Txs
<1>6. Works(t) /\ q.step = "bid" => q.amount >= BaseFee /\ q.amount <= funds /\ q.amount <= granted
  BY <1>5 DEF Works
<1> HIDE DEF t, r
<1>7. \A u \in Visitors : Bidding(u)' <=> Bidding(u)
  BY <1>2, <1>3, <1>4 DEF Bidding
<1>8. /\ mempool' \in Seq(Txs) /\ Len(mempool) \in Nat
      /\ \A i \in 1 .. Len(mempool') :
           \/ i \in 1 .. Len(mempool) /\ mempool'[i] = mempool[i]
           \/ i = Len(mempool) + 1 /\ mempool'[i] = t
  BY <1>1, <1>5, PoolGrows DEF DemoInv, DemoTypes
<1>9. DemoTypes'
  BY <1>1, <1>4, <1>8 DEF DemoInv, DemoTypes
<1>10. DemoNumbers'
  <2>1. \A i \in 1 .. Len(mempool') : mempool'[i].of <= numbered
    BY <1>2, <1>5, <1>8 DEF DemoInv, DemoNumbers
  <2>2. \A u \in Visitors : request'[u].number = request[u].number
    BY <1>3, <1>4
  <2> QED BY <1>1, <1>7, <2>1, <2>2 DEF DemoInv, DemoNumbers
<1>11. \A u \in Visitors \ {v} : Bidding(u) => request[u].number # q.number
  BY <1>2 DEF DemoInv, DemoNumbers
<1>12. \A i \in 1 .. Len(mempool) : mempool[i].of = q.number =>
         mempool[i].step = "approve" /\ q.step = "reset"
  BY <1>1, <1>2 DEF DemoInv, DemoPool, OwnTx
<1>13. DemoPool'
  <2>1. ASSUME NEW u \in Visitors, Bidding(u)', NEW i \in 1 .. Len(mempool'),
               mempool'[i].of = request'[u].number
        PROVE  OwnTx(request'[u], mempool'[i])
    <3>1. CASE i \in 1 .. Len(mempool) /\ mempool'[i] = mempool[i] /\ u = v
      BY <1>3, <1>4, <1>12, <2>1, <3>1 DEF OwnTx
    <3>2. CASE i \in 1 .. Len(mempool) /\ mempool'[i] = mempool[i] /\ u # v
      BY <1>4, <1>7, <2>1, <3>2 DEF DemoInv, DemoPool
    <3>3. CASE mempool'[i] = t /\ u = v
      BY <1>3, <1>4, <1>5, <3>3 DEF OwnTx
    <3>4. CASE mempool'[i] = t /\ u # v
      BY <1>4, <1>5, <1>7, <1>11, <2>1, <3>4
    <3> QED BY <1>8, <2>1, <3>1, <3>2, <3>3, <3>4
  <2>2. ASSUME NEW i \in 1 .. Len(mempool'), NEW j \in 1 .. Len(mempool'), i < j,
               mempool'[i].of = mempool'[j].of
        PROVE  mempool'[i].step = "approve" /\ mempool'[j].step = "reset"
    <3>1. i \in 1 .. Len(mempool) /\ mempool'[i] = mempool[i]
      BY <1>8, <2>2
    <3>2. CASE j \in 1 .. Len(mempool) /\ mempool'[j] = mempool[j]
      BY <2>2, <3>1, <3>2 DEF DemoInv, DemoPool
    <3>3. CASE mempool'[j] = t
      BY <1>5, <1>12, <2>2, <3>1, <3>3
    <3> QED BY <1>8, <3>2, <3>3
  <2> QED BY <2>1, <2>2 DEF DemoPool, OwnTx
<1>14. FailedHaveNone'
  BY <1>1, <1>2, <1>5, <1>8 DEF DemoInv, FailedHaveNone, RequestSound
<1>15. RequestSound(v)'
  BY <1>1, <1>2, <1>3, <1>4, <1>5, <1>6 DEF DemoInv, RequestSound, Bidding
<1>16. \A u \in Visitors \ {v} : RequestSound(u)'
  BY <1>1, <1>4, <1>7 DEF DemoInv, RequestSound
<1> QED BY <1>1, <1>9, <1>10, <1>13, <1>14, <1>15, <1>16 DEF DemoInv


(* The first approval that fails is tried again from zero, all else ends.    *)
LEMMA StopsKeeps ==
  ASSUME DemoInv, NEW v \in Visitors, Stops(v), Bidding(v),
         UNCHANGED <<funds, granted, mempool, placed, numbered, met>>, gaveUp \subseteq gaveUp',
         request[v].step # "snapshot", request[v].wait # "receipt",
         request[v].wait = "none" \/ request[v].number \in gaveUp'
  PROVE  DemoInv'
<1>1. CASE request[v].step = "approve"
  <2>1. Goes(v, "reset") /\ told' = told
    BY <1>1 DEF Stops
  <2>2. PICK r \in DemoRequests :
          /\ request' = [request EXCEPT ![v] = r] /\ request'[v] = r
          /\ r.step = "reset" /\ r.wait = "none" /\ r.step # "idle"
          /\ r.amount = request[v].amount /\ r.number = request[v].number
    <3>1. {"reset", "bid"} \subseteq Steps \cup {"check", "snapshot"}
      BY DEF Steps
    <3> QED BY <2>1, <3>1, GoesIs
  <2>3. \A i \in 1 .. Len(mempool) : mempool[i].of = r.number => OwnTx(r, mempool[i])
    BY <1>1, <2>2 DEF DemoInv, DemoPool, OwnTx
  <2>4. RequestSound(v)'
    BY <1>1, <2>1, <2>2 DEF DemoInv, RequestSound, Bidding
  <2> QED BY <2>1, <2>2, <2>3, <2>4, RequestMoves
<1>2. CASE request[v].step # "approve"
  <2>1. Concludes(v, "failed")
    BY <1>2 DEF Stops
  <2>2. /\ request' = [request EXCEPT ![v] = NoBidRequest]
        /\ told' = [told EXCEPT !.failed = @ \cup {request[v].number}]
    BY <2>1 DEF Concludes, Tells
  <2> QED BY <2>2, RequestEnds
<1> QED BY <1>1, <1>2

LEMMA StepFailsKeeps == ASSUME DemoInv, NEW v \in Visitors, StepFails(v) PROVE DemoInv'
<1>1. /\ request[v].step \in Steps \cup {"allowance", "check"} /\ request[v].wait = "none" /\ Stops(v)
      /\ UNCHANGED <<funds, granted, mempool, placed, numbered, met>> /\ gaveUp' = gaveUp
  BY DEF StepFails, chainVars, pageVars
<1>2. Bidding(v) /\ request[v].step # "snapshot"
  BY <1>1 DEF Bidding, Steps
<1> QED BY <1>1, <1>2, StopsKeeps

LEMMA GiveUpKeeps == ASSUME DemoInv, NEW v \in Visitors, GiveUp(v) PROVE DemoInv'
<1>1. /\ request[v].wait = "sent" /\ Stops(v) /\ gaveUp' = gaveUp \cup {request[v].number}
      /\ UNCHANGED <<funds, granted, mempool, placed, numbered, met>>
  BY DEF GiveUp, chainVars, pageVars
<1>2. Bidding(v) /\ request[v].step # "snapshot"
  BY <1>1 DEF Bidding, Steps, DemoInv, RequestSound
<1> QED BY <1>1, <1>2, StopsKeeps

LEMMA ReceiptCameKeeps == ASSUME DemoInv, NEW v \in Visitors, ReceiptCame(v) PROVE DemoInv'
<1> DEFINE q == request[v]
<1>1. /\ q.wait = "receipt" /\ q.step \in Steps /\ Bidding(v)
      /\ UNCHANGED <<funds, granted, mempool, placed, numbered, met, gaveUp>>
  BY DEF ReceiptCame, chainVars, pageVars, DemoInv, RequestSound, Bidding, Steps
<1>2. PICK to : /\ Goes(v, to) /\ to \in Steps \cup {"check", "snapshot"}
                /\ IF q.step = "bid" THEN to = "snapshot" /\ Tells(v, "confirmed")
                   ELSE to \in {"approve again", "check"} /\ told' = told
  BY <1>1 DEF ReceiptCame, Steps
<1>3. PICK r \in DemoRequests :
        /\ request' = [request EXCEPT ![v] = r] /\ request'[v] = r
        /\ r.step = to /\ r.wait = "none" /\ r.step # "idle"
        /\ r.amount = request[v].amount /\ r.number = request[v].number
  BY <1>2, GoesIs
<1>4. \A i \in 1 .. Len(mempool) : mempool[i].of # q.number
  BY <1>1 DEF DemoInv, DemoPool, OwnTx
<1>5. CASE q.step # "bid"
  <2>a. q.step # "snapshot" /\ r.step # "bid" /\ r.step # "snapshot" /\ told' = told
    BY <1>1, <1>2, <1>3, <1>5 DEF Steps
  <2>b. q.number \notin told.failed /\ q.number \notin told.confirmed /\ q.number \notin placed
    BY <1>1, <1>5, <2>a DEF DemoInv, RequestSound
  <2>1. RequestSound(v)'
    BY <1>1, <1>3, <2>a, <2>b DEF RequestSound
  <2> QED BY <1>1, <1>2, <1>3, <1>4, <1>5, <2>1, RequestMoves
<1>6. CASE q.step = "bid"
  <2>1. /\ request \in [Visitors -> DemoRequests] /\ request' \in [Visitors -> DemoRequests]
        /\ request'[v] = r /\ \A u \in Visitors \ {v} : request'[u] = request[u]
        /\ q.number \in Nat /\ q.number <= numbered
    BY <1>1, <1>3 DEF DemoInv, DemoTypes, DemoNumbers, DemoRequests
  <2>2. /\ told' = [told EXCEPT !.confirmed = @ \cup {q.number}] /\ r.step = "snapshot"
    BY <1>2, <1>3, <1>6 DEF Tells
  <2>3. /\ told' \in [confirmed : SUBSET Nat, failed : SUBSET Nat]
        /\ told'.failed = told.failed /\ told'.confirmed = told.confirmed \cup {q.number}
    BY <2>1, <2>2 DEF DemoInv, DemoTypes
  <2>4. \A u \in Visitors : Bidding(u)' <=> Bidding(u)
    BY <1>1, <1>3, <2>1 DEF Bidding
  <2>5. q.number \in placed \cup met /\ q.number \notin told.failed
    BY <1>1, <1>6 DEF DemoInv, RequestSound
  <2>6. DemoTypes'
    BY <1>1, <2>1, <2>3 DEF DemoInv, DemoTypes
  <2>7. DemoNumbers'
    BY <1>1, <1>3, <2>1, <2>3, <2>4 DEF DemoInv, DemoNumbers
  <2>8. DemoPool'
    BY <1>1, <1>3, <1>4, <2>1, <2>4 DEF DemoInv, DemoPool
  <2>9. FailedHaveNone'
    BY <1>1, <2>3 DEF DemoInv, FailedHaveNone
  <2>10. \A u \in Visitors : RequestSound(u)'
    <3>1. \A u \in Visitors \ {v} : Bidding(u) => request[u].number # q.number
      BY <1>1 DEF DemoInv, DemoNumbers
    <3>2. \A u \in Visitors \ {v} : RequestSound(u)'
      BY <1>1, <2>1, <2>3, <2>4, <3>1 DEF DemoInv, RequestSound
    <3>3. RequestSound(v)'
      BY <1>1, <1>3, <2>1, <2>2, <2>3, <2>4, <2>5 DEF RequestSound
    <3> QED BY <3>2, <3>3
  <2>11. told'.confirmed \subseteq placed \cup met /\ told'.confirmed \cap told'.failed = {}
    BY <2>3, <2>5 DEF DemoInv
  <2> QED BY <1>1, <2>6, <2>7, <2>8, <2>9, <2>10, <2>11 DEF DemoInv
<1> QED BY <1>5, <1>6

LEMMA CheckAllowanceKeeps == ASSUME DemoInv, NEW v \in Visitors, CheckAllowance(v) PROVE DemoInv'
<1>1. /\ request[v].step = "check" /\ Bidding(v) /\ request[v].wait = "none"
      /\ UNCHANGED <<funds, granted, mempool, placed, numbered, met, gaveUp>>
  BY DEF CheckAllowance, chainVars, pageVars, Bidding, DemoInv, RequestSound, Steps
<1>2. CASE Allowed(v)
  <2>1. Goes(v, "bid") /\ told' = told
    BY <1>2 DEF CheckAllowance
  <2>2. PICK r \in DemoRequests :
          /\ request' = [request EXCEPT ![v] = r] /\ request'[v] = r
          /\ r.step = "bid" /\ r.wait = "none" /\ r.step # "idle"
          /\ r.amount = request[v].amount /\ r.number = request[v].number
    <3>1. {"reset", "bid"} \subseteq Steps \cup {"check", "snapshot"}
      BY DEF Steps
    <3> QED BY <2>1, <3>1, GoesIs
  <2>3. \A i \in 1 .. Len(mempool) : mempool[i].of = r.number => OwnTx(r, mempool[i])
    BY <1>1, <2>2 DEF DemoInv, DemoPool, OwnTx
  <2>4. RequestSound(v)'
    BY <1>1, <1>2, <2>1, <2>2 DEF DemoInv, RequestSound, Bidding, Allowed
  <2> QED BY <1>1, <2>1, <2>2, <2>3, <2>4, RequestMoves
<1>3. CASE ~ Allowed(v)
  <2>1. Concludes(v, "failed")
    BY <1>3 DEF CheckAllowance
  <2>2. /\ request' = [request EXCEPT ![v] = NoBidRequest]
        /\ told' = [told EXCEPT !.failed = @ \cup {request[v].number}]
    BY <2>1 DEF Concludes, Tells
  <2> QED BY <1>1, <2>2, RequestEnds
<1> QED BY <1>2, <1>3

LEMMA FinishKeeps == ASSUME DemoInv, NEW v \in Visitors, Finish(v) PROVE DemoInv'
<1>1. /\ Bidding(v) /\ request' = [request EXCEPT ![v] = NoBidRequest] /\ told' = told
      /\ UNCHANGED <<funds, granted, mempool, placed, numbered, met>> /\ gaveUp' = gaveUp
  BY DEF Finish, chainVars, Bidding
<1> QED BY <1>1, RequestEnds


(* The transaction at the head is mined: its own request, if it still waits, *)
(* has the receipt, every other under way is met.                            *)
LEMMA MineKeeps == ASSUME DemoInv, Mine PROVE DemoInv'
<1>a. PICK t : t = Head(mempool)
  OBVIOUS
<1>b. PICK bid \in BOOLEAN : bid = (t.step = "bid" /\ Works(t))
  OBVIOUS
<1>1. /\ mempool # <<>> /\ mempool' = Tail(mempool)
      /\ granted' = CASE t.step \in {"approve", "approve again"} -> Unlimited
                      [] t.step = "reset" -> 0
                      [] bid /\ granted # Unlimited -> granted - t.amount
                      [] OTHER -> granted
      /\ funds' = IF bid THEN funds - t.amount ELSE funds
      /\ placed' = IF bid THEN placed \cup {t.of} ELSE placed
      /\ request' = [v \in Visitors |-> Mined(t, v)]
      /\ met' = met \cup {request[v].number : v \in {u \in Visitors : Crosses(t, u)}}
      /\ UNCHANGED <<numbered, told, gaveUp>>
  BY <1>a, <1>b DEF Mine, pageVars
<1>2. /\ mempool \in Seq(Txs) /\ mempool' \in Seq(Txs) /\ t \in Txs /\ t = mempool[1]
      /\ 1 \in 1 .. Len(mempool)
      /\ \A i \in 1 .. Len(mempool') :
           i + 1 \in 1 .. Len(mempool) /\ mempool'[i] = mempool[i + 1] /\ 1 < i + 1
  BY <1>1, <1>a, PoolShrinks DEF DemoInv, DemoTypes
<1>3. /\ t.of \in Nat /\ t.amount \in Nat /\ t.step \in Steps /\ funds \in Nat /\ granted \in Nat
      /\ Unlimited \in Nat /\ t.of <= numbered
      /\ bid => t.amount >= BaseFee /\ t.amount <= funds /\ t.amount <= granted
  <2>1. t.of \in Nat /\ t.amount \in Nat /\ t.step \in Steps
    BY <1>2 DEF Txs
  <2>2. funds \in Nat /\ granted \in Nat /\ Unlimited \in Nat /\ t.of <= numbered
    BY <1>2, DemoAssumption DEF Unlimited, DemoInv, DemoTypes, DemoNumbers
  <2>3. ASSUME bid PROVE t.amount >= BaseFee /\ t.amount <= funds /\ t.amount <= granted
    BY <1>b, <2>3 DEF Works
  <2> QED BY <2>1, <2>2, <2>3
<1>4. funds' \in Nat /\ granted' \in Nat
  <2>1. bid => funds - t.amount \in Nat /\ granted - t.amount \in Nat
    BY <1>3
  <2> QED BY <1>1, <1>3, <2>1
<1>5. \A v \in Visitors :
        /\ request[v] \in DemoRequests /\ request'[v] \in DemoRequests
        /\ request'[v].step = request[v].step /\ request'[v].number = request[v].number
        /\ request'[v].amount = request[v].amount
        /\ IF request[v].number = t.of /\ request[v].step = t.step /\ request[v].wait = "sent"
           THEN request'[v].wait = "receipt" ELSE request'[v].wait = request[v].wait
  <2>1. \A v \in Visitors : request[v] \in DemoRequests /\ request'[v] = Mined(t, v)
    BY <1>1 DEF DemoInv, DemoTypes
  <2> QED BY <2>1 DEF Mined, DemoRequests
<1>6. \A v \in Visitors : Bidding(v)' <=> Bidding(v)
  BY <1>5 DEF Bidding
<1>7. DemoTypes'
  <2>1. request' \in [Visitors -> DemoRequests]
    BY <1>1, <1>5
  <2> QED BY <1>1, <1>2, <1>3, <1>4, <2>1 DEF DemoInv, DemoTypes
<1>8. DemoNumbers'
  <2>1. \A i \in 1 .. Len(mempool') : mempool'[i].of <= numbered
    BY <1>2 DEF DemoInv, DemoNumbers
  <2> QED BY <1>1, <1>3, <1>5, <1>6, <2>1 DEF DemoInv, DemoNumbers
<1>9. \A v \in Visitors : Bidding(v) /\ request[v].number = t.of => OwnTx(request[v], t)
  BY <1>2 DEF DemoInv, DemoPool
<1>10. DemoPool'
  <2>1. ASSUME NEW v \in Visitors, Bidding(v), NEW i \in 1 .. Len(mempool'),
               mempool'[i].of = request[v].number
        PROVE  OwnTx(request'[v], mempool'[i])
    <3>1. PICK j \in 1 .. Len(mempool) : 1 < j /\ mempool'[i] = mempool[j]
      BY <1>2
    <3>2. OwnTx(request[v], mempool[j])
      BY <2>1, <3>1 DEF DemoInv, DemoPool
    <3>3. CASE request[v].number = t.of /\ request[v].step = t.step /\ request[v].wait = "sent"
      <4>1. t.step = "approve" /\ mempool[j].step = "reset"
        BY <1>2, <2>1, <3>1, <3>3 DEF DemoInv, DemoPool
      <4> QED BY <3>2, <3>3, <4>1 DEF OwnTx
    <3>4. CASE ~ (request[v].number = t.of /\ request[v].step = t.step /\ request[v].wait = "sent")
      <4>1. request'[v].wait = request[v].wait
        BY <1>5, <3>4
      <4> QED BY <1>5, <3>1, <3>2, <4>1 DEF OwnTx
    <3> QED BY <3>3, <3>4
  <2>2. ASSUME NEW i \in 1 .. Len(mempool'), NEW j \in 1 .. Len(mempool'), i < j,
               mempool'[i].of = mempool'[j].of
        PROVE  mempool'[i].step = "approve" /\ mempool'[j].step = "reset"
    <3>1. i + 1 < j + 1
      BY <1>2, <2>2
    <3> QED BY <1>2, <2>2, <3>1 DEF DemoInv, DemoPool
  <2>3. \A v \in Visitors : request'[v].number = request[v].number
    BY <1>5
  <2> QED BY <1>6, <2>1, <2>2, <2>3 DEF DemoPool, OwnTx
<1>11. FailedHaveNone'
  <2>1. \A n \in told.failed \ gaveUp : bid => t.of # n
    BY <1>2, <1>b DEF DemoInv, FailedHaveNone
  <2>2. placed' = placed \/ (bid /\ placed' = placed \cup {t.of})
    BY <1>1
  <2>3. \A n \in told.failed \ gaveUp : n \notin placed'
    BY <2>1, <2>2 DEF DemoInv, FailedHaveNone
  <2>4. \A n \in told.failed \ gaveUp :
          \A i \in 1 .. Len(mempool') : ~ (mempool'[i].of = n /\ mempool'[i].step = "bid")
    BY <1>2 DEF DemoInv, FailedHaveNone
  <2> QED BY <1>1, <2>3, <2>4 DEF FailedHaveNone
<1>12. ASSUME NEW v \in Visitors PROVE RequestSound(v)'
  <2> DEFINE q == request[v]
  <2>1. RequestSound(v) /\ q.number \in Nat /\ q.amount \in Nat /\ met \subseteq met'
    BY <1>1, <1>5 DEF DemoInv, DemoRequests
  <2>2. CASE ~ Bidding(v)
    <3>1. request'[v].wait # "none" => request'[v].step \in Steps
      BY <1>5, <2>1 DEF RequestSound
    <3> QED BY <1>6, <2>2, <3>1 DEF RequestSound
  <2>3. CASE Bidding(v) /\ q.number # t.of
    <3>1. q.number \in met'
      BY <1>1, <2>3 DEF Crosses
    <3>2. request'[v].wait = q.wait /\ request'[v].step = q.step /\ request'[v].number = q.number
      BY <1>5, <2>3
    <3>3. q.number \in placed' <=> q.number \in placed
      BY <1>1, <2>3
    <3> QED BY <1>1, <1>6, <2>1, <2>3, <3>1, <3>2, <3>3 DEF RequestSound
  <2>4. CASE Bidding(v) /\ q.number = t.of /\ t.step = q.step /\ q.wait = "sent"
    <3>1. /\ request'[v].wait = "receipt" /\ request'[v].step = q.step
          /\ request'[v].number = q.number
      BY <1>5, <2>4
    <3>2. t.amount = q.amount \/ q.step # "bid"
      BY <1>9, <2>4 DEF OwnTx
    <3>3. q.step = "bid" /\ q.number \notin met => bid
      BY <1>b, <2>1, <2>4, <3>2 DEF RequestSound, Works
    <3>4. q.step = "bid" => q.number \in placed' \cup met'
      BY <1>1, <2>1, <2>4, <3>3
    <3>5. q.step # "bid" => placed' = placed
      BY <1>1, <1>b, <2>4
    <3> QED BY <1>1, <1>6, <2>1, <2>4, <3>1, <3>4, <3>5 DEF RequestSound
  <2>5. CASE Bidding(v) /\ q.number = t.of /\ ~ (t.step = q.step /\ q.wait = "sent")
    <3>1. t.step = "approve" /\ q.step = "reset"
      BY <1>9, <2>5 DEF OwnTx
    <3>2. request'[v].wait = q.wait /\ request'[v].step = q.step /\ request'[v].number = q.number
      BY <1>5, <2>5
    <3>3. placed' = placed
      BY <1>1, <1>b, <3>1
    <3> QED BY <1>1, <1>6, <2>1, <2>5, <3>1, <3>2, <3>3 DEF RequestSound
  <2> QED BY <2>2, <2>3, <2>4, <2>5
<1>13. told.confirmed \subseteq placed' \cup met'
  BY <1>1 DEF DemoInv
<1> QED BY <1>1, <1>7, <1>8, <1>10, <1>11, <1>12, <1>13 DEF DemoInv

LEMMA DemoStep == DemoInv /\ [DemoNext]_demoVars => DemoInv'
<1> SUFFICES ASSUME DemoInv, [DemoNext]_demoVars PROVE DemoInv'
  OBVIOUS
<1>1. CASE UNCHANGED <<funds, granted, mempool, placed, request, numbered, told, gaveUp, met>>
  <2>1. DemoTypes'
    BY <1>1 DEF DemoInv, DemoTypes
  <2>2. DemoNumbers'
    BY <1>1 DEF DemoInv, DemoNumbers, Bidding
  <2>3. DemoPool'
    BY <1>1 DEF DemoInv, DemoPool, Bidding, OwnTx
  <2>4. FailedHaveNone' /\ \A v \in Visitors : RequestSound(v)'
    BY <1>1 DEF DemoInv, FailedHaveNone, RequestSound, Bidding
  <2> QED BY <1>1, <2>1, <2>2, <2>3, <2>4 DEF DemoInv
<1>2. CASE UNCHANGED demoVars
  <2>1. UNCHANGED <<funds, granted, mempool, placed, request, numbered, told, gaveUp, met>>
    BY <1>2 DEF demoVars, chainVars, pageVars
  <2> QED BY <1>1, <2>1
<1>3. ASSUME NEW v \in Visitors, BeginSnapshot(v) \/ \E i \in 1 .. Len(snapshots[v]) : EndSnapshot(v, i)
      PROVE  DemoInv'
  <2>1. UNCHANGED <<funds, granted, mempool, placed, request, numbered, told, gaveUp, met>>
    BY <1>3 DEF BeginSnapshot, EndSnapshot, chainVars
  <2> QED BY <1>1, <2>1
<1>4. ASSUME NEW v \in Visitors, NEW amount \in 0 .. Purse, Queue(v, amount) PROVE DemoInv'
  <2>1. amount \in Nat
    BY DemoAssumption
  <2> QED BY <1>4, <2>1, QueueKeeps
<1> QED BY <1>2, <1>3, <1>4, MineKeeps, ReadAllowanceKeeps, SendTxKeeps, StepFailsKeeps, GiveUpKeeps,
           ReceiptCameKeeps, CheckAllowanceKeeps, FinishKeeps DEF DemoNext

(* The page's log tells the truth about a request that no other of the       *)
(* account crossed, for any number of pages that bid with the same key and   *)
(* any purse; one logged failed placed nothing unless it gave up waiting     *)
(* (page.tsx requestAutoUpdate).                                             *)
THEOREM BidLogIsTrue == Spec => []BidsSound
<1>1. Init => DemoInv
  BY DemoInitial DEF Init
<1>2. DemoInv /\ [Next]_screenVars => DemoInv'
  BY ScreenMoves, DemoStep
<1>3. DemoInv => BidsSound
  <2> SUFFICES ASSUME DemoInv PROVE BidsSound
    OBVIOUS
  <2>1. told.failed \cap placed \subseteq gaveUp
    BY DEF DemoInv, FailedHaveNone
  <2>2. \A v \in Visitors :
          request[v].step = "bid" /\ request[v].wait = "none" /\ request[v].number \notin met
            => granted >= request[v].amount
    BY DEF DemoInv, RequestSound, Bidding
  <2> QED BY <2>1, <2>2 DEF DemoInv, BidsSound
<1> QED BY <1>1, <1>2, <1>3, PTL DEF Spec

-----------------------------------------------------------------------------
(* The session *)

IsCall(r) ==
  /\ r = [tag |-> r.tag, kind |-> r.kind, phase |-> r.phase, token |-> r.token, who |-> r.who,
          stale |-> r.stale, again |-> r.again]
  /\ r.kind \in {"me", "wallet", "push"} /\ r.phase \in {"asked", "sent", "handled"}
  /\ r.stale \in BOOLEAN
  /\ r.phase = "handled" => r.kind = "push"

IsDevice(d) == d = [owner |-> d.owner, stored |-> d.stored, for |-> d.for]

(* A call for the profile that nothing overtook acts as who is signed in.    *)
CallSound(r) ==
  /\ IsCall(r)
  /\ r.kind # "push" /\ ~ r.stale =>
       r.token = account /\ (r.phase = "sent" => r.who \in {None, Acts(account, target)})

FreshLoad == \E r \in calls : r.kind = "me" /\ ~ r.stale
Registered == \E r \in calls : r.kind = "push" /\ r.phase = "handled"

(* What makes the profile right is under way, or it is right.                *)
ProfileRight == switching \/ FreshLoad \/ astray \/ me \in {None, Acts(account, target)}

(* Before the storage is read nothing was sent and nobody is on screen.      *)
NotHydrated ==
  ~ hydrated => /\ app = "mobile" /\ target = None /\ me = None /\ ~ switching
                /\ \A r \in calls : r.phase = "asked"

Splash == account # None /\ AtSplash => Loading

(* A row of the device's token is the account's, and the device knows of it  *)
(* as long as it can still take it back.                                     *)
TokenKept ==
  /\ leaving \in {"no", "delete", "signout"} /\ device.stored \in BOOLEAN
  /\ leaving = "delete" => device.stored
  /\ ~ leaked => /\ device.owner \in {None, account}
                 /\ leaving = "signout" => device.owner = None
                 /\ leaving = "no" /\ device.owner # None => device.stored \/ Registered

SessionInv ==
  /\ app \in {"mobile", "web"} /\ IsDevice(device) /\ \A r \in calls : CallSound(r)
  /\ ProfileRight /\ NotHydrated /\ Splash /\ TokenKept

AddsOne(running, kind, asker) ==
  \E r : /\ Asking(running, kind, asker) = running \cup {r} /\ IsCall(r)
         /\ r.kind = kind /\ r.phase = "asked" /\ r.token = asker /\ r.stale = FALSE

LEMMA AskingIs ==
  ASSUME NEW running, NEW kind \in {"me", "wallet", "push"}, NEW asker
  PROVE  AddsOne(running, kind, asker)
<1> DEFINE r == [tag |-> FreeTag(running), kind |-> kind, phase |-> "asked", token |-> asker,
                 who |-> None, stale |-> FALSE, again |-> FALSE]
<1>1. Asking(running, kind, asker) = running \cup {r}
  BY DEF Asking
<1>2. IsCall(r)
  BY DEF IsCall
<1>3. r.kind = kind /\ r.phase = "asked" /\ r.token = asker /\ r.stale = FALSE
  OBVIOUS
<1> HIDE DEF r
<1> QED BY <1>1, <1>2, <1>3 DEF AddsOne

LEMMA OutdatedIs ==
  ASSUME NEW running, \A r \in running : IsCall(r), NEW phases
  PROVE  /\ \A q \in Outdated(running, phases) :
              /\ IsCall(q)
              /\ \E r \in running :
                   /\ q.kind = r.kind /\ q.phase = r.phase /\ q.token = r.token /\ q.who = r.who
                   /\ q.stale = (r.stale \/ r.phase \in phases)
         /\ \A r \in running :
              \E q \in Outdated(running, phases) : q.kind = r.kind /\ q.phase = r.phase
<1>1. ASSUME NEW r \in running
      PROVE  LET q == [r EXCEPT !.stale = @ \/ r.phase \in phases] IN
             /\ IsCall(q) /\ q.kind = r.kind /\ q.phase = r.phase /\ q.token = r.token
             /\ q.who = r.who /\ q.stale = (r.stale \/ r.phase \in phases)
             /\ q \in Outdated(running, phases)
  <2>1. PICK old \in BOOLEAN : old = (r.stale \/ r.phase \in phases)
    OBVIOUS
  <2>2. IsCall(r)
    OBVIOUS
  <2>3. [r EXCEPT !.stale = @ \/ r.phase \in phases] =
          [tag |-> r.tag, kind |-> r.kind, phase |-> r.phase, token |-> r.token, who |-> r.who,
           stale |-> old, again |-> r.again]
    BY <2>1, <2>2 DEF IsCall
  <2>4. [r EXCEPT !.stale = @ \/ r.phase \in phases] \in Outdated(running, phases)
    BY DEF Outdated
  <2> QED BY <2>1, <2>2, <2>3, <2>4 DEF IsCall
<1>2. \A q \in Outdated(running, phases) :
        \E r \in running : q = [r EXCEPT !.stale = @ \/ r.phase \in phases]
  BY DEF Outdated
<1>3. ASSUME NEW q \in Outdated(running, phases)
      PROVE  /\ IsCall(q)
             /\ \E r \in running :
                  /\ q.kind = r.kind /\ q.phase = r.phase /\ q.token = r.token /\ q.who = r.who
                  /\ q.stale = (r.stale \/ r.phase \in phases)
  <2>1. PICK r \in running : q = [r EXCEPT !.stale = @ \/ r.phase \in phases]
    BY <1>2
  <2> QED BY <1>1, <2>1
<1>4. ASSUME NEW r \in running
      PROVE  \E q \in Outdated(running, phases) : q.kind = r.kind /\ q.phase = r.phase
  BY <1>1
<1> QED BY <1>3, <1>4

LEMMA ShowIs ==
  ASSUME IsDevice(device), NEW who, NEW face, NEW running, Show(who, face, running)
  PROVE  /\ me' = face /\ IsDevice(device')
         /\ device'.owner = device.owner /\ device'.stored = device.stored
         /\ \/ calls' = running
            \/ \E r : /\ calls' = running \cup {r} /\ IsCall(r) /\ r.kind = "push"
                      /\ r.phase = "asked" /\ face # None
<1>1. /\ me' = face
      /\ device' = [device EXCEPT !.for = IF who = None THEN None
                                          ELSE IF Registers(who, face) THEN face ELSE @]
      /\ calls' = IF Registers(who, face) THEN Asking(running, "push", None) ELSE running
  BY DEF Show
<1>2. IsDevice(device') /\ device'.owner = device.owner /\ device'.stored = device.stored
  BY <1>1 DEF IsDevice
<1>3. PICK r : /\ Asking(running, "push", None) = running \cup {r} /\ IsCall(r)
               /\ r.kind = "push" /\ r.phase = "asked"
  <2>1. AddsOne(running, "push", None)
    BY AskingIs
  <2> QED BY <2>1 DEF AddsOne
<1> QED BY <1>1, <1>2, <1>3 DEF Registers

LEMMA SessionInitial == SessionInit => SessionInv
<1> SUFFICES ASSUME SessionInit PROVE SessionInv
  OBVIOUS
<1>1. /\ app \in {"mobile", "web"} /\ account = None /\ me = None /\ calls = {} /\ hydrated = TRUE
      /\ device = Unregistered /\ leaving = "no"
  BY DEF SessionInit
<1>2. IsDevice(Unregistered) /\ Unregistered.owner = None /\ Unregistered.stored = FALSE
  BY DEF IsDevice, Unregistered
<1> QED BY <1>1, <1>2 DEF SessionInv, ProfileRight, NotHydrated, Splash, TokenKept


LEMMA SignInKeeps == ASSUME SessionInv, NEW who \in {Admin, Member}, SignIn(who) PROVE SessionInv'
<1> DEFINE old == Outdated(calls, {"asked", "sent", "handled"})
           running == Asking(old, "me", who)
<1>1. /\ account = None /\ leaving = "no" /\ account' = who /\ Show(who, me, running)
      /\ UNCHANGED <<app, target, disk, hydrated, switching, leaving, astray, leaked>>
  BY DEF SignIn
<1>2. \A r \in calls : IsCall(r)
  BY DEF SessionInv, CallSound
<1>3. /\ \A q \in old : IsCall(q) /\ q.stale
                        /\ \E r \in calls : q.kind = r.kind /\ q.phase = r.phase
      /\ \A r \in calls : \E q \in old : q.kind = r.kind /\ q.phase = r.phase
  <2>1. /\ \A q \in old :
              /\ IsCall(q)
              /\ \E r \in calls :
                   /\ q.kind = r.kind /\ q.phase = r.phase /\ q.token = r.token /\ q.who = r.who
                   /\ q.stale = (r.stale \/ r.phase \in {"asked", "sent", "handled"})
        /\ \A r \in calls : \E q \in old : q.kind = r.kind /\ q.phase = r.phase
    BY <1>2, OutdatedIs
  <2> QED BY <1>2, <2>1 DEF IsCall
<1> HIDE DEF old
<1>4. PICK m : /\ running = old \cup {m} /\ IsCall(m)
               /\ m.kind = "me" /\ m.phase = "asked" /\ m.token = who /\ ~ m.stale
  <2>1. AddsOne(old, "me", who)
    BY AskingIs
  <2> QED BY <2>1 DEF AddsOne
<1> HIDE DEF running
<1>5. /\ me' = me /\ IsDevice(device') /\ device'.owner = device.owner
      /\ device'.stored = device.stored
      /\ \/ calls' = running
         \/ \E r : /\ calls' = running \cup {r} /\ IsCall(r) /\ r.kind = "push"
                   /\ r.phase = "asked" /\ me # None
  BY <1>1, ShowIs DEF SessionInv
<1>6. /\ old \subseteq calls' /\ m \in calls'
      /\ \A q \in calls' : q \in old \/ q = m
                           \/ (IsCall(q) /\ q.kind = "push" /\ q.phase = "asked" /\ me # None)
  BY <1>4, <1>5
<1>7. IsDevice(device)'
  BY <1>5 DEF IsDevice
<1>8. \A q \in calls' : CallSound(q)'
  BY <1>1, <1>3, <1>4, <1>6 DEF CallSound
<1>9. ProfileRight' /\ Splash'
  BY <1>4, <1>6 DEF ProfileRight, FreshLoad, Splash, Loading
<1>10. NotHydrated'
  BY <1>1, <1>3, <1>4, <1>5, <1>6 DEF SessionInv, NotHydrated
<1>11. TokenKept'
  <2>1. Registered => Registered'
    BY <1>3, <1>6 DEF Registered
  <2> QED BY <1>1, <1>5, <2>1 DEF SessionInv, TokenKept
<1> QED BY <1>1, <1>7, <1>8, <1>9, <1>10, <1>11 DEF SessionInv

LEMMA ReloadKeeps ==
  ASSUME SessionInv, calls' = Asking(calls, "me", account),
         UNCHANGED <<app, account, target, hydrated, me, device, leaving, astray, leaked>>,
         switching' = switching \/ switching' = FALSE
  PROVE  SessionInv'
<1>1. PICK m : /\ calls' = calls \cup {m} /\ IsCall(m)
               /\ m.kind = "me" /\ m.phase = "asked" /\ m.token = account /\ ~ m.stale
  <2>1. AddsOne(calls, "me", account)
    BY AskingIs
  <2> QED BY <2>1 DEF AddsOne
<1>2. \A q \in calls' : CallSound(q)'
  BY <1>1 DEF SessionInv, CallSound, Acts
<1>3. ProfileRight' /\ Splash'
  BY <1>1 DEF ProfileRight, FreshLoad, Splash, Loading
<1>4. NotHydrated'
  BY <1>1 DEF SessionInv, NotHydrated
<1>5. TokenKept'
  <2>1. Registered => Registered'
    BY <1>1 DEF Registered
  <2> QED BY <2>1 DEF SessionInv, TokenKept
<1> QED BY <1>2, <1>3, <1>4, <1>5 DEF SessionInv, IsDevice

LEMMA SendRequestKeeps == ASSUME SessionInv, NEW r \in calls, SendRequest(r) PROVE SessionInv'
<1>1. /\ r.phase = "asked" /\ hydrated
      /\ UNCHANGED <<app, account, target, disk, hydrated, me, status, switching, device, leaving,
                     turns, astray, leaked>>
  BY DEF SendRequest
<1>2. PICK by : by = IF r.kind = "push" THEN account ELSE r.token
  OBVIOUS
<1>3. PICK who : who = IF r.kind = "me" THEN Acts(by, target)
                       ELSE IF MayChange(by, target) THEN by ELSE None
  OBVIOUS
<1>4. PICK q : q = [[r EXCEPT !.phase = "sent"] EXCEPT !.who = who]
  OBVIOUS
<1>5. calls' = (calls \ {r}) \cup {q}
  BY <1>2, <1>3, <1>4 DEF SendRequest
<1>6. IsCall(r) /\ CallSound(r)
  BY DEF SessionInv, CallSound
<1>7. /\ IsCall(q) /\ q.kind = r.kind /\ q.phase = "sent" /\ q.token = r.token /\ q.who = who
      /\ q.stale = r.stale
  <2>1. PICK p : p = [r EXCEPT !.phase = "sent"]
    OBVIOUS
  <2>2. p = [tag |-> r.tag, kind |-> r.kind, phase |-> "sent", token |-> r.token, who |-> r.who,
             stale |-> r.stale, again |-> r.again]
    BY <1>6, <2>1 DEF IsCall
  <2>3. q = [tag |-> r.tag, kind |-> r.kind, phase |-> "sent", token |-> r.token, who |-> who,
             stale |-> r.stale, again |-> r.again]
    BY <1>4, <2>1, <2>2
  <2> QED BY <1>6, <2>3 DEF IsCall
<1>8. CallSound(q)
  <2>1. r.kind # "push" /\ ~ r.stale => r.token = account /\ who \in {None, Acts(account, target)}
    BY <1>2, <1>3, <1>6 DEF CallSound, IsCall, MayChange, Acts
  <2> QED BY <1>7, <2>1 DEF CallSound
<1>9. \A c \in calls' : CallSound(c)'
  BY <1>1, <1>5, <1>8 DEF SessionInv, CallSound, Acts
<1>10. ProfileRight'
  <2>1. FreshLoad => FreshLoad'
    BY <1>5, <1>7 DEF FreshLoad
  <2> QED BY <1>1, <2>1 DEF SessionInv, ProfileRight, Acts
<1>11. Splash'
  <2>1. Loading => Loading'
    BY <1>5, <1>7 DEF Loading
  <2> QED BY <1>1, <2>1 DEF SessionInv, Splash, AtSplash
<1>12. NotHydrated'
  BY <1>1 DEF NotHydrated
<1>13. TokenKept'
  <2>1. Registered => Registered'
    BY <1>1, <1>5 DEF Registered
  <2> QED BY <1>1, <2>1 DEF SessionInv, TokenKept
<1> QED BY <1>1, <1>9, <1>10, <1>11, <1>12, <1>13 DEF SessionInv, IsDevice

LEMMA HandlePushKeeps == ASSUME SessionInv, NEW r \in calls, HandlePush(r) PROVE SessionInv'
<1>1. PICK q : q = [r EXCEPT !.phase = "handled"]
  OBVIOUS
<1>2. /\ r.kind = "push" /\ r.phase = "sent" /\ device' = [device EXCEPT !.owner = r.who]
      /\ calls' = (calls \ {r}) \cup {q}
      /\ leaked' = (leaked \/ leaving # "no" \/ account # r.who)
      /\ UNCHANGED <<app, account, target, disk, hydrated, me, status, switching, leaving, turns,
                     astray>>
  BY <1>1 DEF HandlePush
<1>3. IsCall(r) /\ IsDevice(device) /\ device.stored \in BOOLEAN
  BY DEF SessionInv, CallSound, TokenKept
<1>4. IsCall(q) /\ q.kind = "push" /\ q.phase = "handled"
  <2>1. q = [tag |-> r.tag, kind |-> r.kind, phase |-> "handled", token |-> r.token, who |-> r.who,
             stale |-> r.stale, again |-> r.again]
    BY <1>1, <1>3 DEF IsCall
  <2> QED BY <1>2, <1>3, <2>1 DEF IsCall
<1>5. IsDevice(device') /\ device'.owner = r.who /\ device'.stored = device.stored
  BY <1>2, <1>3 DEF IsDevice
<1>6. \A c \in calls' : CallSound(c)'
  BY <1>2, <1>4 DEF SessionInv, CallSound, Acts
<1>7. ProfileRight'
  <2>1. FreshLoad => FreshLoad'
    BY <1>2 DEF FreshLoad
  <2> QED BY <1>2, <2>1 DEF SessionInv, ProfileRight, Acts
<1>8. Splash'
  <2>1. Loading => Loading'
    BY <1>2 DEF Loading
  <2> QED BY <1>2, <2>1 DEF SessionInv, Splash, AtSplash
<1>9. NotHydrated'
  BY <1>2 DEF SessionInv, NotHydrated
<1>10. TokenKept'
  <2>1. Registered'
    BY <1>2, <1>4 DEF Registered
  <2> QED BY <1>2, <1>5, <2>1 DEF SessionInv, TokenKept
<1> QED BY <1>2, <1>5, <1>6, <1>7, <1>8, <1>9, <1>10 DEF SessionInv, IsDevice

LEMMA PushAnsweredKeeps == ASSUME SessionInv, NEW r \in calls, PushAnswered(r) PROVE SessionInv'
<1>1. /\ r.kind = "push" /\ device' = [device EXCEPT !.stored = TRUE] /\ calls' = calls \ {r}
      /\ UNCHANGED <<app, account, target, disk, hydrated, me, status, switching, leaving, turns,
                     astray, leaked>>
  BY DEF PushAnswered
<1>2. IsDevice(device') /\ device'.owner = device.owner /\ device'.stored = TRUE
  BY <1>1 DEF SessionInv, IsDevice
<1>3. \A c \in calls' : CallSound(c)'
  BY <1>1 DEF SessionInv, CallSound, Acts
<1>4. ProfileRight'
  <2>1. FreshLoad => FreshLoad'
    BY <1>1 DEF FreshLoad
  <2> QED BY <1>1, <2>1 DEF SessionInv, ProfileRight, Acts
<1>5. Splash'
  <2>1. Loading => Loading'
    BY <1>1 DEF Loading
  <2> QED BY <1>1, <2>1 DEF SessionInv, Splash, AtSplash
<1>6. NotHydrated' /\ TokenKept'
  BY <1>1, <1>2 DEF SessionInv, NotHydrated, TokenKept
<1> QED BY <1>1, <1>2, <1>3, <1>4, <1>5, <1>6 DEF SessionInv, IsDevice

LEMMA ProfileAnsweredKeeps == ASSUME SessionInv, NEW r \in calls, ProfileAnswered(r) PROVE SessionInv'
<1>1. /\ r.kind \in {"me", "wallet"} /\ r.phase = "sent" /\ r.who # None
      /\ status' = IF r.kind = "me" THEN "ready" ELSE status
      /\ astray' = r.stale
      /\ UNCHANGED <<app, account, target, disk, hydrated, switching, leaving, turns, leaked>>
  BY DEF ProfileAnswered
<1>2. PICK running : /\ running \in {calls \ {r}, Asking(calls \ {r}, "wallet", account)}
                     /\ Show(account, r.who, running)
  BY DEF ProfileAnswered
<1>3. PICK w : /\ running \in {calls \ {r}, (calls \ {r}) \cup {w}} /\ IsCall(w)
               /\ w.kind = "wallet" /\ w.phase = "asked" /\ w.token = account
  <2>1. AddsOne(calls \ {r}, "wallet", account)
    BY AskingIs
  <2> QED BY <1>2, <2>1 DEF AddsOne
<1>4. /\ me' = r.who /\ IsDevice(device') /\ device'.owner = device.owner
      /\ device'.stored = device.stored
      /\ \/ calls' = running
         \/ \E p : /\ calls' = running \cup {p} /\ IsCall(p) /\ p.kind = "push"
                   /\ p.phase = "asked" /\ r.who # None
  BY <1>2, ShowIs DEF SessionInv
<1>5. /\ calls \ {r} \subseteq calls'
      /\ \A q \in calls' : q \in calls \/ q = w
                           \/ (IsCall(q) /\ q.kind = "push" /\ q.phase = "asked")
  BY <1>3, <1>4
<1>6. CallSound(r) /\ CallSound(w)
  BY <1>3 DEF SessionInv, CallSound
<1>7. \A c \in calls' : CallSound(c)'
  BY <1>1, <1>5, <1>6 DEF SessionInv, CallSound, Acts
<1>8. ProfileRight'
  <2>1. r.stale \/ r.who = Acts(account, target)
    BY <1>1, <1>6 DEF CallSound
  <2> QED BY <1>1, <1>4, <2>1 DEF ProfileRight, Acts
<1>9. Splash'
  <2>1. r.kind # "me" /\ Loading => Loading'
    BY <1>5 DEF Loading
  <2> QED BY <1>1, <1>4, <2>1 DEF SessionInv, Splash, AtSplash
<1>10. NotHydrated'
  BY <1>1 DEF SessionInv, NotHydrated
<1>11. TokenKept'
  <2>1. Registered => Registered'
    BY <1>1, <1>5 DEF Registered
  <2> QED BY <1>1, <1>4, <2>1 DEF SessionInv, TokenKept
<1> QED BY <1>1, <1>4, <1>7, <1>8, <1>9, <1>10, <1>11 DEF SessionInv, IsDevice

LEMMA MobileLoadFailsKeeps == ASSUME SessionInv, NEW r \in calls, MobileLoadFails(r) PROVE SessionInv'
<1>1. /\ r.kind = "me" /\ calls' = calls \ {r} /\ status' = "error" /\ astray' = TRUE
      /\ UNCHANGED <<app, account, target, disk, hydrated, me, switching, device, leaving, turns,
                     leaked>>
  BY DEF MobileLoadFails
<1>2. \A c \in calls' : CallSound(c)'
  BY <1>1 DEF SessionInv, CallSound, Acts
<1>3. ProfileRight' /\ Splash'
  BY <1>1 DEF ProfileRight, Splash, AtSplash
<1>4. NotHydrated'
  BY <1>1 DEF SessionInv, NotHydrated
<1>5. TokenKept'
  <2>1. Registered => Registered'
    BY <1>1 DEF Registered
  <2> QED BY <1>1, <2>1 DEF SessionInv, TokenKept
<1> QED BY <1>1, <1>2, <1>3, <1>4, <1>5 DEF SessionInv, IsDevice

(* What a change of target leaves: every call that has its header is stale,  *)
(* and none is lost.                                                         *)
LEMMA Retarget ==
  ASSUME NEW running, \A r \in running : CallSound(r), account' = account
  PROVE  /\ \A q \in Outdated(running, {"sent"}) : CallSound(q)'
         /\ \A r \in running : \E q \in Outdated(running, {"sent"}) :
              q.kind = r.kind /\ q.phase = r.phase
         /\ \A q \in Outdated(running, {"sent"}) : \E r \in running :
              q.kind = r.kind /\ q.phase = r.phase
<1>1. \A r \in running : IsCall(r)
  BY DEF CallSound
<1>2. /\ \A q \in Outdated(running, {"sent"}) :
           /\ IsCall(q)
           /\ \E r \in running :
                /\ q.kind = r.kind /\ q.phase = r.phase /\ q.token = r.token /\ q.who = r.who
                /\ q.stale = (r.stale \/ r.phase \in {"sent"})
      /\ \A r \in running : \E q \in Outdated(running, {"sent"}) :
           q.kind = r.kind /\ q.phase = r.phase
  BY <1>1, OutdatedIs
<1>3. ASSUME NEW q \in Outdated(running, {"sent"}) PROVE CallSound(q)'
  <2>1. PICK r \in running :
          /\ q.kind = r.kind /\ q.phase = r.phase /\ q.token = r.token /\ q.who = r.who
          /\ q.stale = (r.stale \/ r.phase \in {"sent"})
    BY <1>2
  <2> QED BY <1>2, <2>1 DEF CallSound
<1> QED BY <1>2, <1>3

LEMMA WebLoadFailsKeeps == ASSUME SessionInv, NEW r \in calls, WebLoadFails(r) PROVE SessionInv'
<1>1. /\ app = "web" /\ r.kind = "me"
      /\ UNCHANGED <<app, account, hydrated, switching, device, leaving, turns, astray, leaked>>
  BY DEF WebLoadFails
<1>2. hydrated /\ IsCall(r)
  BY <1>1 DEF SessionInv, NotHydrated, CallSound
<1>3. CASE target # None /\ ~ r.again
  <2>1. PICK q : q = [tag |-> r.tag, kind |-> "me", phase |-> "asked", token |-> account,
                      who |-> None, stale |-> FALSE, again |-> TRUE]
    OBVIOUS
  <2>2. PICK rest : rest = Outdated(calls \ {r}, {"sent"})
    OBVIOUS
  <2>3. target' = None /\ UNCHANGED <<me, status>> /\ calls' = rest \cup {q}
    <3>1. [r EXCEPT !.phase = "asked", !.token = account, !.who = None, !.stale = FALSE,
                    !.again = TRUE] = q
      <4>1. PICK a : a = [r EXCEPT !.phase = "asked", !.token = account]
        OBVIOUS
      <4>2. a = [tag |-> r.tag, kind |-> "me", phase |-> "asked", token |-> account,
                 who |-> r.who, stale |-> r.stale, again |-> r.again]
        BY <1>1, <1>2, <4>1 DEF IsCall
      <4>3. PICK b : b = [a EXCEPT !.who = None, !.stale = FALSE]
        OBVIOUS
      <4>4. b = [tag |-> r.tag, kind |-> "me", phase |-> "asked", token |-> account,
                 who |-> None, stale |-> FALSE, again |-> r.again]
        BY <4>2, <4>3
      <4>5. PICK c : c = [b EXCEPT !.again = TRUE]
        OBVIOUS
      <4>6. c = [tag |-> r.tag, kind |-> "me", phase |-> "asked", token |-> account,
                 who |-> None, stale |-> FALSE, again |-> TRUE]
        BY <4>4, <4>5
      <4>7. c = q
        BY <2>1, <4>6
      <4> QED BY <4>1, <4>3, <4>5, <4>7
    <3> QED BY <1>3, <2>2, <3>1 DEF WebLoadFails
  <2>4. IsCall(q) /\ q.kind = "me" /\ q.phase = "asked" /\ q.token = account /\ ~ q.stale
    BY <2>1 DEF IsCall
  <2>5. /\ \A c \in rest : CallSound(c)'
        /\ \A p \in calls \ {r} : \E c \in rest : c.kind = p.kind /\ c.phase = p.phase
    <3>1. \A p \in calls \ {r} : CallSound(p)
      BY DEF SessionInv
    <3> QED BY <1>1, <2>2, <3>1, Retarget
  <2>6. \A c \in calls' : CallSound(c)'
    BY <1>1, <2>3, <2>4, <2>5 DEF CallSound
  <2>7. ProfileRight' /\ Splash'
    BY <2>3, <2>4 DEF ProfileRight, FreshLoad, Splash, Loading
  <2>8. TokenKept'
    <3>1. Registered => Registered'
      BY <1>1, <2>3, <2>5 DEF Registered
    <3> QED BY <1>1, <3>1 DEF SessionInv, TokenKept
  <2> QED BY <1>1, <1>2, <2>6, <2>7, <2>8 DEF SessionInv, NotHydrated, IsDevice
<1>4. CASE ~ (target # None /\ ~ r.again)
  <2>1. /\ me' = None /\ status' = "ready" /\ calls' = calls \ {r} /\ target' = target
    BY <1>4 DEF WebLoadFails
  <2>2. \A c \in calls' : CallSound(c)'
    BY <1>1, <2>1 DEF SessionInv, CallSound, Acts
  <2>3. ProfileRight' /\ Splash'
    BY <1>1, <2>1 DEF ProfileRight, Splash, AtSplash
  <2>4. TokenKept'
    <3>1. Registered => Registered'
      BY <1>1, <2>1 DEF Registered
    <3> QED BY <1>1, <3>1 DEF SessionInv, TokenKept
  <2> QED BY <1>1, <1>2, <2>2, <2>3, <2>4 DEF SessionInv, NotHydrated, IsDevice
<1> QED BY <1>3, <1>4

LEMMA RequestFailsKeeps == ASSUME SessionInv, NEW r \in calls, RequestFails(r) PROVE SessionInv'
<1>1. /\ r.kind \in {"push", "wallet"} /\ calls' = calls \ {r}
      /\ leaked' = (leaked \/ r.phase = "handled")
      /\ UNCHANGED <<app, account, target, disk, hydrated, me, status, switching, device, leaving,
                     turns, astray>>
  BY DEF RequestFails
<1>2. \A c \in calls' : CallSound(c)'
  BY <1>1 DEF SessionInv, CallSound, Acts
<1>3. ProfileRight'
  <2>1. FreshLoad => FreshLoad' \/ r.kind = "me"
    BY <1>1 DEF FreshLoad
  <2> QED BY <1>1, <2>1 DEF SessionInv, ProfileRight, Acts
<1>4. Splash'
  <2>1. Loading => Loading'
    BY <1>1 DEF Loading
  <2> QED BY <1>1, <2>1 DEF SessionInv, Splash, AtSplash
<1>5. NotHydrated'
  BY <1>1 DEF SessionInv, NotHydrated
<1>6. TokenKept'
  <2>1. Registered => Registered' \/ r.phase = "handled"
    BY <1>1 DEF Registered
  <2> QED BY <1>1, <2>1 DEF SessionInv, TokenKept
<1> QED BY <1>1, <1>2, <1>3, <1>4, <1>5, <1>6 DEF SessionInv, IsDevice

LEMMA SwitchKeeps ==
  ASSUME SessionInv, hydrated, NEW to, Switch(to),
         UNCHANGED <<app, account, hydrated, me, status, device, leaving, astray, leaked>>
  PROVE  SessionInv'
<1>1. switching' = TRUE /\ calls' = Outdated(calls, {"sent"})
  BY DEF Switch
<1>2. /\ \A q \in calls' : CallSound(q)'
      /\ \A r \in calls : \E q \in calls' : q.kind = r.kind /\ q.phase = r.phase
  <2>1. \A r \in calls : CallSound(r)
    BY DEF SessionInv
  <2> QED BY <1>1, <2>1, Retarget
<1>3. Splash'
  <2>1. Loading => Loading'
    BY <1>2 DEF Loading
  <2> QED BY <2>1 DEF SessionInv, Splash, AtSplash
<1>4. TokenKept'
  <2>1. Registered => Registered'
    BY <1>2 DEF Registered
  <2> QED BY <2>1 DEF SessionInv, TokenKept
<1> QED BY <1>1, <1>2, <1>3, <1>4 DEF SessionInv, ProfileRight, NotHydrated, IsDevice

LEMMA WarpKeeps == ASSUME SessionInv, EnterWarp \/ ExitWarp PROVE SessionInv'
<1>1. CASE EnterWarp
  <2>1. /\ me = Admin /\ Switch(Viewed)
        /\ UNCHANGED <<app, account, hydrated, me, status, device, leaving, astray, leaked>>
    BY <1>1 DEF EnterWarp
  <2>2. hydrated
    BY <2>1 DEF SessionInv, NotHydrated, Admin, None
  <2> QED BY <2>1, <2>2, SwitchKeeps
<1>2. CASE ExitWarp
  <2>1. /\ target # None /\ Switch(None)
        /\ UNCHANGED <<app, account, hydrated, me, status, device, leaving, astray, leaked>>
    BY <1>2 DEF ExitWarp
  <2>2. hydrated
    BY <2>1 DEF SessionInv, NotHydrated
  <2> QED BY <2>1, <2>2, SwitchKeeps
<1> QED BY <1>1, <1>2

LEMMA LogoutKeeps == ASSUME SessionInv, Logout PROVE SessionInv'
<1>1. /\ leaving = "no" /\ leaving' = IF device.stored THEN "delete" ELSE "signout"
      /\ leaked' = (leaked \/ \E r \in calls : r.phase = "handled")
      /\ UNCHANGED <<app, account, target, disk, hydrated, me, status, calls, switching, device,
                     astray>>
  BY DEF Logout
<1>2. Registered => leaked'
  BY <1>1 DEF Registered
<1>3. TokenKept'
  BY <1>1, <1>2 DEF SessionInv, TokenKept
<1>4. \A c \in calls' : CallSound(c)'
  BY <1>1 DEF SessionInv, CallSound, Acts
<1>5. ProfileRight' /\ NotHydrated' /\ Splash'
  BY <1>1 DEF SessionInv, ProfileRight, FreshLoad, NotHydrated, Splash, AtSplash, Loading, Acts
<1> QED BY <1>1, <1>3, <1>4, <1>5 DEF SessionInv, IsDevice

LEMMA TokenDeletedKeeps == ASSUME SessionInv, TokenDeleted PROVE SessionInv'
<1>1. PICK deleted \in BOOLEAN :
        /\ device' = [device EXCEPT !.stored = FALSE, !.owner = IF deleted THEN None ELSE @]
        /\ leaked' = (leaked \/ ~ deleted)
  <2>1. PICK arrives \in BOOLEAN :
          LET deleted == arrives /\ MayChange(account, target) /\ device.owner = account IN
          /\ device' = [device EXCEPT !.stored = FALSE, !.owner = IF deleted THEN None ELSE @]
          /\ leaked' = (leaked \/ ~ deleted)
    BY DEF TokenDeleted
  <2>2. PICK deleted \in BOOLEAN :
          deleted = (arrives /\ MayChange(account, target) /\ device.owner = account)
    OBVIOUS
  <2> QED BY <2>1, <2>2
<1>2. /\ leaving = "delete" /\ leaving' = "signout"
      /\ UNCHANGED <<app, account, target, disk, hydrated, me, status, calls, switching, turns,
                     astray>>
  BY DEF TokenDeleted
<1>3. /\ IsDevice(device') /\ device'.stored = FALSE
      /\ device'.owner = IF deleted THEN None ELSE device.owner
  <2>1. PICK d : d = [device EXCEPT !.stored = FALSE]
    OBVIOUS
  <2>2. d = [owner |-> device.owner, stored |-> FALSE, for |-> device.for]
    BY <2>1 DEF SessionInv, IsDevice
  <2>3. PICK o : o = IF deleted THEN None ELSE device.owner
    OBVIOUS
  <2>4. device' = [d EXCEPT !.owner = o]
    BY <1>1, <2>1, <2>2, <2>3
  <2> QED BY <2>2, <2>3, <2>4 DEF IsDevice
<1>4. TokenKept'
  <2>1. deleted => device'.owner = None
    BY <1>3
  <2>2. ~ deleted => leaked'
    BY <1>1
  <2> QED BY <1>2, <1>3, <2>1, <2>2 DEF TokenKept
<1>5. \A c \in calls' : CallSound(c)'
  BY <1>2 DEF SessionInv, CallSound, Acts
<1>6. ProfileRight' /\ NotHydrated' /\ Splash'
  BY <1>2 DEF SessionInv, ProfileRight, FreshLoad, NotHydrated, Splash, AtSplash, Loading, Acts
<1> QED BY <1>2, <1>3, <1>4, <1>5, <1>6 DEF SessionInv, IsDevice

LEMMA SignedOutKeeps == ASSUME SessionInv, SignedOut PROVE SessionInv'
<1>1. PICK old : old = Outdated(calls, {"asked", "sent", "handled"})
  OBVIOUS
<1>2. /\ leaving = "signout" /\ leaving' = "no" /\ account' = None /\ Show(None, None, old)
      /\ UNCHANGED <<app, target, disk, hydrated, switching, turns, astray, leaked>>
  BY <1>1 DEF SignedOut
<1>3. \A q \in old : /\ IsCall(q) /\ q.stale
                     /\ \E r \in calls : q.kind = r.kind /\ q.phase = r.phase
  <2>1. \A r \in calls : IsCall(r)
    BY DEF SessionInv, CallSound
  <2>2. \A q \in old :
          /\ IsCall(q)
          /\ \E r \in calls :
               /\ q.kind = r.kind /\ q.phase = r.phase /\ q.token = r.token /\ q.who = r.who
               /\ q.stale = (r.stale \/ r.phase \in {"asked", "sent", "handled"})
    BY <1>1, <2>1, OutdatedIs
  <2> QED BY <2>1, <2>2 DEF IsCall
<1>4. /\ me' = None /\ IsDevice(device') /\ device'.owner = device.owner
      /\ device'.stored = device.stored /\ calls' = old
  BY <1>2, ShowIs DEF SessionInv
<1>5. \A c \in calls' : CallSound(c)'
  BY <1>3, <1>4 DEF CallSound
<1>6. ProfileRight' /\ Splash'
  BY <1>2, <1>4 DEF ProfileRight, Splash
<1>7. NotHydrated'
  BY <1>2, <1>3, <1>4 DEF SessionInv, NotHydrated
<1>8. TokenKept'
  BY <1>2, <1>4 DEF SessionInv, TokenKept
<1> QED BY <1>2, <1>4, <1>5, <1>6, <1>7, <1>8 DEF SessionInv

LEMMA RestartKeeps == ASSUME SessionInv, Restart PROVE SessionInv'
<1>1. PICK m : /\ Asking({}, "me", account) = {m} /\ IsCall(m)
               /\ m.kind = "me" /\ m.phase = "asked" /\ m.token = account /\ ~ m.stale
  <2>1. AddsOne({}, "me", account)
    BY AskingIs
  <2> QED BY <2>1 DEF AddsOne
<1>2. /\ hydrated' = (app = "web") /\ target' = IF app = "web" THEN disk ELSE None
      /\ me' = None /\ calls' = IF account = None THEN {} ELSE {m}
      /\ switching' = FALSE /\ leaving' = "no" /\ device' = [device EXCEPT !.for = None]
      /\ leaked' = (leaked \/ \E r \in calls : r.kind = "push")
      /\ UNCHANGED <<app, account, disk>>
  BY <1>1 DEF Restart
<1>3. IsDevice(device') /\ device'.owner = device.owner /\ device'.stored = device.stored
  BY <1>2 DEF SessionInv, IsDevice
<1>4. \A c \in calls' : CallSound(c)'
  BY <1>1, <1>2 DEF CallSound
<1>5. ProfileRight' /\ Splash'
  BY <1>1, <1>2 DEF ProfileRight, Splash, Loading
<1>6. NotHydrated'
  BY <1>1, <1>2 DEF SessionInv, NotHydrated
<1>7. TokenKept'
  <2>1. Registered => leaked'
    BY <1>2 DEF Registered
  <2> QED BY <1>2, <1>3, <2>1 DEF SessionInv, TokenKept
<1> QED BY <1>2, <1>3, <1>4, <1>5, <1>6, <1>7 DEF SessionInv

LEMMA HydrateKeeps == ASSUME SessionInv, Hydrate PROVE SessionInv'
<1>1. /\ ~ hydrated /\ hydrated' = TRUE
      /\ UNCHANGED <<app, account, disk, me, status, calls, switching, device, leaving, turns,
                     astray, leaked>>
  BY DEF Hydrate
<1>2. me = None /\ \A r \in calls : r.phase = "asked"
  BY <1>1 DEF SessionInv, NotHydrated
<1>3. \A c \in calls' : CallSound(c)'
  BY <1>1, <1>2 DEF SessionInv, CallSound
<1>4. ProfileRight' /\ NotHydrated' /\ Splash'
  BY <1>1, <1>2 DEF SessionInv, ProfileRight, NotHydrated, Splash, AtSplash, Loading
<1>5. TokenKept'
  BY <1>1 DEF SessionInv, TokenKept, Registered
<1> QED BY <1>1, <1>3, <1>4, <1>5 DEF SessionInv, IsDevice

LEMMA SessionStep == SessionInv /\ [SessionNext]_sessionVars => SessionInv'
<1> SUFFICES ASSUME SessionInv, [SessionNext]_sessionVars PROVE SessionInv'
  OBVIOUS
<1>1. CASE UNCHANGED sessionVars
  <2>1. UNCHANGED <<app, account, target, disk, hydrated, me, status, calls, switching, device,
                    leaving, turns, astray, leaked>>
    BY <1>1 DEF sessionVars
  <2>2. \A c \in calls' : CallSound(c)'
    BY <2>1 DEF SessionInv, CallSound, Acts
  <2>3. ProfileRight' /\ NotHydrated' /\ Splash'
    BY <2>1 DEF SessionInv, ProfileRight, FreshLoad, NotHydrated, Splash, AtSplash, Loading, Acts
  <2>4. TokenKept'
    BY <2>1 DEF SessionInv, TokenKept, Registered
  <2> QED BY <2>1, <2>2, <2>3, <2>4 DEF SessionInv, IsDevice
<1>2. ASSUME NEW who \in {Admin, Member}, SignIn(who) PROVE SessionInv'
  BY <1>2, SignInKeeps
<1>3. CASE Refresh \/ SwitchRefreshes
  <2>1. /\ calls' = Asking(calls, "me", account)
        /\ UNCHANGED <<app, account, target, hydrated, me, device, leaving, astray, leaked>>
        /\ switching' = switching \/ switching' = FALSE
    BY <1>3 DEF Refresh, SwitchRefreshes
  <2> QED BY <2>1, ReloadKeeps
<1>4. CASE EnterWarp \/ ExitWarp
  BY <1>4, WarpKeeps
<1>5. ASSUME NEW r \in calls,
             \/ SendRequest(r) \/ HandlePush(r) \/ PushAnswered(r) \/ ProfileAnswered(r)
             \/ MobileLoadFails(r) \/ WebLoadFails(r) \/ RequestFails(r)
      PROVE  SessionInv'
  BY <1>5, SendRequestKeeps, HandlePushKeeps, PushAnsweredKeeps, ProfileAnsweredKeeps,
     MobileLoadFailsKeeps, WebLoadFailsKeeps, RequestFailsKeeps
<1>6. CASE Logout \/ TokenDeleted \/ SignedOut \/ Restart \/ Hydrate
  BY <1>6, LogoutKeeps, TokenDeletedKeeps, SignedOutKeeps, RestartKeeps, HydrateKeeps
<1> QED BY <1>1, <1>2, <1>3, <1>4, <1>5, <1>6 DEF SessionNext

(* Whatever order sign-ins, sign-outs, warps, restarts and the answers of    *)
(* any number of calls come in, the profile shown is who the calls act as    *)
(* once nothing is under way, nobody signed in waits at the splash screen    *)
(* for a load that was never asked for, and the push token is stored for no  *)
(* other account unless its deletion or registration was cut off (mobile     *)
(* lib/session.tsx, lib/warp.tsx and lib/push.ts, web SessionProvider.tsx). *)
THEOREM IdentityOnScreen == Spec => []SessionSound
<1>1. Init => SessionInv
  BY SessionInitial DEF Init
<1>2. SessionInv /\ [Next]_screenVars => SessionInv'
  BY ScreenMoves, SessionStep
<1>3. SessionInv => SessionSound
  BY DEF SessionInv, ProfileRight, FreshLoad, Splash, TokenKept, SessionSound, Underway
<1> QED BY <1>1, <1>2, <1>3, PTL DEF Spec

-----------------------------------------------------------------------------
(* The profile forms *)

ProfileForms == {MobileSignup, MobileEdit, WebSignup, Settings}
Answers == [phase : {"answered"}, seen : ProfileRows]

IsEdit(e) ==
  /\ e = [by |-> e.by, body |-> e.body, phase |-> e.phase, renames |-> e.renames, seen |-> e.seen]
  /\ e.body \in ProfileRows /\ e.renames \in BOOLEAN
  /\ e.phase \in {"sent", "checked", "refused", "written", "answered"}
  /\ e.phase = "answered" => e.seen \in ProfileRows

ProfileTypes ==
  /\ form \in ProfileForms /\ row \in ProfileRows /\ fields \in ProfileRows
  /\ body \in ProfileRows /\ promise \in ProfileRows
  /\ recent \in BOOLEAN /\ renames \in Nat /\ together \in BOOLEAN
  /\ reservation \in [Names -> Reservations]
  /\ \A e \in edits : IsEdit(e)
  /\ loads \in [{"save", "other"} -> {NotLoading, LoadAsked} \cup Answers]

(* A name checked and not written is still free to be written, as long as    *)
(* nothing was checked beside it.                                            *)
NameStands ==
  /\ renames <= 1
  /\ row.name # NoName => reservation[row.name] # "other"
  /\ reserving # NoName => row.name # reserving /\ \A e \in edits : e.phase # "checked"
  /\ \A e \in edits : e.phase = "checked" /\ e.renames =>
        ~ recent /\ e.body.name \in Names /\ reservation[e.body.name] # "other"
  /\ \A e, d \in edits : e.phase = "checked" /\ d.phase = "checked" => e = d

NamesInv ==
  /\ row.name \notin others
  /\ ~ recent => renames = 0
  /\ ~ together => NameStands

(* One save at a time is sent or read again.                                 *)
OneSave ==
  /\ \A e, d \in edits : e.by = "form" /\ d.by = "form" => e = d
  /\ (\E e \in edits : e.by = "form") => stage \in {"patching", "left"} /\ loads["save"] = NotLoading
  /\ loads["save"] # NotLoading => stage \in {"refreshing", "left"}

(* Where the save that nothing else met is, and what has come of it.         *)
RowKept(r) == r.name = promise.name /\ promise.bio \in {r.bio, Empty}

SaveOnWay(e) ==
  /\ edits = {e} /\ e.by = "form" /\ e.body = promise
  /\ e.phase = "checked" => e.renames \/ row.name = promise.name
  /\ e.phase \in {"written", "answered"} => RowKept(row)
  /\ e.phase = "answered" => e.seen = row

Reread ==
  /\ edits = {} /\ RowKept(row) /\ (IsMobile => profile = row)
  /\ loads["save"] \in {LoadAsked, [phase |-> "answered", seen |-> row]}

Done ==
  /\ edits = {} /\ loads["save"] = NotLoading /\ RowKept(row) /\ profile \in {row, NoProfile}
  /\ form = Settings /\ stage = "filling" /\ ~ touched => fields = Text(profile)

PromiseKept ==
  promise # Blank =>
    /\ loads["other"] = NotLoading
    /\ \/ stage = "preparing" /\ edits = {} /\ body = promise
       \/ stage = "patching" /\ \E e : SaveOnWay(e)
       \/ stage = "refreshing" /\ Reread
       \/ stage \in {"filling", "left"} /\ Done

ProfileInv == ProfileTypes /\ NamesInv /\ OneSave /\ PromiseKept

-----------------------------------------------------------------------------
LEMMA ProfileInitial == ProfileInit => ProfileInv
<1> SUFFICES ASSUME ProfileInit PROVE ProfileInv
  OBVIOUS
<1>1. Blank \in ProfileRows
  BY DEF Blank, ProfileRows
<1>2. ProfileTypes
  <2>1. recent \in BOOLEAN /\ renames \in Nat
    BY DEF ProfileInit
  <2> QED BY <1>1, <2>1 DEF ProfileInit, ProfileTypes, ProfileForms
<1>3. NamesInv
  <2>1. /\ others = {} /\ reserving = NoName /\ edits = {}
        /\ renames = IF recent THEN 1 ELSE 0
        /\ row.name = IF IsSignup THEN NoName ELSE FirstName
        /\ \A n \in Names : reservation[n] # "none" => n \in ShortNames
    BY DEF ProfileInit
  <2>2. row.name # NoName => reservation[row.name] # "other"
    BY <2>1, ProfileAssumption
  <2> QED BY <2>1, <2>2 DEF NamesInv, NameStands
<1>4. edits = {} /\ loads["save"] = NotLoading /\ promise = Blank
  BY DEF ProfileInit
<1> QED BY <1>2, <1>3, <1>4 DEF ProfileInv, OneSave, PromiseKept

(* What becomes of an edit. *)
LEMMA PhaseSet ==
  ASSUME NEW e, IsEdit(e), NEW p
  PROVE  [e EXCEPT !.phase = p] =
           [by |-> e.by, body |-> e.body, phase |-> p, renames |-> e.renames, seen |-> e.seen]
BY DEF IsEdit

LEMMA CheckSet ==
  ASSUME NEW e, IsEdit(e), NEW p, NEW r
  PROVE  [e EXCEPT !.phase = p, !.renames = r] =
           [by |-> e.by, body |-> e.body, phase |-> p, renames |-> r, seen |-> e.seen]
<1>1. PICK q : q = [e EXCEPT !.phase = p]
  OBVIOUS
<1>2. q = [by |-> e.by, body |-> e.body, phase |-> p, renames |-> e.renames, seen |-> e.seen]
  BY <1>1, PhaseSet
<1>3. [q EXCEPT !.renames = r] =
        [by |-> e.by, body |-> e.body, phase |-> p, renames |-> r, seen |-> e.seen]
  BY <1>2
<1> QED BY <1>1, <1>3

LEMMA AnswerSet ==
  ASSUME NEW e, IsEdit(e), NEW p, NEW r
  PROVE  [e EXCEPT !.phase = p, !.seen = r] =
           [by |-> e.by, body |-> e.body, phase |-> p, renames |-> e.renames, seen |-> r]
<1>1. PICK q : q = [e EXCEPT !.phase = p]
  OBVIOUS
<1>2. q = [by |-> e.by, body |-> e.body, phase |-> p, renames |-> e.renames, seen |-> e.seen]
  BY <1>1, PhaseSet
<1>3. [q EXCEPT !.seen = r] =
        [by |-> e.by, body |-> e.body, phase |-> p, renames |-> e.renames, seen |-> r]
  BY <1>2
<1> QED BY <1>1, <1>3

(* Names stand when neither they nor what is checked changes.                *)
LEMMA NamesRest ==
  ASSUME ProfileInv, UNCHANGED rowVars,
         \A d \in edits' : d.phase = "checked" => d \in edits
  PROVE  NamesInv'
<1>1. UNCHANGED <<row, recent, others, reservation, reserving, renames, together>>
  BY DEF rowVars
<1>2. ~ together => NameStands'
  BY <1>1 DEF ProfileInv, NamesInv, NameStands
<1> QED BY <1>1, <1>2 DEF ProfileInv, NamesInv

LEMMA CheckEditKeeps == ASSUME ProfileInv, NEW e \in edits, CheckEdit(e) PROVE ProfileInv'
<1>1. PICK renaming \in BOOLEAN : renaming = (e.body.name # row.name)
  OBVIOUS
<1>2. PICK p : p = IF Checked(e) THEN "checked" ELSE "refused"
  OBVIOUS
<1>3. PICK d : d = [by |-> e.by, body |-> e.body, phase |-> p, renames |-> renaming,
                    seen |-> e.seen]
  OBVIOUS
<1>4. IsEdit(e)
  BY DEF ProfileInv, ProfileTypes
<1>5. /\ e.phase = "sent" /\ edits' = (edits \ {e}) \cup {d}
      /\ together' = (together \/ reserving # NoName \/ \E f \in edits \ {e} : f.phase = "checked")
      /\ UNCHANGED <<form, outside, profile, fields, touched, stage, body, loads, promise,
                     row, recent, others, reservation, reserving, renames>>
  <2>1. [e EXCEPT !.phase = IF Checked(e) THEN "checked" ELSE "refused", !.renames = Renames(e)] = d
    <3>1. PICK v : v = Renames(e)
      OBVIOUS
    <3>2. v = renaming
      BY <1>1, <3>1 DEF Renames
    <3>3. [e EXCEPT !.phase = p, !.renames = v] = d
      <4>1. [e EXCEPT !.phase = p, !.renames = v] =
              [by |-> e.by, body |-> e.body, phase |-> p, renames |-> v, seen |-> e.seen]
        BY <1>4, CheckSet
      <4> QED BY <1>3, <3>2, <4>1
    <3> QED BY <1>2, <3>1, <3>3
  <2> QED BY <2>1 DEF CheckEdit, Becomes, NotOnServer, fieldVars, saveVars
<1>6. IsEdit(d) /\ d.by = e.by /\ d.body = e.body /\ d.phase = p /\ d.renames = renaming
  BY <1>2, <1>3, <1>4 DEF IsEdit
<1>7. ProfileTypes'
  <2>1. together' \in BOOLEAN
    BY <1>5
  <2> QED BY <1>5, <1>6, <2>1 DEF ProfileInv, ProfileTypes, IsEdit
<1>8. NamesInv'
  <2>1. ASSUME ~ together' PROVE NameStands'
    <3>1. /\ NameStands /\ reserving = NoName
          /\ \A f \in edits' : f.phase = "checked" => f = d
      BY <1>5, <2>1 DEF ProfileInv, NamesInv
    <3>2. p = "checked" /\ renaming => ~ recent /\ e.body.name \in Names
                                       /\ reservation[e.body.name] # "other"
      <4>1. p = "checked" => Checked(e)
        BY <1>2
      <4>2. e.body.name \in Names \cup {NoName}
        BY <1>4 DEF IsEdit, ProfileRows
      <4> QED BY <1>1, <4>1, <4>2 DEF Checked, Renames, Claimable
    <3> QED BY <1>5, <1>6, <3>1, <3>2 DEF NameStands
  <2> QED BY <1>5, <2>1 DEF ProfileInv, NamesInv
<1>9. OneSave'
  BY <1>5, <1>6 DEF ProfileInv, OneSave
<1>10. PromiseKept'
  <2>1. ASSUME promise # Blank
        PROVE  loads["other"] = NotLoading /\ stage = "patching" /\ SaveOnWay(e)
    BY <2>1 DEF ProfileInv, PromiseKept, SaveOnWay, Reread, Done
  <2>2. ASSUME promise # Blank PROVE SaveOnWay(d)'
    <3>1. SaveOnWay(e)
      BY <2>1, <2>2
    <3>2. p = "checked" => renaming \/ row.name = promise.name
      BY <1>1, <3>1 DEF SaveOnWay
    <3>3. p \notin {"written", "answered"}
      BY <1>2
    <3> QED BY <1>5, <1>6, <3>1, <3>2, <3>3 DEF SaveOnWay
  <2> QED BY <1>5, <2>1, <2>2 DEF PromiseKept
<1> QED BY <1>7, <1>8, <1>9, <1>10 DEF ProfileInv

LEMMA WriteEditKeeps == ASSUME ProfileInv, NEW e \in edits, WriteEdit(e) PROVE ProfileInv'
<1>1. /\ e.phase = "checked"
      /\ UNCHANGED <<form, outside, profile, fields, touched, stage, body, loads, promise,
                     others, reservation, reserving, together>>
  BY DEF WriteEdit, NotOnServer, fieldVars, saveVars
<1>2. IsEdit(e)
  BY DEF ProfileInv, ProfileTypes
<1>3. CASE e.renames /\ e.body.name \in others
  <2>1. PICK d : d = [by |-> e.by, body |-> e.body, phase |-> "refused", renames |-> e.renames,
                      seen |-> e.seen]
    OBVIOUS
  <2>2. edits' = (edits \ {e}) \cup {d} /\ UNCHANGED <<row, recent, renames>>
    BY <1>2, <1>3, <2>1, PhaseSet DEF WriteEdit, Becomes
  <2>3. IsEdit(d) /\ d.by = e.by /\ d.body = e.body /\ d.phase = "refused"
    BY <1>2, <2>1 DEF IsEdit
  <2>4. ProfileTypes'
    BY <1>1, <2>2, <2>3 DEF ProfileInv, ProfileTypes, IsEdit
  <2>5. NamesInv'
    BY <1>1, <2>2, <2>3, NamesRest DEF rowVars
  <2>6. OneSave'
    BY <1>1, <2>2, <2>3 DEF ProfileInv, OneSave
  <2>7. PromiseKept'
    <3>1. ASSUME promise # Blank
          PROVE  loads["other"] = NotLoading /\ stage = "patching" /\ SaveOnWay(e)
      BY <3>1 DEF ProfileInv, PromiseKept, SaveOnWay, Reread, Done
    <3>2. ASSUME promise # Blank PROVE SaveOnWay(d)'
      BY <1>1, <2>2, <2>3, <3>1, <3>2 DEF SaveOnWay
    <3> QED BY <1>1, <3>1, <3>2 DEF PromiseKept
  <2> QED BY <2>4, <2>5, <2>6, <2>7 DEF ProfileInv
<1>4. CASE ~ (e.renames /\ e.body.name \in others)
  <2>1. PICK d : d = [by |-> e.by, body |-> e.body, phase |-> "written", renames |-> e.renames,
                      seen |-> e.seen]
    OBVIOUS
  <2>2. /\ edits' = (edits \ {e}) \cup {d} /\ row' = RowMerged(row, e)
        /\ recent' = (recent \/ e.renames)
        /\ renames' = IF e.renames THEN renames + 1 ELSE renames
    BY <1>2, <1>4, <2>1, PhaseSet DEF WriteEdit, Becomes
  <2>3. IsEdit(d) /\ d.by = e.by /\ d.body = e.body /\ d.phase = "written"
    BY <1>2, <2>1 DEF IsEdit
  <2>4. /\ row'.name = (IF e.renames THEN e.body.name ELSE row.name)
        /\ row'.bio = (IF e.body.bio = Empty THEN row.bio ELSE e.body.bio)
        /\ row' \in ProfileRows
    <3>1. row \in ProfileRows /\ e.body \in ProfileRows
      BY <1>2 DEF ProfileInv, ProfileTypes, IsEdit
    <3> QED BY <2>2, <3>1 DEF RowMerged, ProfileRows
  <2>5. ProfileTypes'
    <3>1. recent' \in BOOLEAN /\ renames' \in Nat
      BY <1>2, <2>2 DEF ProfileInv, ProfileTypes, IsEdit
    <3> QED BY <1>1, <2>2, <2>3, <2>4, <3>1 DEF ProfileInv, ProfileTypes, IsEdit
  <2>6. NamesInv'
    <3>1. row'.name \notin others'
      BY <1>1, <1>4, <2>4 DEF ProfileInv, NamesInv
    <3>2. ~ recent' => renames' = 0
      BY <2>2 DEF ProfileInv, NamesInv
    <3>3. ASSUME ~ together' PROVE NameStands'
      <4>1. /\ NameStands /\ reserving = NoName
            /\ \A f \in edits' : f.phase # "checked"
        BY <1>1, <2>2, <2>3, <3>3 DEF ProfileInv, NamesInv, NameStands
      <4>2. renames' <= 1
        <5>1. renames \in Nat /\ (~ recent => renames = 0)
          BY DEF ProfileInv, ProfileTypes, NamesInv
        <5>2. e.renames => ~ recent
          BY <1>1, <4>1 DEF NameStands
        <5> QED BY <2>2, <4>1, <5>1, <5>2 DEF NameStands
      <4>3. row'.name # NoName => reservation'[row'.name] # "other"
        BY <1>1, <2>4, <4>1 DEF NameStands
      <4> QED BY <1>1, <4>1, <4>2, <4>3 DEF NameStands
    <3> QED BY <3>1, <3>2, <3>3 DEF NamesInv
  <2>7. OneSave'
    BY <1>1, <2>2, <2>3 DEF ProfileInv, OneSave
  <2>8. PromiseKept'
    <3>1. ASSUME promise # Blank
          PROVE  loads["other"] = NotLoading /\ stage = "patching" /\ SaveOnWay(e)
      BY <3>1 DEF ProfileInv, PromiseKept, SaveOnWay, Reread, Done
    <3>2. ASSUME promise # Blank PROVE SaveOnWay(d)'
      <4>1. SaveOnWay(e)
        BY <3>1, <3>2
      <4>2. row'.name = promise.name /\ promise.bio \in {row'.bio, Empty}
        BY <1>1, <2>4, <4>1 DEF SaveOnWay
      <4> QED BY <1>1, <2>2, <2>3, <4>1, <4>2 DEF SaveOnWay, RowKept
    <3> QED BY <1>1, <3>1, <3>2 DEF PromiseKept
  <2> QED BY <2>5, <2>6, <2>7, <2>8 DEF ProfileInv
<1> QED BY <1>3, <1>4

LEMMA ReadBackKeeps == ASSUME ProfileInv, NEW e \in edits, ReadBack(e) PROVE ProfileInv'
<1>1. IsEdit(e)
  BY DEF ProfileInv, ProfileTypes
<1>2. PICK d : d = [by |-> e.by, body |-> e.body, phase |-> "answered", renames |-> e.renames,
                    seen |-> row]
  OBVIOUS
<1>3. /\ e.phase = "written" /\ edits' = (edits \ {e}) \cup {d}
      /\ UNCHANGED <<form, outside, profile, fields, touched, stage, body, loads, promise>>
      /\ UNCHANGED rowVars
  BY <1>1, <1>2, AnswerSet DEF ReadBack, Becomes, NotOnServer, fieldVars, saveVars
<1>4. /\ UNCHANGED <<row, recent, others, reservation, reserving, renames, together>>
      /\ row \in ProfileRows
  BY <1>3 DEF rowVars, ProfileInv, ProfileTypes
<1>5. IsEdit(d) /\ d.by = e.by /\ d.body = e.body /\ d.phase = "answered" /\ d.seen = row
  BY <1>1, <1>2, <1>4 DEF IsEdit
<1>6. ProfileTypes'
  BY <1>3, <1>4, <1>5 DEF ProfileInv, ProfileTypes, IsEdit
<1>7. NamesInv'
  BY <1>3, <1>5, NamesRest
<1>8. OneSave'
  BY <1>3, <1>5 DEF ProfileInv, OneSave
<1>9. PromiseKept'
  <2>1. ASSUME promise # Blank
        PROVE  loads["other"] = NotLoading /\ stage = "patching" /\ SaveOnWay(e)
    BY <2>1 DEF ProfileInv, PromiseKept, SaveOnWay, Reread, Done
  <2>2. ASSUME promise # Blank PROVE SaveOnWay(d)'
    BY <1>3, <1>4, <1>5, <2>1, <2>2 DEF SaveOnWay, RowKept
  <2> QED BY <1>3, <2>1, <2>2 DEF PromiseKept
<1> QED BY <1>6, <1>7, <1>8, <1>9 DEF ProfileInv

LEMMA ScreenRests ==
  ASSUME ProfileInv, UNCHANGED <<form, edits, row, profile, fields, touched, stage, body, loads, promise>>
  PROVE  OneSave' /\ PromiseKept'
<1>1. OneSave'
  BY DEF ProfileInv, OneSave
<1>2. \A e : SaveOnWay(e) => SaveOnWay(e)'
  BY DEF SaveOnWay, RowKept
<1>3. (Reread => Reread') /\ (Done /\ stage \in {"filling", "left"} => Done')
  BY DEF Reread, Done, RowKept, IsMobile, Text
<1>4. PromiseKept'
  BY <1>2, <1>3 DEF ProfileInv, PromiseKept
<1> QED BY <1>1, <1>4

LEMMA OutsideKeeps ==
  ASSUME ProfileInv,
         \/ WeekPasses
         \/ \E n \in Names : OtherClaims(n) \/ CheckReservation(n) \/ DeleteReservation(n)
         \/ \E whose \in Reservations \ {"none"} : Reserve(whose)
  PROVE  ProfileInv'
<1>1. UNCHANGED <<form, edits, row, profile, fields, touched, stage, body, loads, promise>>
  BY DEF WeekPasses, OtherClaims, CheckReservation, DeleteReservation, Reserve, OutsideOnly,
         NotOnServer, fieldVars, saveVars
<1>2. OneSave' /\ PromiseKept'
  BY <1>1, ScreenRests
<1>3. CASE WeekPasses
  <2>1. /\ recent' = FALSE /\ renames' = 0
        /\ UNCHANGED <<others, reservation, reserving, together>>
    BY <1>3 DEF WeekPasses
  <2>2. ProfileTypes'
    BY <1>1, <2>1 DEF ProfileInv, ProfileTypes, IsEdit
  <2>3. NamesInv'
    BY <1>1, <2>1 DEF ProfileInv, NamesInv, NameStands
  <2> QED BY <1>2, <2>2, <2>3 DEF ProfileInv
<1>4. ASSUME NEW n \in Names, OtherClaims(n) PROVE ProfileInv'
  <2>1. /\ n # row.name /\ others' = others \cup {n}
        /\ UNCHANGED <<recent, reservation, reserving, renames, together>>
    BY <1>4 DEF OtherClaims
  <2>2. ProfileTypes'
    BY <1>1, <2>1 DEF ProfileInv, ProfileTypes, IsEdit
  <2>3. NamesInv'
    BY <1>1, <2>1 DEF ProfileInv, NamesInv, NameStands
  <2> QED BY <1>2, <2>2, <2>3 DEF ProfileInv
<1>5. ASSUME NEW n \in Names, CheckReservation(n) PROVE ProfileInv'
  <2>1. /\ n # row.name /\ reserving' = n
        /\ together' = (together \/ \E e \in edits : e.phase = "checked")
        /\ UNCHANGED <<recent, others, reservation, renames>>
    BY <1>5 DEF CheckReservation
  <2>2. ProfileTypes'
    <3>1. together' \in BOOLEAN
      BY <2>1
    <3> QED BY <1>1, <2>1, <3>1 DEF ProfileInv, ProfileTypes, IsEdit
  <2>3. NamesInv'
    <3>1. ~ together' => ~ together /\ \A e \in edits : e.phase # "checked"
      BY <2>1
    <3> QED BY <1>1, <2>1, <3>1 DEF ProfileInv, NamesInv, NameStands
  <2> QED BY <1>2, <2>2, <2>3 DEF ProfileInv
<1>6. ASSUME NEW n \in Names, DeleteReservation(n) PROVE ProfileInv'
  <2>1. /\ reservation' = [reservation EXCEPT ![n] = "none"]
        /\ UNCHANGED <<recent, others, reserving, renames, together>>
    BY <1>6 DEF DeleteReservation
  <2>2. /\ reservation' \in [Names -> Reservations]
        /\ \A m \in Names : reservation[m] # "other" => reservation'[m] # "other"
    BY <2>1 DEF ProfileInv, ProfileTypes, Reservations
  <2>3. ProfileTypes'
    BY <1>1, <2>1, <2>2 DEF ProfileInv, ProfileTypes, IsEdit
  <2>4. row.name \in Names \cup {NoName}
    BY DEF ProfileInv, ProfileTypes, ProfileRows
  <2>5. NamesInv'
    BY <1>1, <2>1, <2>2, <2>4 DEF ProfileInv, NamesInv, NameStands
  <2> QED BY <1>2, <2>3, <2>5 DEF ProfileInv
<1>7. ASSUME NEW whose \in Reservations \ {"none"}, Reserve(whose) PROVE ProfileInv'
  <2>1. /\ reserving # NoName /\ reservation' = [reservation EXCEPT ![reserving] = whose]
        /\ reserving' = NoName
        /\ UNCHANGED <<recent, others, renames, together>>
    BY <1>7 DEF Reserve
  <2>2. /\ reservation' \in [Names -> Reservations]
        /\ \A m \in Names \ {reserving} : reservation'[m] = reservation[m]
    BY <2>1 DEF ProfileInv, ProfileTypes, Reservations
  <2>3. ProfileTypes'
    BY <1>1, <2>1, <2>2 DEF ProfileInv, ProfileTypes, IsEdit
  <2>4. row.name \in Names \cup {NoName}
    BY DEF ProfileInv, ProfileTypes, ProfileRows
  <2>5. NamesInv'
    BY <1>1, <2>1, <2>2, <2>4 DEF ProfileInv, NamesInv, NameStands
  <2> QED BY <1>2, <2>3, <2>5 DEF ProfileInv
<1> QED BY <1>3, <1>4, <1>5, <1>6, <1>7

LEMMA NewIsEdit ==
  ASSUME NEW by, NEW b \in ProfileRows
  PROVE  /\ IsEdit(NewEdit(by, b)) /\ NewEdit(by, b).by = by /\ NewEdit(by, b).body = b
         /\ NewEdit(by, b).phase = "sent"
BY DEF NewEdit, IsEdit

LEMMA EditElsewhereKeeps ==
  ASSUME ProfileInv, NEW n \in Names, EditElsewhere([name |-> n, bio |-> Empty])
  PROVE  ProfileInv'
<1>1. PICK b : b = [name |-> n, bio |-> Empty]
  OBVIOUS
<1>2. b \in ProfileRows /\ Blank \in ProfileRows
  BY <1>1 DEF ProfileRows, Blank
<1>3. PICK d : d = NewEdit("elsewhere", b)
  OBVIOUS
<1>4. IsEdit(d) /\ d.by = "elsewhere" /\ d.phase = "sent"
  BY <1>2, <1>3, NewIsEdit
<1>5. /\ edits' = edits \cup {d} /\ promise' = Blank
      /\ UNCHANGED <<form, profile, fields, touched, stage, body, loads>>
      /\ UNCHANGED rowVars
  BY <1>1, <1>3 DEF EditElsewhere, fieldVars
<1>6. ProfileTypes'
  BY <1>2, <1>4, <1>5 DEF ProfileInv, ProfileTypes, IsEdit, rowVars
<1>7. NamesInv'
  BY <1>4, <1>5, NamesRest
<1>8. OneSave'
  BY <1>4, <1>5 DEF ProfileInv, OneSave
<1> QED BY <1>5, <1>6, <1>7, <1>8 DEF ProfileInv, PromiseKept

LEMMA EndElsewhereKeeps == ASSUME ProfileInv, NEW e \in edits, EndElsewhere(e) PROVE ProfileInv'
<1>1. /\ e.by = "elsewhere" /\ edits' = edits \ {e}
      /\ UNCHANGED <<form, profile, fields, touched, stage, body, loads, promise>>
      /\ UNCHANGED rowVars
  BY DEF EndElsewhere, NotOnServer, fieldVars, saveVars
<1>2. ProfileTypes'
  BY <1>1 DEF ProfileInv, ProfileTypes, IsEdit, rowVars
<1>3. NamesInv'
  BY <1>1, NamesRest
<1>4. OneSave'
  BY <1>1 DEF ProfileInv, OneSave
<1>5. promise = Blank
  BY <1>1 DEF ProfileInv, PromiseKept, SaveOnWay, Reread, Done
<1> QED BY <1>1, <1>2, <1>3, <1>4, <1>5 DEF ProfileInv, PromiseKept

LEMMA TypeFieldKeeps ==
  ASSUME ProfileInv, NEW f \in ProfileRows, TypeField(f)
  PROVE  ProfileInv'
<1>1. /\ stage # "left" /\ fields' = f /\ touched' = TRUE
      /\ UNCHANGED <<form, edits, profile, stage, body, loads, promise>>
      /\ UNCHANGED rowVars
  BY DEF TypeField, saveVars
<1>2. row' = row
  BY <1>1 DEF rowVars
<1>3. ProfileTypes'
  BY <1>1 DEF ProfileInv, ProfileTypes, IsEdit, rowVars
<1>4. NamesInv'
  BY <1>1, NamesRest
<1>5. OneSave'
  BY <1>1 DEF ProfileInv, OneSave
<1>6. \A e : SaveOnWay(e) => SaveOnWay(e)'
  BY <1>1, <1>2 DEF SaveOnWay, RowKept
<1>7. (Reread => Reread') /\ (Done => Done')
  BY <1>1, <1>2 DEF Reread, Done, RowKept, IsMobile
<1>8. PromiseKept'
  BY <1>1, <1>6, <1>7 DEF ProfileInv, PromiseKept
<1> QED BY <1>3, <1>4, <1>5, <1>8 DEF ProfileInv

LEMMA SubmittedKeeps == ASSUME ProfileInv, Submitted PROVE ProfileInv'
<1>1. /\ stage = "filling" /\ touched' = FALSE
      /\ promise' = IF edits = {} /\ loads["other"] = NotLoading THEN fields ELSE Blank
      /\ UNCHANGED <<form, profile, fields, loads>> /\ UNCHANGED rowVars
  BY DEF Submitted
<1>2. \/ stage' = "preparing" /\ body' = fields /\ edits' = edits
      \/ stage' = "patching" /\ edits' = edits \cup {NewEdit("form", fields)} /\ body' = body
  BY DEF Submitted, Sends
<1>3. PICK d : d = NewEdit("form", fields)
  OBVIOUS
<1>4. IsEdit(d) /\ d.by = "form" /\ d.body = fields /\ d.phase = "sent"
  BY <1>3, NewIsEdit DEF ProfileInv, ProfileTypes
<1>5. Blank \in ProfileRows /\ fields \in ProfileRows
  BY DEF ProfileRows, Blank, ProfileInv, ProfileTypes
<1>6. ProfileTypes'
  BY <1>1, <1>2, <1>3, <1>4, <1>5 DEF ProfileInv, ProfileTypes, IsEdit, rowVars
<1>7. NamesInv'
  BY <1>1, <1>2, <1>3, <1>4, NamesRest
<1>8. (\A e \in edits : e.by # "form") /\ loads["save"] = NotLoading
  BY <1>1 DEF ProfileInv, OneSave
<1>9. OneSave'
  BY <1>1, <1>2, <1>3, <1>4, <1>8 DEF OneSave
<1>10. PromiseKept'
  <2> SUFFICES ASSUME promise' # Blank PROVE PromiseKept'
    BY DEF PromiseKept
  <2>1. edits = {} /\ loads["other"] = NotLoading /\ promise' = fields
    BY <1>1
  <2>2. CASE stage' = "preparing" /\ body' = fields /\ edits' = edits
    BY <1>1, <2>1, <2>2 DEF PromiseKept
  <2>3. CASE stage' = "patching" /\ edits' = edits \cup {NewEdit("form", fields)}
    <3>1. SaveOnWay(d)'
      BY <1>3, <1>4, <2>1, <2>3 DEF SaveOnWay
    <3> QED BY <1>1, <2>1, <2>3, <3>1 DEF PromiseKept
  <2> QED BY <1>2, <2>2, <2>3
<1> QED BY <1>6, <1>7, <1>9, <1>10 DEF ProfileInv

LEMMA PreparedKeeps == ASSUME ProfileInv, Prepared PROVE ProfileInv'
<1>1. PICK d : d = NewEdit("form", body)
  OBVIOUS
<1>2. /\ stage = "preparing" /\ stage' = "patching" /\ edits' = edits \cup {d} /\ body' = Blank
      /\ UNCHANGED <<form, profile, fields, touched, loads, promise>> /\ UNCHANGED rowVars
  BY <1>1 DEF Prepared, Sends, fieldVars
<1>3. IsEdit(d) /\ d.by = "form" /\ d.body = body /\ d.phase = "sent"
  BY <1>1, NewIsEdit DEF ProfileInv, ProfileTypes
<1>4. Blank \in ProfileRows
  BY DEF ProfileRows, Blank
<1>5. ProfileTypes'
  BY <1>2, <1>3, <1>4 DEF ProfileInv, ProfileTypes, IsEdit, rowVars
<1>6. NamesInv'
  BY <1>2, <1>3, NamesRest
<1>7. (\A e \in edits : e.by # "form") /\ loads["save"] = NotLoading
  BY <1>2 DEF ProfileInv, OneSave
<1>8. OneSave'
  BY <1>2, <1>3, <1>7 DEF OneSave
<1>9. PromiseKept'
  <2> SUFFICES ASSUME promise # Blank PROVE PromiseKept'
    BY <1>2 DEF PromiseKept
  <2>1. edits = {} /\ body = promise /\ loads["other"] = NotLoading
    BY <1>2 DEF ProfileInv, PromiseKept
  <2>2. SaveOnWay(d)'
    BY <1>2, <1>3, <2>1 DEF SaveOnWay
  <2> QED BY <1>2, <2>1, <2>2 DEF PromiseKept
<1> QED BY <1>5, <1>6, <1>8, <1>9 DEF ProfileInv

LEMMA PrepareFailsKeeps == ASSUME ProfileInv, PrepareFails PROVE ProfileInv'
<1>1. /\ stage = "preparing" /\ stage' = "filling" /\ body' = Blank /\ promise' = Blank
      /\ UNCHANGED <<form, edits, profile, fields, touched, loads>> /\ UNCHANGED rowVars
  BY DEF PrepareFails, fieldVars
<1>2. Blank \in ProfileRows
  BY DEF ProfileRows, Blank
<1>3. ProfileTypes'
  BY <1>1, <1>2 DEF ProfileInv, ProfileTypes, IsEdit, rowVars
<1>4. NamesInv'
  BY <1>1, NamesRest
<1>5. OneSave'
  BY <1>1 DEF ProfileInv, OneSave
<1> QED BY <1>1, <1>3, <1>4, <1>5 DEF ProfileInv, PromiseKept

LEMMA FilledIs ==
  ASSUME ProfileTypes, NEW r \in ProfileRows
  PROVE  Filled(r) \in ProfileRows /\ (form = Settings => Filled(r) = Text(r))
<1>1. fields \in ProfileRows /\ form \in ProfileForms
  BY DEF ProfileTypes
<1>2. Refilled(r) \in ProfileRows /\ Text(r) \in ProfileRows
  BY <1>1 DEF Refilled, Text, ProfileRows
<1>3. form.takes \in {"nothing", "what is empty", "all"}
  <2>1. /\ MobileSignup.takes = "nothing" /\ MobileEdit.takes = "nothing"
        /\ WebSignup.takes = "what is empty" /\ Settings.takes = "all"
    BY DEF MobileSignup, MobileEdit, WebSignup, Settings
  <2> QED BY <1>1, <2>1 DEF ProfileForms
<1>4. form = Settings => form.takes = "all"
  BY DEF Settings
<1> QED BY <1>1, <1>2, <1>3, <1>4 DEF Filled

(* The loads after one of them changed. *)
LEMMA LoadSet ==
  ASSUME ProfileTypes, NEW l \in {"save", "other"}, NEW x \in {NotLoading, LoadAsked} \cup Answers,
         loads' = [loads EXCEPT ![l] = x]
  PROVE  /\ loads' \in [{"save", "other"} -> {NotLoading, LoadAsked} \cup Answers]
         /\ loads'[l] = x /\ \A k \in {"save", "other"} \ {l} : loads'[k] = loads[k]
BY DEF ProfileTypes

LEMMA SaveAnsweredKeeps == ASSUME ProfileInv, NEW e \in edits, SaveAnswered(e) PROVE ProfileInv'
<1>1. /\ e.by = "form" /\ e.phase = "answered" /\ edits' = edits \ {e}
      /\ stage' = "refreshing" /\ loads' = [loads EXCEPT !["save"] = LoadAsked]
      /\ IF IsMobile THEN profile' = e.seen /\ fields' = Filled(e.seen)
                          /\ touched' = (touched /\ form # Settings)
         ELSE UNCHANGED <<profile, fields, touched>>
      /\ UNCHANGED <<form, body, promise>> /\ UNCHANGED rowVars
  BY DEF SaveAnswered, Comes, fieldVars
<1>2. row' = row
  BY <1>1 DEF rowVars
<1>3. e.seen \in ProfileRows
  BY <1>1 DEF ProfileInv, ProfileTypes, IsEdit
<1>4. fields' \in ProfileRows
  BY <1>1, <1>3, FilledIs DEF ProfileInv, ProfileTypes
<1>5. /\ loads' \in [{"save", "other"} -> {NotLoading, LoadAsked} \cup Answers]
      /\ loads'["save"] = LoadAsked /\ loads'["other"] = loads["other"]
  BY <1>1, LoadSet DEF ProfileInv
<1>6. ProfileTypes'
  BY <1>1, <1>4, <1>5 DEF ProfileInv, ProfileTypes, IsEdit, rowVars
<1>7. NamesInv'
  BY <1>1, NamesRest
<1>8. OneSave'
  BY <1>1 DEF ProfileInv, OneSave
<1>9. PromiseKept'
  <2> SUFFICES ASSUME promise # Blank PROVE PromiseKept'
    BY <1>1 DEF PromiseKept
  <2>1. loads["other"] = NotLoading /\ SaveOnWay(e)
    BY DEF ProfileInv, PromiseKept, SaveOnWay, Reread, Done
  <2>2. edits' = {} /\ RowKept(row) /\ e.seen = row
    BY <1>1, <2>1 DEF SaveOnWay
  <2>3. Reread'
    BY <1>1, <1>2, <1>5, <2>2 DEF Reread, RowKept, IsMobile
  <2> QED BY <1>1, <1>5, <2>1, <2>3 DEF PromiseKept
<1> QED BY <1>6, <1>7, <1>8, <1>9 DEF ProfileInv

LEMMA SaveRefusedKeeps == ASSUME ProfileInv, NEW e \in edits, SaveRefused(e) PROVE ProfileInv'
<1>1. /\ e.by = "form" /\ edits' = edits \ {e} /\ stage' = "filling" /\ promise' = Blank
      /\ UNCHANGED <<form, profile, fields, touched, body, loads>> /\ UNCHANGED rowVars
  BY DEF SaveRefused, fieldVars
<1>2. Blank \in ProfileRows
  BY DEF ProfileRows, Blank
<1>3. ProfileTypes'
  BY <1>1, <1>2 DEF ProfileInv, ProfileTypes, IsEdit, rowVars
<1>4. NamesInv'
  BY <1>1, NamesRest
<1>5. OneSave'
  BY <1>1 DEF ProfileInv, OneSave
<1> QED BY <1>1, <1>3, <1>4, <1>5 DEF ProfileInv, PromiseKept

LEMMA UnattendedIs ==
  ASSUME NEW e, IsEdit(e)
  PROVE  /\ IsEdit(Unattended(e)) /\ Unattended(e).by = "elsewhere"
         /\ Unattended(e).body = e.body /\ Unattended(e).renames = e.renames
         /\ (Unattended(e).phase = "checked") <=> (e.phase = "checked")
<1>1. PICK p : p = IF e.phase = "answered" THEN "written" ELSE e.phase
  OBVIOUS
<1>2. PICK q : q = [e EXCEPT !.by = "elsewhere"]
  OBVIOUS
<1>3. q = [by |-> "elsewhere", body |-> e.body, phase |-> e.phase, renames |-> e.renames,
           seen |-> e.seen]
  BY <1>2 DEF IsEdit
<1>4. PICK d : d = [q EXCEPT !.phase = p, !.seen = NoProfile]
  OBVIOUS
<1>5. IsEdit(q)
  BY <1>3 DEF IsEdit
<1>6. d = [by |-> "elsewhere", body |-> e.body, phase |-> p, renames |-> e.renames,
           seen |-> NoProfile]
  <2>1. [q EXCEPT !.phase = p, !.seen = NoProfile] =
          [by |-> q.by, body |-> q.body, phase |-> p, renames |-> q.renames, seen |-> NoProfile]
    BY <1>5, AnswerSet
  <2> QED BY <1>3, <1>4, <2>1
<1>7. Unattended(e) = d
  BY <1>1, <1>2, <1>3, <1>4 DEF Unattended
<1>8. p \in {"sent", "checked", "refused", "written"} /\ ((p = "checked") <=> (e.phase = "checked"))
  BY <1>1 DEF IsEdit
<1> QED BY <1>6, <1>7, <1>8 DEF IsEdit

(* Names stand when edits go on unattended.                                  *)
LEMMA NamesUnattended ==
  ASSUME ProfileInv, UNCHANGED rowVars,
         \A d \in edits' : d.phase = "checked" =>
            \/ d \in edits /\ \A e \in edits' : e.phase = "checked" => e \in edits
            \/ \E e \in edits : e.phase = "checked" /\ d = Unattended(e)
  PROVE  NamesInv'
<1>1. UNCHANGED <<row, recent, others, reservation, reserving, renames, together>>
  BY DEF rowVars
<1>2. \A e \in edits : IsEdit(e)
  BY DEF ProfileInv, ProfileTypes
<1>3. ASSUME ~ together PROVE NameStands'
  <2>1. NameStands
    BY <1>3 DEF ProfileInv, NamesInv
  <2>2. CASE \A d \in edits' : d.phase = "checked" => d \in edits
    BY <1>1, <2>1, <2>2 DEF NameStands
  <2>3. CASE \A d \in edits' : d.phase = "checked" =>
               \E e \in edits : e.phase = "checked" /\ d = Unattended(e)
    <3>1. \A e \in edits : /\ Unattended(e).body = e.body /\ Unattended(e).renames = e.renames
      BY <1>2, UnattendedIs
    <3> QED BY <1>1, <2>1, <2>3, <3>1 DEF NameStands
  <2> QED BY <2>2, <2>3
<1> QED BY <1>1, <1>3 DEF ProfileInv, NamesInv

LEMMA SaveLostKeeps == ASSUME ProfileInv, NEW e \in edits, SaveLost(e) PROVE ProfileInv'
<1>1. PICK d : d = Unattended(e)
  OBVIOUS
<1>2. /\ e.by = "form" /\ edits' = (edits \ {e}) \cup {d} /\ stage' = "filling" /\ promise' = Blank
      /\ UNCHANGED <<form, profile, fields, touched, body, loads>> /\ UNCHANGED rowVars
  BY <1>1 DEF SaveLost, Becomes, fieldVars
<1>3. \A f \in edits : IsEdit(f)
  BY DEF ProfileInv, ProfileTypes
<1>4. IsEdit(d) /\ d.by = "elsewhere" /\ ((d.phase = "checked") <=> (e.phase = "checked"))
      /\ d.body = e.body /\ d.renames = e.renames
  BY <1>1, <1>3, UnattendedIs
<1>5. Blank \in ProfileRows
  BY DEF ProfileRows, Blank
<1>6. ProfileTypes'
  BY <1>2, <1>4, <1>5 DEF ProfileInv, ProfileTypes, IsEdit, rowVars
<1>7. NamesInv'
  <2>1. UNCHANGED <<row, recent, others, reservation, reserving, renames, together>>
    BY <1>2 DEF rowVars
  <2>2. ASSUME ~ together PROVE NameStands'
    <3>1. NameStands
      BY <2>2 DEF ProfileInv, NamesInv
    <3> QED BY <1>2, <1>4, <2>1, <3>1 DEF NameStands
  <2> QED BY <2>1, <2>2 DEF ProfileInv, NamesInv
<1>8. OneSave'
  BY <1>2, <1>4 DEF ProfileInv, OneSave
<1> QED BY <1>2, <1>6, <1>7, <1>8 DEF ProfileInv, PromiseKept

LEMMA CancelSignupKeeps == ASSUME ProfileInv, CancelSignup PROVE ProfileInv'
<1>1. /\ fields' = Blank /\ edits' = {Unattended(e) : e \in edits}
      /\ body' = Blank /\ promise' = Blank /\ loads' = [l \in DOMAIN loads |-> NotLoading]
      /\ form' = form /\ UNCHANGED rowVars
  BY DEF CancelSignup, Leaves
<1>2. \A f \in edits : IsEdit(f)
  BY DEF ProfileInv, ProfileTypes
<1>3. \A d \in edits' : \E e \in edits : d = Unattended(e)
  BY <1>1
<1>4. \A d \in edits' : IsEdit(d) /\ d.by = "elsewhere"
  BY <1>2, <1>3, UnattendedIs
<1>5. Blank \in ProfileRows
  BY DEF ProfileRows, Blank
<1>6. /\ loads' \in [{"save", "other"} -> {NotLoading, LoadAsked} \cup Answers]
      /\ loads'["save"] = NotLoading
  BY <1>1 DEF ProfileInv, ProfileTypes
<1>7. ProfileTypes'
  BY <1>1, <1>4, <1>5, <1>6 DEF ProfileInv, ProfileTypes, IsEdit, rowVars
<1>8. NamesInv'
  <2>1. UNCHANGED <<row, recent, others, reservation, reserving, renames, together>>
    BY <1>1 DEF rowVars
  <2>2. \A e \in edits : /\ Unattended(e).body = e.body /\ Unattended(e).renames = e.renames
                         /\ (Unattended(e).phase = "checked") <=> (e.phase = "checked")
    BY <1>2, UnattendedIs
  <2>3. ASSUME ~ together PROVE NameStands'
    <3>1. NameStands
      BY <2>3 DEF ProfileInv, NamesInv
    <3> QED BY <1>3, <2>1, <2>2, <3>1 DEF NameStands
  <2> QED BY <2>1, <2>3 DEF ProfileInv, NamesInv
<1>9. OneSave'
  BY <1>4, <1>6 DEF OneSave
<1> QED BY <1>1, <1>7, <1>8, <1>9 DEF ProfileInv, PromiseKept

LEMMA LoadOtherKeeps == ASSUME ProfileInv, LoadOther PROVE ProfileInv'
<1>1. /\ loads' = [loads EXCEPT !["other"] = LoadAsked] /\ promise' = Blank
      /\ UNCHANGED <<form, edits, profile, fields, touched, stage, body>> /\ UNCHANGED rowVars
  BY DEF LoadOther, fieldVars
<1>2. /\ loads' \in [{"save", "other"} -> {NotLoading, LoadAsked} \cup Answers]
      /\ loads'["save"] = loads["save"]
  BY <1>1, LoadSet DEF ProfileInv
<1>3. Blank \in ProfileRows
  BY DEF ProfileRows, Blank
<1>4. ProfileTypes'
  BY <1>1, <1>2, <1>3 DEF ProfileInv, ProfileTypes, IsEdit, rowVars
<1>5. NamesInv'
  BY <1>1, NamesRest
<1>6. OneSave'
  BY <1>1, <1>2 DEF ProfileInv, OneSave
<1> QED BY <1>1, <1>4, <1>5, <1>6 DEF ProfileInv, PromiseKept

LEMMA AnswerLoadKeeps == ASSUME ProfileInv, NEW l \in {"save", "other"}, AnswerLoad(l) PROVE ProfileInv'
<1>1. PICK x : x = [phase |-> "answered", seen |-> row]
  OBVIOUS
<1>2. /\ loads[l] = LoadAsked /\ loads' = [loads EXCEPT ![l] = x]
      /\ UNCHANGED <<form, edits, profile, fields, touched, stage, body, promise>>
      /\ UNCHANGED rowVars
  BY <1>1 DEF AnswerLoad, fieldVars
<1>3. row' = row /\ row \in ProfileRows
  BY <1>2 DEF rowVars, ProfileInv, ProfileTypes
<1>4. x \in Answers
  BY <1>1, <1>3 DEF Answers
<1>5. /\ loads' \in [{"save", "other"} -> {NotLoading, LoadAsked} \cup Answers]
      /\ loads'[l] = x /\ \A k \in {"save", "other"} \ {l} : loads'[k] = loads[k]
  BY <1>2, <1>4, LoadSet DEF ProfileInv
<1>6. loads[l] # NotLoading
  BY <1>2 DEF LoadAsked, NotLoading
<1>7. ProfileTypes'
  BY <1>2, <1>5 DEF ProfileInv, ProfileTypes, IsEdit, rowVars
<1>8. NamesInv'
  BY <1>2, NamesRest
<1>9. OneSave'
  BY <1>2, <1>5, <1>6 DEF ProfileInv, OneSave
<1>10. PromiseKept'
  <2> SUFFICES ASSUME promise # Blank PROVE PromiseKept'
    BY <1>2 DEF PromiseKept
  <2>1. l = "save" /\ loads["other"] = NotLoading
    BY <1>6 DEF ProfileInv, PromiseKept
  <2>2. stage = "refreshing" /\ Reread
    BY <1>6, <2>1 DEF ProfileInv, OneSave, PromiseKept, Done
  <2>3. Reread'
    BY <1>1, <1>2, <1>3, <1>5, <2>1, <2>2 DEF Reread, RowKept, IsMobile
  <2> QED BY <1>2, <1>5, <2>1, <2>2, <2>3 DEF PromiseKept
<1> QED BY <1>7, <1>8, <1>9, <1>10 DEF ProfileInv

LEMMA LoadEndsKeeps == ASSUME ProfileInv, NEW l \in {"save", "other"}, LoadEnds(l) PROVE ProfileInv'
<1>1. /\ loads[l].phase = "answered" /\ loads' = [loads EXCEPT ![l] = NotLoading]
      /\ UNCHANGED <<form, edits, body, promise>> /\ UNCHANGED rowVars
  BY DEF LoadEnds
<1>2. row' = row
  BY <1>1 DEF rowVars
<1>3. loads[l] \in Answers /\ loads[l] # NotLoading /\ loads[l].seen \in ProfileRows
  BY <1>1 DEF ProfileInv, ProfileTypes, NotLoading, LoadAsked, Answers
<1>4. /\ loads' \in [{"save", "other"} -> {NotLoading, LoadAsked} \cup Answers]
      /\ loads'[l] = NotLoading /\ \A k \in {"save", "other"} \ {l} : loads'[k] = loads[k]
  BY <1>1, LoadSet DEF ProfileInv
<1>5. \/ /\ l = "save" /\ form # Settings /\ stage' = "left" /\ fields' = Blank
         /\ profile' = loads[l].seen
      \/ /\ ~ (l = "save" /\ form # Settings)
         /\ profile' = loads[l].seen /\ fields' = Filled(loads[l].seen)
         /\ stage' = IF l = "save" THEN "filling" ELSE stage
  BY DEF LoadEnds, Leaves, Comes
<1>6. fields' \in ProfileRows
  <2>1. Blank \in ProfileRows
    BY DEF ProfileRows, Blank
  <2> QED BY <1>3, <1>5, <2>1, FilledIs DEF ProfileInv
<1>7. ProfileTypes'
  BY <1>1, <1>4, <1>6 DEF ProfileInv, ProfileTypes, IsEdit, rowVars
<1>8. NamesInv'
  BY <1>1, NamesRest
<1>9. OneSave'
  BY <1>1, <1>3, <1>4, <1>5 DEF ProfileInv, OneSave
<1>10. PromiseKept'
  <2> SUFFICES ASSUME promise # Blank PROVE PromiseKept'
    BY <1>1 DEF PromiseKept
  <2>1. l = "save" /\ loads["other"] = NotLoading
    BY <1>3 DEF ProfileInv, PromiseKept
  <2>2. stage = "refreshing" /\ Reread
    BY <1>3, <2>1 DEF ProfileInv, OneSave, PromiseKept, Done
  <2>3. loads["save"].seen = row
    BY <1>1, <2>1, <2>2 DEF Reread, LoadAsked
  <2>4. profile' = row /\ stage' \in {"filling", "left"}
    BY <1>5, <2>1, <2>3
  <2>5. form = Settings => fields' = Text(row)
    BY <1>3, <1>5, <2>1, <2>3, FilledIs DEF ProfileInv
  <2>6. edits' = {} /\ RowKept(row)'
    BY <1>1, <1>2, <2>2 DEF Reread, RowKept
  <2>7. Done'
    BY <1>1, <1>2, <1>4, <2>1, <2>4, <2>5, <2>6 DEF Done, Text
  <2> QED BY <1>1, <1>4, <2>1, <2>4, <2>7 DEF PromiseKept
<1> QED BY <1>7, <1>8, <1>9, <1>10 DEF ProfileInv

LEMMA LoadFailsKeeps == ASSUME ProfileInv, NEW l \in {"save", "other"}, LoadFails(l) PROVE ProfileInv'
<1>1. /\ loads[l] # NotLoading /\ loads' = [loads EXCEPT ![l] = NotLoading]
      /\ profile' = IF IsMobile THEN profile ELSE NoProfile
      /\ UNCHANGED <<form, edits, body, promise>> /\ UNCHANGED rowVars
  BY DEF LoadFails
<1>2. row' = row
  BY <1>1 DEF rowVars
<1>3. \/ stage' = "left" /\ fields' = Blank
      \/ l # "save" /\ stage' = stage /\ fields' = fields
  BY DEF LoadFails, Leaves
<1>4. /\ loads' \in [{"save", "other"} -> {NotLoading, LoadAsked} \cup Answers]
      /\ loads'[l] = NotLoading /\ \A k \in {"save", "other"} \ {l} : loads'[k] = loads[k]
  BY <1>1, LoadSet DEF ProfileInv
<1>5. Blank \in ProfileRows
  BY DEF ProfileRows, Blank
<1>6. ProfileTypes'
  BY <1>1, <1>3, <1>4, <1>5 DEF ProfileInv, ProfileTypes, IsEdit, rowVars
<1>7. NamesInv'
  BY <1>1, NamesRest
<1>8. OneSave'
  BY <1>1, <1>3, <1>4 DEF ProfileInv, OneSave
<1>9. PromiseKept'
  <2> SUFFICES ASSUME promise # Blank PROVE PromiseKept'
    BY <1>1 DEF PromiseKept
  <2>1. l = "save" /\ loads["other"] = NotLoading
    BY <1>1 DEF ProfileInv, PromiseKept
  <2>2. stage = "refreshing" /\ Reread
    BY <1>1, <2>1 DEF ProfileInv, OneSave, PromiseKept, Done
  <2>3. stage' = "left" /\ profile' \in {row, NoProfile}
    BY <1>1, <1>3, <2>1, <2>2 DEF Reread
  <2>4. Done'
    BY <1>1, <1>2, <1>4, <2>1, <2>2, <2>3 DEF Done, Reread, RowKept
  <2> QED BY <1>4, <2>1, <2>3, <2>4 DEF PromiseKept
<1> QED BY <1>6, <1>7, <1>8, <1>9 DEF ProfileInv

LEMMA ProfileStep == ProfileInv /\ [ProfileNext]_profileVars => ProfileInv'
<1> SUFFICES ASSUME ProfileInv, [ProfileNext]_profileVars PROVE ProfileInv'
  OBVIOUS
<1>1. CASE UNCHANGED profileVars
  <2>1. /\ UNCHANGED <<form, edits, profile, fields, touched, stage, body, loads, promise>>
        /\ UNCHANGED rowVars
    BY <1>1 DEF profileVars, fieldVars, saveVars
  <2>2. row' = row
    BY <2>1 DEF rowVars
  <2>3. ProfileTypes'
    BY <2>1 DEF ProfileInv, ProfileTypes, IsEdit, rowVars
  <2>4. NamesInv'
    BY <2>1, NamesRest
  <2> QED BY <2>1, <2>2, <2>3, <2>4, ScreenRests DEF ProfileInv
<1>2. ASSUME NEW e \in edits,
             \/ CheckEdit(e) \/ WriteEdit(e) \/ ReadBack(e) \/ EndElsewhere(e)
             \/ SaveAnswered(e) \/ SaveRefused(e) \/ SaveLost(e)
      PROVE  ProfileInv'
  BY <1>2, CheckEditKeeps, WriteEditKeeps, ReadBackKeeps, EndElsewhereKeeps, SaveAnsweredKeeps,
     SaveRefusedKeeps, SaveLostKeeps
<1>3. CASE \/ WeekPasses
           \/ \E n \in Names : OtherClaims(n) \/ CheckReservation(n) \/ DeleteReservation(n)
           \/ \E whose \in Reservations \ {"none"} : Reserve(whose)
  BY <1>3, OutsideKeeps
<1>4. ASSUME NEW n \in Names, EditElsewhere([name |-> n, bio |-> Empty]) PROVE ProfileInv'
  BY <1>4, EditElsewhereKeeps
<1>5. CASE \/ \E n \in Names \cup {NoName} : TypeField([fields EXCEPT !.name = n])
           \/ \E b \in {Empty, "x"} : TypeField([fields EXCEPT !.bio = b])
  <2>1. /\ \A n \in Names \cup {NoName} : [fields EXCEPT !.name = n] \in ProfileRows
        /\ \A b \in {Empty, "x"} : [fields EXCEPT !.bio = b] \in ProfileRows
    BY DEF ProfileInv, ProfileTypes, ProfileRows
  <2> QED BY <1>5, <2>1, TypeFieldKeeps
<1>6. ASSUME NEW l \in DOMAIN loads, AnswerLoad(l) \/ LoadEnds(l) \/ LoadFails(l)
      PROVE  ProfileInv'
  <2>1. l \in {"save", "other"}
    BY DEF ProfileInv, ProfileTypes
  <2> QED BY <1>6, <2>1, AnswerLoadKeeps, LoadEndsKeeps, LoadFailsKeeps
<1>7. CASE Submitted \/ Prepared \/ PrepareFails \/ CancelSignup \/ LoadOther
  BY <1>7, SubmittedKeeps, PreparedKeeps, PrepareFailsKeeps, CancelSignupKeeps, LoadOtherKeeps
<1> QED BY <1>1, <1>2, <1>3, <1>4, <1>5, <1>6, <1>7 DEF ProfileNext

LEMMA ProfileHolds == ProfileInv => ProfileSound
BY DEF ProfileInv, ProfileSound, NamesInv, NameStands, PromiseKept, Done, RowKept

(* No other user has the name; at most one change of it a week, and never to *)
(* a name reserved for another, however edits of two devices, claims and     *)
(* reservations cross, unless one was checked while another was checked and  *)
(* not written (store.UpdateMe reads, then writes); and a save that no other *)
(* edit or load met is in the row and on the screen when the form is done    *)
(* (onboarding.tsx submit; web onboarding and settings effects on me).       *)
THEOREM NamesAndSavesHold == Spec => []ProfileSound
<1>1. Init => ProfileInv
  BY ProfileInitial DEF Init
<1>2. ProfileInv /\ [Next]_screenVars => ProfileInv'
  BY ScreenMoves, ProfileStep
<1> QED BY <1>1, <1>2, ProfileHolds, PTL DEF Spec

-----------------------------------------------------------------------------
(* A market on the screen *)

PricesAsked == AskPrices \cup {NoAsk}
MarketRows == [ask : PricesAsked, status : {"OPEN", "SETTLING", "SETTLED"}]
LiveFrames == [type : {"delta"}, ask : PricesAsked] \cup [type : {"update"}, status : {"SETTLED"}]
LiveViews == {MobilePage, MobileCard, MobileBook, WebPage, WebBook}
UnderRefresh == [at : {"read", "written"}, ask : PricesAsked]
LoadsRead == [phase : {"read"}, seen : MarketRows, late : BOOLEAN]

LiveTypes ==
  /\ view \in LiveViews
  /\ chain \in [ask : PricesAsked, status : {"open", "requested", "settled"}]
  /\ marketRow \in MarketRows
  /\ refreshing \in [Indexers -> {Calm} \cup UnderRefresh]
  /\ frames \in Seq(LiveFrames)
  /\ hears \in BOOLEAN /\ unseen \in BOOLEAN /\ interleaved \in BOOLEAN /\ heard \in BOOLEAN
  /\ data \in {Unread} \cup MarketRows
  /\ overlay \in [ask : PricesAsked \cup {Absent}, status : {"absent", "SETTLED"}]
  /\ load \in {NotAsked, [phase |-> "asked"]} \cup LoadsRead
  /\ view = MobileCard => data # Unread /\ load = NotAsked
  /\ view # MobilePage => overlay = NothingHeard
  /\ opened \/ settling # "no" => view = MobileCard

AllCalm == \A i \in Indexers : refreshing[i] = Calm
NoneWritten == \A i \in Indexers : refreshing[i].at # "written"

(* The last price on its way to the view is a. *)
LastDeltaIs(fs, a) ==
  \A k \in DOMAIN fs :
    fs[k].type = "delta" /\ (\A j \in DOMAIN fs : j > k => fs[j].type # "delta") => fs[k].ask = a

(* What the view shows, or will when it has heard all. *)
ShowsAsk(a) ==
  IF overlay.ask # Absent THEN overlay.ask = a ELSE data = Unread \/ data.ask = a
WillShow(a) == IF Deltas(frames) THEN LastDeltaIs(frames, a) ELSE a = NoAsk \/ ShowsAsk(a)

PriceAgreed ==
  view \in {MobilePage, MobileCard} /\ ~unseen /\ ~interleaved /\ AllCalm =>
    WillShow(marketRow.ask)

(* A page that heard no price yet and missed none loads the row's. *)
LoadFresh ==
  /\ view = MobilePage /\ load.phase = "read" /\ ~load.late
  /\ overlay.ask = Absent /\ ~Deltas(frames) /\ NoneWritten
  => load.seen.ask = marketRow.ask

(* The row's price is the chain's, or an indexer is about to write it. *)
RowRight ==
  ~interleaved =>
    /\ \A i, j \in Indexers : i = j \/ refreshing[i] = Calm \/ refreshing[j] = Calm
    /\ \A i \in Indexers : refreshing[i] # Calm =>
         /\ "book" \notin undone => refreshing[i].ask = chain.ask
         /\ refreshing[i].at = "written" => marketRow.ask = refreshing[i].ask
    /\ AllCalm /\ "book" \notin undone => marketRow.ask = chain.ask

Updates(fs) == \E k \in DOMAIN fs : fs[k].type = "update"

(* The expiry, unless a settlement was requested, is not undone. *)
RowExpired ==
  chain.status = "open" =>
    /\ undone \cap {"requested", "settled"} = {}
    /\ heard \/ Updates(frames) => marketRow.status = "SETTLED"

ExpiryShown ==
  heard =>
    /\ view = MobilePage => overlay.status = "SETTLED"
    /\ view = MobileCard => data.status = "SETTLED" \/ settling = "done"
    /\ view = WebPage /\ chain.status = "open" =>
         \/ load.phase = "asked"
         \/ load.phase = "read" /\ load.seen.status = "SETTLED"
         \/ load = NotAsked /\ (broken \/ data.status = "SETTLED")

BookShown ==
  view \in {MobileBook, WebBook} /\ fetched # Unread => data # Unread /\ data.ask = fetched.ask

LiveInv ==
  /\ LiveTypes
  /\ PriceAgreed
  /\ LoadFresh
  /\ RowRight
  /\ RowExpired
  /\ ExpiryShown
  /\ BookShown

(* Frames that come, are heard or are lost. *)
LEMMA FrameComes ==
  ASSUME NEW fs \in Seq(LiveFrames), NEW f \in LiveFrames
  PROVE  /\ Append(fs, f) \in Seq(LiveFrames)
         /\ Deltas(Append(fs, f)) <=> (Deltas(fs) \/ f.type = "delta")
         /\ Updates(Append(fs, f)) <=> (Updates(fs) \/ f.type = "update")
         /\ f.type = "delta" => LastDeltaIs(Append(fs, f), f.ask)
         /\ f.type # "delta" => \A a : LastDeltaIs(fs, a) => LastDeltaIs(Append(fs, f), a)
<1> DEFINE gs == Append(fs, f)
<1>1. /\ gs \in Seq(LiveFrames) /\ Len(gs) = Len(fs) + 1 /\ gs[Len(fs) + 1] = f
      /\ \A k \in 1 .. Len(fs) : gs[k] = fs[k]
      /\ DOMAIN gs = 1 .. Len(fs) + 1 /\ DOMAIN fs = 1 .. Len(fs) /\ Len(fs) \in Nat
  OBVIOUS
<1> HIDE DEF gs
<1>2. Deltas(gs) <=> (Deltas(fs) \/ f.type = "delta")
  BY <1>1 DEF Deltas
<1>3. Updates(gs) <=> (Updates(fs) \/ f.type = "update")
  BY <1>1 DEF Updates
<1>4. f.type = "delta" => LastDeltaIs(gs, f.ask)
  BY <1>1 DEF LastDeltaIs
<1>5. ASSUME f.type # "delta", NEW a, LastDeltaIs(fs, a) PROVE LastDeltaIs(gs, a)
  BY <1>1, <1>5 DEF LastDeltaIs
<1> QED BY <1>1, <1>2, <1>3, <1>4, <1>5 DEF gs

LEMMA FrameLeaves ==
  ASSUME NEW fs \in Seq(LiveFrames), fs # <<>>
  PROVE  /\ Tail(fs) \in Seq(LiveFrames) /\ Head(fs) \in LiveFrames
         /\ Deltas(fs) <=> (Deltas(Tail(fs)) \/ Head(fs).type = "delta")
         /\ Updates(fs) <=> (Updates(Tail(fs)) \/ Head(fs).type = "update")
         /\ \A a : LastDeltaIs(fs, a) => LastDeltaIs(Tail(fs), a)
         /\ \A a : ~Deltas(Tail(fs)) /\ Head(fs).type = "delta" /\ LastDeltaIs(fs, a) =>
              Head(fs).ask = a
<1> DEFINE gs == Tail(fs)
<1>1. /\ gs \in Seq(LiveFrames) /\ Head(fs) = fs[1] /\ fs[1] \in LiveFrames
      /\ \A k \in 1 .. Len(fs) - 1 : gs[k] = fs[k + 1]
      /\ DOMAIN gs = 1 .. Len(fs) - 1 /\ DOMAIN fs = 1 .. Len(fs) /\ Len(fs) \in Nat
      /\ Len(fs) > 0
  OBVIOUS
<1>2. /\ \A k \in DOMAIN fs : k = 1 \/ (k - 1 \in DOMAIN gs /\ fs[k] = gs[k - 1])
      /\ \A k \in DOMAIN gs : k + 1 \in DOMAIN fs /\ gs[k] = fs[k + 1]
      /\ 1 \in DOMAIN fs
  BY <1>1
<1> HIDE DEF gs
<1>3. Deltas(fs) <=> (Deltas(gs) \/ fs[1].type = "delta")
  BY <1>1, <1>2 DEF Deltas
<1>4. Updates(fs) <=> (Updates(gs) \/ fs[1].type = "update")
  BY <1>1, <1>2 DEF Updates
<1>5. ASSUME NEW a, LastDeltaIs(fs, a) PROVE LastDeltaIs(gs, a)
  <2> SUFFICES ASSUME NEW k \in DOMAIN gs, gs[k].type = "delta",
                      \A j \in DOMAIN gs : j > k => gs[j].type # "delta"
               PROVE  gs[k].ask = a
    BY DEF LastDeltaIs
  <2>1. k + 1 \in DOMAIN fs /\ fs[k + 1] = gs[k]
    BY <1>1
  <2>2. \A j \in DOMAIN fs : j > k + 1 => fs[j].type # "delta"
    BY <1>1, <1>2
  <2> QED BY <1>5, <2>1, <2>2 DEF LastDeltaIs
<1>6. ASSUME NEW a, ~Deltas(gs), fs[1].type = "delta", LastDeltaIs(fs, a) PROVE fs[1].ask = a
  <2>1. \A k \in DOMAIN fs : k # 1 => fs[k].type # "delta"
    BY <1>2, <1>6 DEF Deltas
  <2>2. \A k \in DOMAIN fs : k > 1 => k # 1
    BY <1>1
  <2> QED BY <1>2, <1>6, <2>1, <2>2 DEF LastDeltaIs
<1> QED BY <1>1, <1>3, <1>4, <1>5, <1>6 DEF gs

LEMMA FrameDropped ==
  ASSUME NEW fs \in Seq(LiveFrames), Len(fs) > 1
  PROVE  /\ SubSeq(fs, 1, Len(fs) - 1) \in Seq(LiveFrames)
         /\ Deltas(fs) <=> (Deltas(SubSeq(fs, 1, Len(fs) - 1)) \/ Deltas(<<fs[Len(fs)]>>))
         /\ Updates(SubSeq(fs, 1, Len(fs) - 1)) => Updates(fs)
         /\ \A a : ~Deltas(<<fs[Len(fs)]>>) /\ LastDeltaIs(fs, a) =>
              LastDeltaIs(SubSeq(fs, 1, Len(fs) - 1), a)
<1> DEFINE gs == SubSeq(fs, 1, Len(fs) - 1)
           last == fs[Len(fs)]
<1>1. /\ gs \in Seq(LiveFrames)
      /\ \A k \in 1 .. Len(fs) - 1 : gs[k] = fs[k]
      /\ DOMAIN gs = 1 .. Len(fs) - 1 /\ DOMAIN fs = 1 .. Len(fs) /\ Len(fs) \in Nat
  OBVIOUS
<1>2. Deltas(<<last>>) <=> (last.type = "delta")
  BY DEF Deltas
<1> HIDE DEF gs
<1>3. Deltas(fs) <=> (Deltas(gs) \/ last.type = "delta")
  BY <1>1 DEF Deltas
<1>4. Updates(gs) => Updates(fs)
  BY <1>1 DEF Updates
<1>5. ASSUME NEW a, last.type # "delta", LastDeltaIs(fs, a) PROVE LastDeltaIs(gs, a)
  BY <1>1, <1>5 DEF LastDeltaIs
<1> QED BY <1>1, <1>2, <1>3, <1>4, <1>5 DEF gs

LEMMA NoFrames ==
  /\ <<>> \in Seq(LiveFrames) /\ ~Deltas(<<>>) /\ ~Updates(<<>>)
BY DEF Deltas, Updates

(* Steps that leave a part alone. *)
LEMMA PriceRests ==
  ASSUME PriceAgreed, view' = view, marketRow'.ask = marketRow.ask, refreshing' = refreshing,
         interleaved' = interleaved, unseen => unseen',
         ~unseen' => (Deltas(frames') <=> Deltas(frames)),
         ~unseen' => \A a : LastDeltaIs(frames, a) => LastDeltaIs(frames', a),
         overlay'.ask = overlay.ask, data' = Unread <=> data = Unread, data'.ask = data.ask
  PROVE  PriceAgreed'
BY DEF PriceAgreed, WillShow, ShowsAsk, AllCalm

LEMMA FreshRests ==
  ASSUME LoadFresh, view' = view, marketRow'.ask = marketRow.ask, refreshing' = refreshing,
         overlay'.ask = overlay.ask,
         load' = load \/ load' = NotAsked \/ load' = [phase |-> "asked"] \/ load'.late,
         load' = load /\ load.phase = "read" => (Deltas(frames) => Deltas(frames') \/ load'.late)
  PROVE  LoadFresh'
BY DEF LoadFresh, NoneWritten, NotAsked

LEMMA BookRests ==
  BookShown /\ UNCHANGED <<view, data, fetched>> => BookShown'
BY DEF BookShown

LEMMA LateSet ==
  ASSUME NEW s, NEW l, NEW t
  PROVE  [[phase |-> "read", seen |-> s, late |-> l] EXCEPT !.late = t] =
         [phase |-> "read", seen |-> s, late |-> t]
OBVIOUS

LEMMA LiveLoadIs ==
  ASSUME LiveTypes, load.phase = "read"
  PROVE  /\ load \in LoadsRead /\ load # NotAsked
         /\ [load EXCEPT !.late = TRUE] = [phase |-> "read", seen |-> load.seen, late |-> TRUE]
         /\ [load EXCEPT !.late = TRUE] \in LoadsRead
<1>1. load \in LoadsRead
  BY DEF LiveTypes, NotAsked
<1>2. load = [phase |-> "read", seen |-> load.seen, late |-> load.late] /\ load.seen \in MarketRows
  BY <1>1 DEF LoadsRead
<1>3. [load EXCEPT !.late = TRUE] = [phase |-> "read", seen |-> load.seen, late |-> TRUE]
  <2>1. [load EXCEPT !.late = TRUE] =
        [[phase |-> "read", seen |-> load.seen, late |-> load.late] EXCEPT !.late = TRUE]
    BY <1>2
  <2> QED BY <2>1, LateSet
<1>4. load # NotAsked
  BY <1>2 DEF NotAsked
<1> QED BY <1>1, <1>2, <1>3, <1>4 DEF LoadsRead

SameLoad ==
  \/ load' = load
  \/ load.phase = "read" /\ load' = [phase |-> "read", seen |-> load.seen, late |-> TRUE]

LEMMA LoadStays ==
  ASSUME LiveTypes, SameLoad
  PROVE  /\ load' \in {NotAsked, [phase |-> "asked"]} \cup LoadsRead
         /\ load'.phase = load.phase /\ load'.seen = load.seen
         /\ (load = NotAsked) <=> (load' = NotAsked)
         /\ load' = load \/ load'.late
<1>1. CASE load' = load
  BY <1>1 DEF LiveTypes
<1>2. CASE load.phase = "read" /\ load' = [phase |-> "read", seen |-> load.seen, late |-> TRUE]
  BY <1>2, LiveLoadIs DEF LoadsRead, NotAsked
<1> QED BY <1>1, <1>2 DEF SameLoad

LEMMA ExpiryRests ==
  ASSUME LiveTypes, ExpiryShown, view' = view, heard' = heard, overlay'.status = overlay.status,
         data'.status = data.status, settling = "done" => settling' = "done", broken' = broken,
         chain'.status = "open" => chain.status = "open", SameLoad
  PROVE  ExpiryShown'
BY LoadStays DEF ExpiryShown

LEMMA Published ==
  ASSUME LiveTypes, NEW f \in LiveFrames, Publish(f)
  PROVE  /\ frames' \in Seq(LiveFrames) /\ unseen' \in BOOLEAN /\ SameLoad
         /\ unseen => unseen'
         /\ Updates(frames') => Updates(frames) \/ f.type = "update"
         /\ Deltas(frames) => Deltas(frames')
         /\ f.type # "delta" => /\ load' = load /\ unseen' = unseen
                                /\ Deltas(frames') <=> Deltas(frames)
                                /\ \A a : LastDeltaIs(frames, a) => LastDeltaIs(frames', a)
         /\ f.type = "delta" /\ hears => Deltas(frames') /\ LastDeltaIs(frames', f.ask)
         /\ f.type = "delta" /\ ~hears => unseen' /\ (load.phase = "read" => load'.late)
<1>1. frames \in Seq(LiveFrames) /\ hears \in BOOLEAN /\ unseen \in BOOLEAN
  BY DEF LiveTypes
<1>2. CASE hears
  <2>1. frames' = Append(frames, f) /\ unseen' = unseen /\ load' = load
    BY <1>1, <1>2 DEF Publish
  <2> QED BY <1>1, <1>2, <2>1, FrameComes DEF SameLoad
<1>3. CASE ~hears
  <2>1. /\ frames' = frames /\ unseen' = (unseen \/ f.type = "delta")
        /\ load' = IF f.type = "delta" /\ load.phase = "read"
                   THEN [load EXCEPT !.late = TRUE] ELSE load
    BY <1>3 DEF Publish
  <2>2. /\ f.type = "delta" /\ load.phase = "read" =>
             /\ load' = [phase |-> "read", seen |-> load.seen, late |-> TRUE] /\ load'.late
        /\ ~(f.type = "delta" /\ load.phase = "read") => load' = load
    BY <2>1, LiveLoadIs
  <2>3. SameLoad
    BY <2>2 DEF SameLoad
  <2> QED BY <1>1, <1>3, <2>1, <2>2, <2>3
<1> QED BY <1>1, <1>2, <1>3

LEMMA DeltaFrame ==
  ASSUME NEW a \in PricesAsked
  PROVE  /\ [type |-> "delta", ask |-> a] \in LiveFrames
         /\ [type |-> "delta", ask |-> a].type = "delta" /\ [type |-> "delta", ask |-> a].ask = a
BY DEF LiveFrames

LEMMA UpdateFrame ==
  /\ [type |-> "update", status |-> "SETTLED"] \in LiveFrames
  /\ [type |-> "update", status |-> "SETTLED"].type = "update"
BY DEF LiveFrames

LEMMA RefreshIs ==
  ASSUME LiveTypes, NEW i \in Indexers
  PROVE  /\ (refreshing[i] = Calm) <=> (refreshing[i].at \notin {"read", "written"})
         /\ refreshing[i] # Calm => refreshing[i] \in UnderRefresh
BY DEF LiveTypes, Calm, UnderRefresh

(* The chain moves. *)
LEMMA ChainKeeps ==
  ASSUME LiveInv,
         \/ \E a \in PricesAsked : Trade(a)
         \/ RequestSettlement \/ SettleOnChain
  PROVE  LiveInv'
<1>1. UNCHANGED <<view, marketRow, refreshing, frames, hears, opened, data, overlay, load, broken,
                  settling, heard, fetched, interleaved, unseen>>
  BY DEF Trade, RequestSettlement, SettleOnChain, OnChain, viewVars
<1>2. chain = [ask |-> chain.ask, status |-> chain.status]
  BY DEF LiveInv, LiveTypes
<1>3. /\ chain' \in [ask : PricesAsked, status : {"open", "requested", "settled"}]
      /\ chain'.status = "open" => chain.status = "open" /\ undone' \subseteq undone \cup {"book"}
      /\ "book" \notin undone' => "book" \notin undone /\ chain'.ask = chain.ask
  <2>1. ASSUME NEW a \in PricesAsked, Trade(a)
        PROVE  chain' = [ask |-> a, status |-> chain.status] /\ undone' = undone \cup {"book"}
    BY <1>2, <2>1 DEF Trade
  <2>2. ASSUME RequestSettlement
        PROVE  chain' = [ask |-> chain.ask, status |-> "requested"]
               /\ undone' = undone \cup {"requested"}
    BY <1>2, <2>2 DEF RequestSettlement
  <2>3. ASSUME SettleOnChain
        PROVE  chain' = [ask |-> chain.ask, status |-> "settled"]
               /\ undone' = undone \cup {"settled"}
    BY <1>2, <2>3 DEF SettleOnChain
  <2> QED BY <2>1, <2>2, <2>3 DEF LiveInv, LiveTypes
<1>4. LiveTypes'
  BY <1>1, <1>3 DEF LiveInv, LiveTypes
<1>5. PriceAgreed'
  BY <1>1, PriceRests DEF LiveInv
<1>6. LoadFresh'
  BY <1>1, FreshRests DEF LiveInv
<1>7. RowRight'
  BY <1>1, <1>3 DEF LiveInv, RowRight, AllCalm
<1>8. RowExpired'
  BY <1>1, <1>3 DEF LiveInv, RowExpired
<1>9. ExpiryShown'
  BY <1>1, <1>3, ExpiryRests DEF LiveInv, SameLoad
<1>10. BookShown'
  BY <1>1, BookRests DEF LiveInv
<1> QED BY <1>4, <1>5, <1>6, <1>7, <1>8, <1>9, <1>10 DEF LiveInv

(* The indexers and the sweep. *)
LEMMA RefreshSet ==
  ASSUME LiveTypes, NEW i \in Indexers, NEW r \in {Calm} \cup UnderRefresh,
         refreshing' = [refreshing EXCEPT ![i] = r]
  PROVE  /\ refreshing' \in [Indexers -> {Calm} \cup UnderRefresh]
         /\ refreshing'[i] = r /\ \A j \in Indexers : j # i => refreshing'[j] = refreshing[j]
BY DEF LiveTypes

LEMMA BeginRefreshKeeps == ASSUME LiveInv, NEW i \in Indexers, BeginRefresh(i) PROVE LiveInv'
<1>1. /\ "book" \in undone /\ undone' = undone \ {"book"}
      /\ UNCHANGED <<view, chain, marketRow, frames, hears, opened, data, overlay, load, broken,
                    settling, heard, fetched, unseen>>
      /\ refreshing[i] = Calm
      /\ refreshing' = [refreshing EXCEPT ![i] = [at |-> "read", ask |-> chain.ask]]
      /\ interleaved' = \E j \in Indexers \ {i} : refreshing[j] # Calm
  BY DEF BeginRefresh, Taken, ByIndexer
<1>2. /\ [at |-> "read", ask |-> chain.ask] \in UnderRefresh
      /\ [at |-> "read", ask |-> chain.ask] # Calm
      /\ [at |-> "read", ask |-> chain.ask].at # "written"
  BY DEF LiveInv, LiveTypes, UnderRefresh, Calm
<1>3. /\ refreshing' \in [Indexers -> {Calm} \cup UnderRefresh]
      /\ refreshing'[i] = [at |-> "read", ask |-> chain.ask]
      /\ \A j \in Indexers : j # i => refreshing'[j] = refreshing[j]
  BY <1>1, <1>2, RefreshSet DEF LiveInv
<1>4. LiveTypes'
  BY <1>1, <1>3 DEF LiveInv, LiveTypes
<1>5. PriceAgreed'
  BY <1>2, <1>3 DEF PriceAgreed, AllCalm
<1>6. LoadFresh'
  <2>1. NoneWritten' => NoneWritten
    BY <1>1, <1>3 DEF NoneWritten, Calm
  <2> QED BY <1>1, <2>1 DEF LiveInv, LoadFresh
<1>7. RowRight'
  BY <1>1, <1>2, <1>3 DEF RowRight, AllCalm
<1>8. RowExpired'
  BY <1>1 DEF LiveInv, RowExpired
<1>9. ExpiryShown'
  BY <1>1, ExpiryRests DEF LiveInv, SameLoad
<1>10. BookShown'
  BY <1>1, BookRests DEF LiveInv
<1> QED BY <1>4, <1>5, <1>6, <1>7, <1>8, <1>9, <1>10 DEF LiveInv

LEMMA WritePriceKeeps == ASSUME LiveInv, NEW i \in Indexers, WritePrice(i) PROVE LiveInv'
<1>1. /\ refreshing[i].at = "read" /\ refreshing' = [refreshing EXCEPT ![i].at = "written"]
      /\ marketRow' = [marketRow EXCEPT !.ask = refreshing[i].ask]
      /\ UNCHANGED <<view, chain, undone, frames, hears, opened, data, overlay, load, broken,
                    settling, heard, fetched, interleaved, unseen>>
  BY DEF WritePrice, ByIndexer
<1>2. refreshing[i] \in UnderRefresh
  BY <1>1, RefreshIs DEF LiveInv
<1>3. PICK a \in PricesAsked : refreshing[i] = [at |-> "read", ask |-> a]
  BY <1>1, <1>2 DEF UnderRefresh
<1>4. refreshing' = [refreshing EXCEPT ![i] = [at |-> "written", ask |-> a]]
  <2>1. [refreshing[i] EXCEPT !.at = "written"] = [at |-> "written", ask |-> a]
    BY <1>3
  <2>2. refreshing' = [refreshing EXCEPT ![i] = [refreshing[i] EXCEPT !.at = "written"]]
    BY <1>1
  <2> QED BY <2>1, <2>2
<1>5. /\ [at |-> "written", ask |-> a] \in UnderRefresh /\ [at |-> "written", ask |-> a] # Calm
  BY DEF UnderRefresh, Calm
<1>6. /\ refreshing' \in [Indexers -> {Calm} \cup UnderRefresh]
      /\ refreshing'[i] = [at |-> "written", ask |-> a]
      /\ \A j \in Indexers : j # i => refreshing'[j] = refreshing[j]
  BY <1>4, <1>5, RefreshSet DEF LiveInv
<1>7. marketRow' = [ask |-> a, status |-> marketRow.status] /\ marketRow' \in MarketRows
  BY <1>1, <1>3 DEF LiveInv, LiveTypes, MarketRows
<1>8. LiveTypes'
  BY <1>1, <1>6, <1>7 DEF LiveInv, LiveTypes
<1>9. PriceAgreed'
  BY <1>5, <1>6 DEF PriceAgreed, AllCalm
<1>10. LoadFresh'
  BY <1>6 DEF LoadFresh, NoneWritten
<1>11. RowRight'
  <2>1. refreshing[i] # Calm
    BY <1>3 DEF Calm
  <2>2. ~interleaved => /\ \A j \in Indexers : j # i => refreshing[j] = Calm
                        /\ "book" \notin undone => a = chain.ask
    BY <1>3, <2>1 DEF LiveInv, RowRight
  <2> QED BY <1>1, <1>5, <1>6, <1>7, <2>2 DEF RowRight, AllCalm
<1>12. RowExpired'
  BY <1>1, <1>7 DEF LiveInv, RowExpired
<1>13. ExpiryShown'
  BY <1>1, ExpiryRests DEF LiveInv, SameLoad
<1>14. BookShown'
  BY <1>1, BookRests DEF LiveInv
<1> QED BY <1>8, <1>9, <1>10, <1>11, <1>12, <1>13, <1>14 DEF LiveInv

LEMMA PublishPriceKeeps == ASSUME LiveInv, NEW i \in Indexers, PublishPrice(i) PROVE LiveInv'
<1>1. /\ refreshing[i].at = "written" /\ refreshing' = [refreshing EXCEPT ![i] = Calm]
      /\ Publish([type |-> "delta", ask |-> refreshing[i].ask])
      /\ UNCHANGED <<view, chain, undone, marketRow, hears, opened, data, overlay, broken,
                    settling, heard, fetched, interleaved>>
  BY DEF PublishPrice, ByIndexer
<1>2. refreshing[i] \in UnderRefresh /\ refreshing[i] # Calm
  BY <1>1, RefreshIs DEF LiveInv, Calm
<1>3. refreshing[i].ask \in PricesAsked
  BY <1>2 DEF UnderRefresh
<1>4. /\ frames' \in Seq(LiveFrames) /\ unseen' \in BOOLEAN /\ SameLoad
      /\ Updates(frames') => Updates(frames)
      /\ hears => Deltas(frames') /\ LastDeltaIs(frames', refreshing[i].ask)
      /\ ~hears => unseen' /\ (load.phase = "read" => load'.late)
  <2> DEFINE f == [type |-> "delta", ask |-> refreshing[i].ask]
  <2>1. f \in LiveFrames /\ f.type = "delta" /\ f.ask = refreshing[i].ask /\ f.type # "update"
    BY <1>3, DeltaFrame
  <2>2. Publish(f) /\ LiveTypes
    BY <1>1 DEF LiveInv
  <2> HIDE DEF f
  <2> QED BY <2>1, <2>2, Published
<1>5. /\ refreshing' \in [Indexers -> {Calm} \cup UnderRefresh]
      /\ refreshing'[i] = Calm
      /\ \A j \in Indexers : j # i => refreshing'[j] = refreshing[j]
  BY <1>1, RefreshSet DEF LiveInv
<1>6. LiveTypes'
  BY <1>1, <1>4, <1>5, LoadStays DEF LiveInv, LiveTypes
<1>7. ~interleaved => /\ marketRow.ask = refreshing[i].ask
                      /\ "book" \notin undone => refreshing[i].ask = chain.ask
                      /\ \A j \in Indexers : j # i => refreshing[j] = Calm
  BY <1>1, <1>2 DEF LiveInv, RowRight
<1>8. PriceAgreed'
  BY <1>1, <1>4, <1>7 DEF PriceAgreed, WillShow
<1>9. LoadFresh'
  BY <1>1, <1>4, LoadStays DEF LiveInv, LoadFresh
<1>10. RowRight'
  BY <1>1, <1>5, <1>7 DEF RowRight, AllCalm
<1>11. RowExpired'
  BY <1>1, <1>4 DEF LiveInv, RowExpired
<1>12. ExpiryShown'
  BY <1>1, <1>4, ExpiryRests DEF LiveInv
<1>13. BookShown'
  BY <1>1, BookRests DEF LiveInv
<1> QED BY <1>6, <1>8, <1>9, <1>10, <1>11, <1>12, <1>13 DEF LiveInv

LEMMA StatusSet ==
  ASSUME LiveTypes, NEW s \in {"SETTLING", "SETTLED"}, marketRow' = [marketRow EXCEPT !.status = s]
  PROVE  marketRow' \in MarketRows /\ marketRow'.ask = marketRow.ask /\ marketRow'.status = s
BY DEF LiveTypes, MarketRows

LEMMA SettlementKeeps ==
  ASSUME LiveInv, OnSettlementRequested \/ OnMarketSettled PROVE LiveInv'
<1>1. /\ undone' \subseteq undone /\ ("book" \in undone => "book" \in undone')
      /\ UNCHANGED <<view, chain, refreshing, frames, hears, opened, data, overlay, load, broken,
                    settling, heard, fetched, interleaved, unseen>>
  BY DEF OnSettlementRequested, OnMarketSettled, Taken, ByIndexer
<1>2. marketRow' \in MarketRows /\ marketRow'.ask = marketRow.ask
  BY StatusSet DEF OnSettlementRequested, OnMarketSettled, LiveInv
<1>3. chain.status # "open"
  BY DEF OnSettlementRequested, OnMarketSettled, Taken, LiveInv, RowExpired
<1>4. LiveTypes'
  BY <1>1, <1>2 DEF LiveInv, LiveTypes
<1>5. PriceAgreed'
  BY <1>1, <1>2, PriceRests DEF LiveInv
<1>6. LoadFresh'
  BY <1>1, <1>2, FreshRests DEF LiveInv
<1>7. RowRight'
  BY <1>1, <1>2 DEF LiveInv, RowRight, AllCalm
<1>8. RowExpired'
  BY <1>1, <1>3 DEF RowExpired
<1>9. ExpiryShown'
  BY <1>1, ExpiryRests DEF LiveInv, SameLoad
<1>10. BookShown'
  BY <1>1, BookRests DEF LiveInv
<1> QED BY <1>4, <1>5, <1>6, <1>7, <1>8, <1>9, <1>10 DEF LiveInv

LEMMA ExpireDueKeeps == ASSUME LiveInv, ExpireDue PROVE LiveInv'
<1>1. /\ marketRow' = [marketRow EXCEPT !.status = "SETTLED"]
      /\ Publish([type |-> "update", status |-> "SETTLED"])
      /\ UNCHANGED <<view, chain, undone, refreshing, hears, opened, data, overlay, broken,
                    settling, heard, fetched, interleaved>>
  BY DEF ExpireDue, ByIndexer
<1>2. marketRow' \in MarketRows /\ marketRow'.ask = marketRow.ask /\ marketRow'.status = "SETTLED"
  BY <1>1, StatusSet DEF LiveInv
<1>3. /\ frames' \in Seq(LiveFrames) /\ load' = load /\ unseen' = unseen
      /\ Deltas(frames') <=> Deltas(frames)
      /\ \A a : LastDeltaIs(frames, a) => LastDeltaIs(frames', a)
  <2> DEFINE f == [type |-> "update", status |-> "SETTLED"]
  <2>1. f \in LiveFrames /\ f.type # "delta"
    BY UpdateFrame
  <2>2. Publish(f) /\ LiveTypes
    BY <1>1 DEF LiveInv
  <2> HIDE DEF f
  <2> QED BY <2>1, <2>2, Published
<1>4. LiveTypes'
  BY <1>1, <1>2, <1>3 DEF LiveInv, LiveTypes
<1>5. PriceAgreed'
  BY <1>1, <1>2, <1>3, PriceRests DEF LiveInv
<1>6. LoadFresh'
  BY <1>1, <1>2, <1>3, FreshRests DEF LiveInv
<1>7. RowRight'
  BY <1>1, <1>2 DEF LiveInv, RowRight, AllCalm
<1>8. RowExpired'
  BY <1>1, <1>2 DEF LiveInv, RowExpired
<1>9. ExpiryShown'
  BY <1>1, <1>3, ExpiryRests DEF LiveInv, SameLoad
<1>10. BookShown'
  BY <1>1, BookRests DEF LiveInv
<1> QED BY <1>4, <1>5, <1>6, <1>7, <1>8, <1>9, <1>10 DEF LiveInv

(* The connection. *)
LEMMA LostIs ==
  ASSUME LiveTypes, NEW fs, Lost(fs)
  PROVE  /\ SameLoad /\ unseen' \in BOOLEAN /\ (unseen => unseen')
         /\ Deltas(fs) => unseen' /\ (load.phase = "read" => load'.late)
<1>1. /\ Deltas(fs) /\ load.phase = "read" =>
           /\ load' = [phase |-> "read", seen |-> load.seen, late |-> TRUE] /\ load'.late
      /\ ~(Deltas(fs) /\ load.phase = "read") => load' = load
  BY LiveLoadIs DEF Lost
<1> QED BY <1>1 DEF Lost, SameLoad, LiveTypes

LEMMA ConnectionKeeps ==
  ASSUME LiveInv, Subscribe \/ Disconnect \/ DropFrame \/ Expand \/ Collapse PROVE LiveInv'
<1>1. /\ UNCHANGED <<view, chain, marketRow, undone, refreshing, data, overlay, broken, settling,
                    heard, interleaved, fetched>>
      /\ opened' => view = MobileCard
      /\ hears' \in BOOLEAN
  <2>1. OnConnection
    BY DEF Subscribe, Disconnect, DropFrame, Expand, Collapse
  <2>2. hears' \in BOOLEAN
    BY DEF Subscribe, Disconnect, DropFrame, Expand, Collapse, LiveInv, LiveTypes
  <2>3. opened' => view = MobileCard
    <3>1. opened => view = MobileCard
      BY DEF LiveInv, LiveTypes
    <3> QED BY <3>1 DEF Subscribe, Disconnect, DropFrame, Expand, Collapse
  <2> QED BY <2>1, <2>2, <2>3 DEF OnConnection
<1>2. /\ frames' \in Seq(LiveFrames) /\ SameLoad /\ unseen' \in BOOLEAN /\ (unseen => unseen')
      /\ Updates(frames') => Updates(frames)
      /\ ~unseen' => /\ Deltas(frames') <=> Deltas(frames)
                     /\ \A a : LastDeltaIs(frames, a) => LastDeltaIs(frames', a)
      /\ view = MobilePage /\ load.phase = "read" /\ Deltas(frames) =>
           Deltas(frames') \/ load'.late
  <2>1. CASE Subscribe \/ Expand
    BY <2>1 DEF Subscribe, Expand, SameLoad, LiveInv, LiveTypes
  <2>2. CASE Disconnect
    <3>1. frames' = <<>> /\ Lost(frames) /\ LiveTypes
      BY <2>2 DEF Disconnect, LiveInv
    <3>2. \A a : LastDeltaIs(<<>>, a)
      BY DEF LastDeltaIs
    <3> QED BY <3>1, <3>2, LostIs, NoFrames
  <2>3. CASE DropFrame
    <3>1. /\ frames \in Seq(LiveFrames) /\ Len(frames) > 1 /\ LiveTypes
          /\ frames' = SubSeq(frames, 1, Len(frames) - 1) /\ Lost(<<frames[Len(frames)]>>)
      BY <2>3 DEF DropFrame, LiveInv, LiveTypes
    <3> QED BY <3>1, LostIs, FrameDropped
  <2>4. CASE Collapse
    <3>1. frames' = <<>> /\ unseen' = (unseen \/ Deltas(frames)) /\ load' = load
          /\ view = MobileCard /\ unseen \in BOOLEAN
      BY <2>4 DEF Collapse, LiveInv, LiveTypes
    <3>2. \A a : LastDeltaIs(<<>>, a)
      BY DEF LastDeltaIs
    <3>3. unseen' \in BOOLEAN
      BY <3>1 DEF Deltas
    <3>4. view # MobilePage
      BY <3>1 DEF MobileCard, MobilePage
    <3> QED BY <3>1, <3>2, <3>3, <3>4, NoFrames DEF SameLoad
  <2> QED BY <2>1, <2>2, <2>3, <2>4
<1>3. /\ load' \in {NotAsked, [phase |-> "asked"]} \cup LoadsRead
      /\ load = NotAsked => load' = NotAsked
      /\ load' = load \/ load'.late
  BY <1>2, LoadStays DEF LiveInv
<1>4. LiveTypes'
  BY <1>1, <1>2, <1>3 DEF LiveInv, LiveTypes
<1>5. PriceAgreed'
  BY <1>1, <1>2, PriceRests DEF LiveInv
<1>6. LoadFresh'
  <2> SUFFICES ASSUME view = MobilePage, load'.phase = "read", ~load'.late PROVE LoadFresh'
    BY <1>1 DEF LoadFresh
  <2>1. load' = load
    BY <1>3
  <2>2. Deltas(frames) => Deltas(frames')
    BY <1>2, <2>1
  <2> QED BY <1>1, <2>1, <2>2 DEF LiveInv, LoadFresh, NoneWritten
<1>7. RowRight'
  BY <1>1 DEF LiveInv, RowRight, AllCalm
<1>8. RowExpired'
  BY <1>1, <1>2 DEF LiveInv, RowExpired
<1>9. ExpiryShown'
  BY <1>1, <1>2, ExpiryRests DEF LiveInv
<1>10. BookShown'
  BY <1>1, BookRests DEF LiveInv
<1> QED BY <1>4, <1>5, <1>6, <1>7, <1>8, <1>9, <1>10 DEF LiveInv

(* What the view hears. *)
LEMMA HeardAskIs ==
  ASSUME NEW a \in PricesAsked, NEW b \in PricesAsked \cup {Absent}
  PROVE  /\ HeardAsk(a, b) \in PricesAsked /\ HeardAsk(a, b) # Absent
         /\ a # NoAsk => HeardAsk(a, b) = a
BY LiveMarketAssumption DEF HeardAsk, PricesAsked, NoAsk, Absent

LEMMA AskSet ==
  ASSUME NEW r, NEW c, NEW s, NEW a, r = [ask |-> c, status |-> s]
  PROVE  [r EXCEPT !.ask = a] = [ask |-> a, status |-> s]
OBVIOUS

LEMMA HearDeltaKeeps ==
  ASSUME LiveInv, HearFrame, HearDelta(Head(frames)) PROVE LiveInv'
<1> DEFINE f == Head(frames)
<1>1. /\ frames # <<>> /\ frames' = Tail(frames) /\ f.type = "delta"
      /\ UNCHANGED <<view, chain, marketRow, undone, refreshing, hears, opened, broken, settling,
                    interleaved, fetched, load, heard>>
      /\ unseen' = (unseen /\ (f.ask = NoAsk \/ f.ask # marketRow.ask \/ Deltas(Tail(frames))))
  BY DEF HearFrame, HearDelta, serverVars
<1>2. /\ frames \in Seq(LiveFrames) /\ view \in LiveViews /\ unseen \in BOOLEAN
      /\ data \in {Unread} \cup MarketRows
      /\ overlay \in [ask : PricesAsked \cup {Absent}, status : {"absent", "SETTLED"}]
  BY DEF LiveInv, LiveTypes
<1>3. /\ frames' \in Seq(LiveFrames) /\ f \in LiveFrames
      /\ Updates(frames') => Updates(frames)
      /\ \A a : LastDeltaIs(frames, a) => LastDeltaIs(frames', a)
      /\ ~Deltas(frames') => \A a : LastDeltaIs(frames, a) => f.ask = a
      /\ Deltas(frames)
  BY <1>1, <1>2, FrameLeaves
<1>4. f.ask \in PricesAsked
  BY <1>1, <1>3 DEF LiveFrames
<1>5. unseen' \in BOOLEAN
  BY <1>1, <1>2
<1> HIDE DEF f
<1>6. /\ view = MobilePage =>
           /\ overlay' = [ask |-> HeardAsk(f.ask, overlay.ask), status |-> overlay.status]
           /\ data' = data
      /\ view = MobileCard =>
           /\ data' = [ask |-> HeardAsk(f.ask, data.ask), status |-> data.status]
           /\ overlay' = overlay
      /\ view = MobileBook =>
           data' = (IF data = Unread THEN Row(NoAsk, "OPEN") ELSE data) /\ overlay' = overlay
      /\ view \in {WebPage, WebBook} => data' = data /\ overlay' = overlay
  <2>1. CASE view = MobilePage
    <3>1. view \notin {MobileCard, MobileBook, WebPage, WebBook}
      BY <2>1 DEF MobilePage, MobileCard, MobileBook, WebPage, WebBook
    <3>2. overlay = [ask |-> overlay.ask, status |-> overlay.status]
      BY <1>2
    <3>3. overlay' = [overlay EXCEPT !.ask = HeardAsk(f.ask, overlay.ask)] /\ data' = data
      BY <2>1, <3>1 DEF HearDelta, f
    <3> QED BY <3>1, <3>2, <3>3, AskSet
  <2>2. CASE view = MobileCard
    <3>1. view \notin {MobilePage, MobileBook, WebPage, WebBook}
      BY <2>2 DEF MobilePage, MobileCard, MobileBook, WebPage, WebBook
    <3>2. data' = [data EXCEPT !.ask = HeardAsk(f.ask, data.ask)] /\ overlay' = overlay
      BY <2>2, <3>1 DEF HearDelta, f
    <3>3. data = [ask |-> data.ask, status |-> data.status]
      BY <1>2, <2>2 DEF LiveInv, LiveTypes, MarketRows
    <3> QED BY <3>1, <3>2, <3>3, AskSet
  <2>3. CASE view = MobileBook
    <3>1. view \notin {MobilePage, MobileCard, WebPage, WebBook}
      BY <2>3 DEF MobilePage, MobileCard, MobileBook, WebPage, WebBook
    <3> QED BY <2>3, <3>1 DEF HearDelta, f
  <2>4. CASE view \in {WebPage, WebBook}
    <3>1. view \notin {MobilePage, MobileCard, MobileBook}
      BY <2>4 DEF MobilePage, MobileCard, MobileBook, WebPage, WebBook
    <3> QED BY <2>4, <3>1 DEF HearDelta, f
  <2> QED BY <1>2, <2>1, <2>2, <2>3, <2>4 DEF LiveViews
<1>7. /\ data' \in {Unread} \cup MarketRows
      /\ overlay' \in [ask : PricesAsked \cup {Absent}, status : {"absent", "SETTLED"}]
      /\ overlay'.status = overlay.status
      /\ data' = Unread => data = Unread
      /\ data # Unread => data' # Unread /\ data'.status = data.status
      /\ view # MobilePage => overlay' = overlay
      /\ view \notin {MobileCard, MobileBook} => data' = data
      /\ view = MobileBook /\ data # Unread => data' = data
      /\ view = MobilePage =>
           overlay'.ask # Absent /\ (f.ask # NoAsk => overlay'.ask = f.ask)
      /\ view = MobileCard /\ f.ask # NoAsk => data'.ask = f.ask
  <2>1. CASE view = MobilePage
    <3>1. /\ HeardAsk(f.ask, overlay.ask) \in PricesAsked /\ HeardAsk(f.ask, overlay.ask) # Absent
          /\ f.ask # NoAsk => HeardAsk(f.ask, overlay.ask) = f.ask
      BY <1>2, <1>4, HeardAskIs
    <3>2. view \notin {MobileCard, MobileBook}
      BY <2>1 DEF MobilePage, MobileCard, MobileBook
    <3> QED BY <1>2, <1>6, <2>1, <3>1, <3>2
  <2>2. CASE view = MobileCard
    <3>1. data # Unread /\ data \in MarketRows
      BY <1>2, <2>2 DEF LiveInv, LiveTypes
    <3>2. data.ask \in PricesAsked /\ data.status \in {"OPEN", "SETTLING", "SETTLED"}
      BY <3>1 DEF MarketRows
    <3>3. /\ HeardAsk(f.ask, data.ask) \in PricesAsked
          /\ f.ask # NoAsk => HeardAsk(f.ask, data.ask) = f.ask
      BY <1>4, <3>2, HeardAskIs
    <3>4. /\ data' \in MarketRows /\ data'.status = data.status
          /\ data'.ask = HeardAsk(f.ask, data.ask)
      BY <1>6, <2>2, <3>2, <3>3 DEF MarketRows
    <3>5. view \notin {MobilePage, MobileBook} /\ overlay' = overlay
      BY <1>6, <2>2 DEF MobilePage, MobileCard, MobileBook
    <3>6. data' # Unread
      BY <3>4 DEF MarketRows, Unread
    <3> QED BY <1>2, <2>2, <3>1, <3>3, <3>4, <3>5, <3>6
  <2>3. CASE view = MobileBook
    <3>1. view \notin {MobilePage, MobileCard} /\ overlay' = overlay
      BY <1>6, <2>3 DEF MobilePage, MobileCard, MobileBook
    <3>2. Row(NoAsk, "OPEN") \in MarketRows /\ Row(NoAsk, "OPEN") # Unread
      BY DEF Row, MarketRows, Unread, PricesAsked
    <3> QED BY <1>2, <1>6, <2>3, <3>1, <3>2
  <2>4. CASE view \in {WebPage, WebBook}
    <3>1. view \notin {MobilePage, MobileCard, MobileBook}
      BY <2>4 DEF MobilePage, MobileCard, MobileBook, WebPage, WebBook
    <3> QED BY <1>2, <1>6, <2>4, <3>1
  <2> QED BY <1>2, <2>1, <2>2, <2>3, <2>4 DEF LiveViews
<1>8. LiveTypes'
  BY <1>1, <1>3, <1>5, <1>7 DEF LiveInv, LiveTypes
<1>9. PriceAgreed'
  <2> SUFFICES ASSUME view \in {MobilePage, MobileCard}, ~unseen', ~interleaved, AllCalm
               PROVE  WillShow(marketRow.ask)'
    BY <1>1 DEF PriceAgreed, AllCalm
  <2>1. CASE Deltas(frames')
    <3>1. ~unseen
      BY <1>1, <2>1
    <3>2. LastDeltaIs(frames, marketRow.ask)
      BY <1>3, <3>1 DEF LiveInv, PriceAgreed, WillShow
    <3> QED BY <1>1, <1>3, <2>1, <3>2 DEF WillShow
  <2>2. CASE ~Deltas(frames')
    <3>1. f.ask = marketRow.ask
      <4>1. CASE unseen
        BY <1>1, <2>2, <4>1
      <4>2. CASE ~unseen
        <5>1. LastDeltaIs(frames, marketRow.ask)
          BY <1>3, <4>2 DEF LiveInv, PriceAgreed, WillShow
        <5> QED BY <1>3, <2>2, <5>1
      <4> QED BY <4>1, <4>2
    <3>2. CASE view = MobilePage
      <4>1. /\ marketRow' = marketRow /\ overlay'.ask # Absent
            /\ marketRow.ask = NoAsk \/ overlay'.ask = marketRow.ask
        BY <1>1, <1>7, <3>1, <3>2
      <4> QED BY <2>2, <4>1 DEF WillShow, ShowsAsk
    <3>3. CASE view = MobileCard
      <4>1. overlay'.ask = Absent
        <5>1. view # MobilePage
          BY <3>3 DEF MobilePage, MobileCard
        <5>2. overlay = NothingHeard
          BY <5>1 DEF LiveInv, LiveTypes
        <5> QED BY <1>7, <5>1, <5>2 DEF NothingHeard, Row
      <4> QED BY <1>1, <1>7, <2>2, <3>1, <3>3, <4>1 DEF WillShow, ShowsAsk
    <3> QED BY <3>2, <3>3
  <2> QED BY <2>1, <2>2
<1>10. LoadFresh'
  BY <1>1, <1>7 DEF LoadFresh
<1>11. RowRight'
  BY <1>1 DEF LiveInv, RowRight, AllCalm
<1>12. RowExpired'
  BY <1>1, <1>3 DEF LiveInv, RowExpired
<1>13. ExpiryShown'
  <2>1. view = MobileCard => data # Unread
    BY DEF LiveInv, LiveTypes
  <2>2. view = WebPage => data' = data
    BY <1>7 DEF WebPage, MobileCard, MobileBook
  <2> QED BY <1>1, <1>7, <2>1, <2>2 DEF LiveInv, ExpiryShown
<1>14. BookShown'
  <2>1. view = WebBook => view \notin {MobileCard, MobileBook}
    BY DEF WebBook, MobileCard, MobileBook
  <2> QED BY <1>1, <1>7, <2>1 DEF LiveInv, BookShown
<1> QED BY <1>8, <1>9, <1>10, <1>11, <1>12, <1>13, <1>14 DEF LiveInv

LEMMA StatusOf ==
  ASSUME NEW r, NEW a, NEW c, NEW s, r = [ask |-> a, status |-> c]
  PROVE  [r EXCEPT !.status = s] = [ask |-> a, status |-> s]
OBVIOUS

LEMMA HearUpdateKeeps ==
  ASSUME LiveInv, HearFrame, HearUpdate(Head(frames)) PROVE LiveInv'
<1> DEFINE f == Head(frames)
<1>1. /\ frames # <<>> /\ frames' = Tail(frames) /\ f.type = "update"
      /\ UNCHANGED <<view, chain, marketRow, undone, refreshing, hears, opened, broken, settling,
                    interleaved, fetched, unseen>>
      /\ heard' = (heard \/ data # Unread \/ view = MobilePage)
  BY DEF HearFrame, HearUpdate, serverVars
<1>2. /\ frames \in Seq(LiveFrames) /\ view \in LiveViews
      /\ data \in {Unread} \cup MarketRows
      /\ overlay \in [ask : PricesAsked \cup {Absent}, status : {"absent", "SETTLED"}]
      /\ view = MobileCard => data # Unread /\ load = NotAsked
  BY DEF LiveInv, LiveTypes
<1>3. /\ frames' \in Seq(LiveFrames) /\ f \in LiveFrames
      /\ Updates(frames) /\ (Updates(frames') => Updates(frames))
      /\ \A a : LastDeltaIs(frames, a) => LastDeltaIs(frames', a)
      /\ Deltas(frames') <=> Deltas(frames)
  BY <1>1, <1>2, FrameLeaves
<1>4. f.status = "SETTLED"
  BY <1>1, <1>3 DEF LiveFrames
<1> HIDE DEF f
<1>5. /\ view = MobilePage =>
           /\ overlay' = [ask |-> overlay.ask, status |-> "SETTLED"] /\ data' = data
           /\ Again
      /\ view = MobileCard =>
           /\ data' = [ask |-> data.ask, status |-> "SETTLED"]
           /\ overlay' = overlay /\ load' = load
      /\ view = WebPage => Again /\ data' = data /\ overlay' = overlay
      /\ view \in {MobileBook, WebBook} => data' = data /\ overlay' = overlay /\ load' = load
  <2>1. CASE view = MobilePage
    <3>1. view \notin {MobileCard, MobileBook, WebPage, WebBook}
      BY <2>1 DEF MobilePage, MobileCard, MobileBook, WebPage, WebBook
    <3>2. overlay = [ask |-> overlay.ask, status |-> overlay.status]
      BY <1>2
    <3>3. overlay' = [overlay EXCEPT !.status = "SETTLED"] /\ data' = data /\ Again
      BY <1>4, <2>1, <3>1 DEF HearUpdate, f
    <3> QED BY <3>1, <3>2, <3>3, StatusOf
  <2>2. CASE view = MobileCard
    <3>1. view \notin {MobilePage, MobileBook, WebPage, WebBook}
      BY <2>2 DEF MobilePage, MobileCard, MobileBook, WebPage, WebBook
    <3>2. data' = [data EXCEPT !.status = "SETTLED"] /\ overlay' = overlay /\ load' = load
      BY <1>4, <2>2, <3>1 DEF HearUpdate, f
    <3>3. data = [ask |-> data.ask, status |-> data.status]
      BY <1>2, <2>2 DEF MarketRows
    <3> QED BY <3>1, <3>2, <3>3, StatusOf
  <2>3. CASE view = WebPage
    <3>1. view \notin {MobilePage, MobileCard, MobileBook, WebBook}
      BY <2>3 DEF MobilePage, MobileCard, MobileBook, WebPage, WebBook
    <3> QED BY <2>3, <3>1 DEF HearUpdate, f
  <2>4. CASE view \in {MobileBook, WebBook}
    <3>1. view \notin {MobilePage, MobileCard, WebPage}
      BY <2>4 DEF MobilePage, MobileCard, MobileBook, WebPage, WebBook
    <3> QED BY <2>4, <3>1 DEF HearUpdate, f
  <2> QED BY <1>2, <2>1, <2>2, <2>3, <2>4 DEF LiveViews
<1>6. /\ view \notin {MobilePage, WebPage} => load' = load
      /\ view # MobileCard => data' = data
      /\ view # MobilePage => overlay' = overlay
      /\ view \in {MobilePage, WebPage} => Again
  BY <1>2, <1>5 DEF LiveViews
<1>7. /\ load' = load \/ load' = [phase |-> "asked"]
      /\ data # Unread /\ view = WebPage => load' = [phase |-> "asked"]
      /\ load = NotAsked /\ view = WebPage => load' = [phase |-> "asked"]
  BY <1>6 DEF Again
<1>8. /\ data' \in {Unread} \cup MarketRows /\ data'.ask = data.ask
      /\ data' = Unread <=> data = Unread
      /\ view = MobileCard => data'.status = "SETTLED"
  <2>1. CASE view = MobileCard
    <3>1. data \in MarketRows /\ data # Unread
      BY <1>2, <2>1
    <3>2. data' = [ask |-> data.ask, status |-> "SETTLED"] /\ data' \in MarketRows
      BY <1>5, <2>1, <3>1 DEF MarketRows
    <3> QED BY <3>1, <3>2 DEF MarketRows, Unread
  <2>2. CASE view # MobileCard
    BY <1>2, <1>6, <2>2
  <2> QED BY <2>1, <2>2
<1>9. /\ overlay' \in [ask : PricesAsked \cup {Absent}, status : {"absent", "SETTLED"}]
      /\ overlay'.ask = overlay.ask
      /\ view = MobilePage => overlay'.status = "SETTLED"
  BY <1>2, <1>5, <1>6
<1>10. LiveTypes'
  <2>1. heard' \in BOOLEAN
    BY <1>1
  <2>2. load' \in {NotAsked, [phase |-> "asked"]} \cup LoadsRead
    BY <1>7 DEF LiveInv, LiveTypes
  <2>3. view = MobileCard => load' = NotAsked
    BY <1>2, <1>5
  <2> QED BY <1>1, <1>3, <1>6, <1>8, <1>9, <2>1, <2>2, <2>3 DEF LiveInv, LiveTypes
<1>11. PriceAgreed'
  BY <1>1, <1>3, <1>8, <1>9, PriceRests DEF LiveInv
<1>12. LoadFresh'
  BY <1>1, <1>3, <1>7, <1>9, FreshRests DEF LiveInv
<1>13. RowRight'
  BY <1>1 DEF LiveInv, RowRight, AllCalm
<1>14. RowExpired'
  BY <1>1, <1>3 DEF LiveInv, RowExpired
<1>15. ExpiryShown'
  <2>1. view = MobilePage => view # WebPage /\ view # MobileCard
    BY DEF MobilePage, MobileCard, WebPage
  <2>2. view = WebPage /\ heard' => load'.phase = "asked" \/ (heard /\ load' = load /\ load # NotAsked)
    <3>1. view = WebPage /\ heard' /\ data = Unread => heard
      BY <1>1, <2>1
    <3>2. [phase |-> "asked"].phase = "asked"
      OBVIOUS
    <3> QED BY <1>7, <3>1, <3>2
  <2>3. view = WebPage /\ heard /\ load # NotAsked /\ chain.status = "open" =>
          load.phase = "asked" \/ (load.phase = "read" /\ load.seen.status = "SETTLED")
    BY DEF LiveInv, ExpiryShown
  <2> QED BY <1>1, <1>8, <1>9, <2>2, <2>3 DEF ExpiryShown
<1>16. BookShown'
  <2>1. view \in {MobileBook, WebBook} => view # MobileCard
    BY DEF MobileCard, MobileBook, WebBook
  <2> QED BY <1>1, <1>6, <2>1 DEF LiveInv, BookShown
<1> QED BY <1>10, <1>11, <1>12, <1>13, <1>14, <1>15, <1>16 DEF LiveInv

(* Loads. *)
LEMMA LoadsKeep ==
  ASSUME LiveInv, LoadAgain \/ LoadRead \/ ViewFails PROVE LiveInv'
<1>1. /\ UNCHANGED <<view, chain, marketRow, undone, refreshing, frames, hears, opened, data,
                    overlay, settling, heard, interleaved, unseen, fetched>>
  BY DEF LoadAgain, LoadRead, ViewFails, OnLoad, serverVars
<1>2. /\ load' \in {NotAsked, [phase |-> "asked"]} \cup LoadsRead
      /\ load = NotAsked /\ view = MobileCard => load' = NotAsked
      /\ \/ load' = load
         \/ load' = NotAsked
         \/ load' = [phase |-> "asked"]
         \/ load'.phase = "read" /\ load'.seen = marketRow
      /\ \/ load' = load /\ load # NotAsked
         \/ load'.phase = "asked"
         \/ load' = NotAsked /\ broken'
         \/ load'.phase = "read" /\ load'.seen = marketRow
  <2>1. CASE LoadAgain
    <3>1. (load' = load /\ load # NotAsked) \/ load' = [phase |-> "asked"]
      BY <2>1 DEF LoadAgain, Again
    <3>2. view # MobileCard /\ [phase |-> "asked"] # NotAsked
      BY <2>1 DEF LoadAgain, MobilePage, MobileCard, WebPage, WebBook, NotAsked
    <3> QED BY <3>1, <3>2 DEF LiveInv, LiveTypes
  <2>2. CASE LoadRead
    <3>1. /\ load.phase = "asked"
          /\ load' = [phase |-> "read", seen |-> marketRow, late |-> FALSE]
      BY <2>2 DEF LoadRead
    <3>2. load' \in LoadsRead /\ load' # NotAsked /\ load # NotAsked
          /\ load'.phase = "read" /\ load'.seen = marketRow
      BY <3>1 DEF LoadsRead, NotAsked, LiveInv, LiveTypes
    <3> QED BY <3>2
  <2>3. CASE ViewFails
    <3>1. load' = NotAsked /\ broken' = TRUE /\ load # NotAsked
      BY <2>3 DEF ViewFails
    <3>2. broken'
      BY <3>1
    <3> QED BY <3>1, <3>2
  <2> QED BY <2>1, <2>2, <2>3
<1>3. LiveTypes'
  BY <1>1, <1>2 DEF LiveInv, LiveTypes
<1>4. PriceAgreed'
  BY <1>1, PriceRests DEF LiveInv
<1>5. LoadFresh'
  BY <1>1, <1>2 DEF LiveInv, LoadFresh, NoneWritten, NotAsked
<1>6. RowRight'
  BY <1>1 DEF LiveInv, RowRight, AllCalm
<1>7. RowExpired'
  BY <1>1 DEF LiveInv, RowExpired
<1>8. ExpiryShown'
  BY <1>1, <1>2 DEF LiveInv, ExpiryShown, RowExpired
<1>9. BookShown'
  BY <1>1, BookRests DEF LiveInv
<1> QED BY <1>3, <1>4, <1>5, <1>6, <1>7, <1>8, <1>9 DEF LiveInv

LEMMA ViewLoadedKeeps == ASSUME LiveInv, ViewLoaded PROVE LiveInv'
<1>1. /\ UNCHANGED <<view, chain, marketRow, undone, refreshing, frames, hears, opened,
                    overlay, settling, heard, interleaved>>
      /\ load.phase = "read" /\ load' = NotAsked /\ broken' = FALSE /\ data' = load.seen
      /\ fetched' = (IF view \in {MobileBook, WebBook} THEN load.seen ELSE fetched)
      /\ unseen' = IF overlay.ask = Absent /\ ~Deltas(frames) THEN load.late ELSE unseen
  BY DEF ViewLoaded, OnLoad, serverVars
<1>2. load \in LoadsRead /\ load # NotAsked
  BY <1>1, LiveLoadIs DEF LiveInv
<1>3. load.seen \in MarketRows /\ load.late \in BOOLEAN /\ load.seen # Unread
  BY <1>2 DEF LoadsRead, MarketRows, Unread
<1>4. view # MobileCard
  BY <1>2 DEF LiveInv, LiveTypes
<1>5. unseen' \in BOOLEAN
  BY <1>1, <1>3 DEF LiveInv, LiveTypes
<1>6. LiveTypes'
  BY <1>1, <1>3, <1>4, <1>5 DEF LiveInv, LiveTypes
<1>7. PriceAgreed'
  <2> SUFFICES ASSUME view = MobilePage, ~unseen', ~interleaved, AllCalm
               PROVE  WillShow(marketRow.ask)'
    BY <1>1, <1>4 DEF PriceAgreed, AllCalm
  <2>1. CASE Deltas(frames)
    BY <1>1, <2>1 DEF LiveInv, PriceAgreed, WillShow
  <2>2. CASE ~Deltas(frames) /\ overlay.ask # Absent
    BY <1>1, <2>2 DEF LiveInv, PriceAgreed, WillShow, ShowsAsk
  <2>3. CASE ~Deltas(frames) /\ overlay.ask = Absent
    <3>1. NoneWritten
      BY DEF AllCalm, NoneWritten, Calm
    <3>2. load.seen.ask = marketRow.ask
      BY <1>1, <2>3, <3>1 DEF LiveInv, LoadFresh
    <3> QED BY <1>1, <2>3, <3>2 DEF WillShow, ShowsAsk
  <2> QED BY <2>1, <2>2, <2>3
<1>8. LoadFresh'
  BY <1>1 DEF LoadFresh, NotAsked
<1>9. RowRight'
  BY <1>1 DEF LiveInv, RowRight, AllCalm
<1>10. RowExpired'
  BY <1>1 DEF LiveInv, RowExpired
<1>11. ExpiryShown'
  BY <1>1, <1>2, <1>4 DEF LiveInv, ExpiryShown
<1>12. BookShown'
  BY <1>1, <1>3 DEF BookShown
<1> QED BY <1>6, <1>7, <1>8, <1>9, <1>10, <1>11, <1>12 DEF LiveInv

(* The card's settlement. *)
LEMMA CardKeeps ==
  ASSUME LiveInv, SettleFromCard \/ SettleTaken \/ SettleAnswered PROVE LiveInv'
<1>1. UNCHANGED <<view, chain, marketRow, undone, refreshing, frames, hears, opened, overlay, load,
                  broken, heard, fetched, interleaved, unseen>>
  BY DEF SettleFromCard, SettleTaken, SettleAnswered, OnCard, serverVars
<1>2. view = MobileCard /\ data \in MarketRows /\ data # Unread
  BY DEF SettleFromCard, SettleTaken, SettleAnswered, LiveInv, LiveTypes
<1>3. /\ data' \in MarketRows /\ data' # Unread /\ data'.ask = data.ask
      /\ data' = data \/ settling' = "done"
      /\ settling # "done"
  <2>1. CASE SettleFromCard \/ SettleTaken
    BY <1>2, <2>1 DEF SettleFromCard, SettleTaken
  <2>2. CASE SettleAnswered
    <3>1. /\ data' = [data EXCEPT !.status = "SETTLING"] /\ settling' = "done"
          /\ settling = "taken"
      BY <2>2 DEF SettleAnswered
    <3>2. data = [ask |-> data.ask, status |-> data.status]
      BY <1>2 DEF MarketRows
    <3>3. data' = [ask |-> data.ask, status |-> "SETTLING"]
      BY <3>1, <3>2, StatusOf
    <3> QED BY <1>2, <3>1, <3>3 DEF MarketRows, Unread
  <2> QED BY <2>1, <2>2
<1>4. LiveTypes'
  BY <1>1, <1>2, <1>3 DEF LiveInv, LiveTypes
<1>5. PriceAgreed'
  BY <1>1, <1>2, <1>3, PriceRests DEF LiveInv
<1>6. LoadFresh'
  BY <1>1, FreshRests DEF LiveInv
<1>7. RowRight'
  BY <1>1 DEF LiveInv, RowRight, AllCalm
<1>8. RowExpired'
  BY <1>1 DEF LiveInv, RowExpired
<1>9. ExpiryShown'
  BY <1>1, <1>2, <1>3 DEF LiveInv, ExpiryShown, MobileCard, MobilePage, WebPage
<1>10. BookShown'
  BY <1>1, <1>2 DEF BookShown, MobileCard, MobileBook, WebBook
<1> QED BY <1>4, <1>5, <1>6, <1>7, <1>8, <1>9, <1>10 DEF LiveInv

LEMMA LiveStep == LiveInv /\ [LiveNext]_liveVars => LiveInv'
<1> SUFFICES ASSUME LiveInv, [LiveNext]_liveVars PROVE LiveInv'
  OBVIOUS
<1>1. CASE UNCHANGED liveVars
  <2>1. UNCHANGED <<view, chain, marketRow, undone, refreshing, frames, hears, opened, data,
                    overlay, load, broken, settling, heard, fetched, interleaved, unseen>>
    BY <1>1 DEF liveVars, serverVars, viewVars
  <2>2. LiveTypes'
    BY <2>1 DEF LiveInv, LiveTypes
  <2>3. PriceAgreed'
    BY <2>1, PriceRests DEF LiveInv
  <2>4. LoadFresh'
    BY <2>1, FreshRests DEF LiveInv
  <2>5. RowRight' /\ RowExpired'
    BY <2>1 DEF LiveInv, RowRight, RowExpired, AllCalm
  <2>6. ExpiryShown' /\ BookShown'
    BY <2>1, ExpiryRests, BookRests DEF LiveInv, SameLoad
  <2> QED BY <2>2, <2>3, <2>4, <2>5, <2>6 DEF LiveInv
<1>2. CASE (\E a \in AskPrices \cup {NoAsk} : Trade(a)) \/ RequestSettlement \/ SettleOnChain
  BY <1>2, ChainKeeps DEF PricesAsked
<1>3. CASE \E i \in Indexers : BeginRefresh(i) \/ WritePrice(i) \/ PublishPrice(i)
  BY <1>3, BeginRefreshKeeps, WritePriceKeeps, PublishPriceKeeps
<1>4. CASE OnSettlementRequested \/ OnMarketSettled \/ ExpireDue
  BY <1>4, SettlementKeeps, ExpireDueKeeps
<1>5. CASE Subscribe \/ Disconnect \/ DropFrame \/ Expand \/ Collapse
  BY <1>5, ConnectionKeeps
<1>6. CASE HearFrame
  BY <1>6, HearDeltaKeeps, HearUpdateKeeps DEF HearFrame
<1>7. CASE LoadAgain \/ LoadRead \/ ViewLoaded \/ ViewFails
  BY <1>7, LoadsKeep, ViewLoadedKeeps
<1>8. CASE SettleFromCard \/ SettleTaken \/ SettleAnswered
  BY <1>8, CardKeeps
<1> QED BY <1>1, <1>2, <1>3, <1>4, <1>5, <1>6, <1>7, <1>8 DEF LiveNext

LEMMA LiveInitial == LiveInit => LiveInv
<1> SUFFICES ASSUME LiveInit PROVE LiveInv
  OBVIOUS
<1>1. chain \in [ask : PricesAsked, status : {"open"}] /\ view \in LiveViews
  BY DEF LiveInit, PricesAsked, LiveViews
<1>2. /\ marketRow \in MarketRows /\ marketRow.ask = chain.ask /\ marketRow # Unread
  BY <1>1 DEF LiveInit, Row, MarketRows, Unread
<1>3. \A i \in Indexers : refreshing[i] = Calm
  BY DEF LiveInit
<1>4. /\ chain \in [ask : PricesAsked, status : {"open", "requested", "settled"}]
      /\ refreshing \in [Indexers -> {Calm} \cup UnderRefresh]
      /\ data \in {Unread, marketRow} /\ (view = MobileCard => data # Unread)
  BY <1>1, <1>2 DEF LiveInit
<1>5. /\ overlay = NothingHeard
      /\ NothingHeard \in [ask : PricesAsked \cup {Absent}, status : {"absent", "SETTLED"}]
  BY DEF LiveInit, NothingHeard, Row
<1>6. load \in {NotAsked, [phase |-> "asked"]} /\ (view = MobileCard => load = NotAsked)
  BY DEF LiveInit
<1>7. /\ frames = <<>> /\ hears = FALSE /\ unseen = FALSE /\ interleaved = FALSE /\ heard = FALSE
      /\ settling = "no" /\ fetched = Unread /\ undone = {}
      /\ opened => view = MobileCard
  BY DEF LiveInit
<1>8. LiveTypes
  BY <1>1, <1>2, <1>4, <1>5, <1>6, <1>7, NoFrames DEF LiveTypes
<1>9. PriceAgreed
  BY <1>2, <1>4, <1>7, NoFrames DEF PriceAgreed, WillShow, ShowsAsk, LiveInit, NothingHeard, Row
<1>10. LoadFresh
  BY <1>6 DEF LoadFresh, NotAsked
<1>11. RowRight
  BY <1>2, <1>3 DEF RowRight
<1>12. RowExpired
  BY <1>7, NoFrames DEF RowExpired
<1>13. ExpiryShown /\ BookShown
  BY <1>7 DEF ExpiryShown, BookShown
<1> QED BY <1>8, <1>9, <1>10, <1>11, <1>12, <1>13 DEF LiveInv

LEMMA TwoSet ==
  ASSUME NEW r, NEW a, NEW c, NEW b, NEW s, r = [ask |-> a, status |-> c]
  PROVE  /\ [r EXCEPT !.ask = b, !.status = s].ask = b
         /\ [r EXCEPT !.ask = b, !.status = s].status = s
OBVIOUS

LEMMA LiveHolds == LiveInv => LiveSound
<1> SUFFICES ASSUME LiveInv, Quiet, ViewShown # Unread
    PROVE  /\ view \in {MobilePage, MobileCard} /\ ~unseen /\ ~interleaved =>
                marketRow.ask = chain.ask /\ (ViewShown.ask = chain.ask \/ chain.ask = NoAsk)
           /\ heard /\ view \in {MobilePage, MobileCard, WebPage} =>
                ViewShown.status = "SETTLED" \/ chain.status # "open" \/ settling = "done"
           /\ view \in {MobileBook, WebBook} /\ fetched # Unread => ViewShown.ask = fetched.ask
  BY DEF LiveSound
<1>1. data # Unread /\ (view = MobileCard \/ ~broken) /\ ViewShown = Over(data)
  BY DEF ViewShown
<1>2. data \in MarketRows
  BY <1>1 DEF LiveInv, LiveTypes
<1>3. data = [ask |-> data.ask, status |-> data.status]
  BY <1>2 DEF MarketRows
<1>4. /\ ViewShown.ask = (IF overlay.ask = Absent THEN data.ask ELSE overlay.ask)
      /\ ViewShown.status = (IF overlay.status = "absent" THEN data.status ELSE overlay.status)
  BY <1>1, <1>3, TwoSet DEF Over
<1>5. /\ undone = {} /\ AllCalm /\ ~Deltas(frames) /\ load = NotAsked
  BY NoFrames DEF Quiet, AllCalm
<1>6. view # MobilePage => overlay.ask = Absent /\ overlay.status = "absent"
  BY DEF LiveInv, LiveTypes, NothingHeard, Row
<1>7. ASSUME view \in {MobilePage, MobileCard}, ~unseen, ~interleaved
      PROVE  marketRow.ask = chain.ask /\ (ViewShown.ask = chain.ask \/ chain.ask = NoAsk)
  <2>1. marketRow.ask = chain.ask
    BY <1>5, <1>7 DEF LiveInv, RowRight
  <2>2. marketRow.ask = NoAsk \/ ShowsAsk(marketRow.ask)
    BY <1>5, <1>7 DEF LiveInv, PriceAgreed, WillShow
  <2> QED BY <1>1, <1>4, <2>1, <2>2 DEF ShowsAsk
<1>8. ASSUME heard, view \in {MobilePage, MobileCard, WebPage}
      PROVE  ViewShown.status = "SETTLED" \/ chain.status # "open" \/ settling = "done"
  <2>1. CASE view = MobilePage
    BY <1>4, <1>8, <2>1 DEF LiveInv, ExpiryShown
  <2>2. CASE view = MobileCard
    BY <1>4, <1>6, <1>8, <2>2 DEF LiveInv, ExpiryShown, MobileCard, MobilePage
  <2>3. CASE view = WebPage
    <3>1. view # MobilePage /\ view # MobileCard
      BY <2>3 DEF MobilePage, MobileCard, WebPage
    <3>2. chain.status = "open" => data.status = "SETTLED"
      BY <1>1, <1>5, <1>8, <2>3, <3>1 DEF LiveInv, ExpiryShown, NotAsked
    <3> QED BY <1>4, <1>6, <3>1, <3>2
  <2> QED BY <1>8, <2>1, <2>2, <2>3
<1>9. ASSUME view \in {MobileBook, WebBook}, fetched # Unread PROVE ViewShown.ask = fetched.ask
  <2>1. view # MobilePage
    BY <1>9 DEF MobilePage, MobileBook, WebBook
  <2> QED BY <1>4, <1>6, <1>9, <2>1 DEF LiveInv, BookShown
<1> QED BY <1>7, <1>8, <1>9

(* When nothing is under way, the mobile page and card show the price the    *)
(* chain has, whatever order loads, frames, losses and refreshes came in,    *)
(* unless a price was published that they did not hear, two instances'       *)
(* refreshes crossed or the ask has gone; a view that heard of the expiry    *)
(* does not offer to trade; the books show the levels they loaded            *)
(* (market/[id].tsx and MarketCard.tsx book.delta and market.update;         *)
(* OrderBook.tsx; indexer.refreshBook).                                      *)
THEOREM MarketOnScreen == Spec => []LiveSound
<1>1. Init => LiveInv
  BY LiveInitial DEF Init
<1>2. LiveInv /\ [Next]_screenVars => LiveInv'
  BY ScreenMoves, LiveStep
<1> QED BY <1>1, <1>2, LiveHolds, PTL DEF Spec

-----------------------------------------------------------------------------
(* Mentions.  The invariant is that the web's mentions are those of its text *)
(* and that the user just chosen is mentioned in it (MentionsInv).  What is  *)
(* sent lies in the text with only space around it (Within), and a match     *)
(* takes in no space, so the mentions of the one are those of the other,     *)
(* moved (MatchesOf, DerivedOf).                                             *)

(* The text sent is n characters of the text, after c; around it is space.   *)
Within(s, w, c, n) ==
  /\ w \in Seq(Characters) /\ Len(w) = n /\ c + n <= Len(s)
  /\ \A i \in 1 .. n : w[i] = s[c + i]
  /\ \A i \in DOMAIN s : i <= c \/ i > c + n => s[i] = Space

MatchAt(s, a, l) ==
  /\ l >= 2 /\ a + l <= Len(s)
  /\ s[a + 1] = "@" /\ \A k \in 2 .. l : s[a + k] \in Word
  /\ a + l = Len(s) \/ s[a + l + 1] \notin Word

(* A delimited name of u, and what stands for one in a set of mentions.      *)
Derived(s, u, a, l) == MatchAt(s, a, l) /\ Delimited(s, a) /\ SubSeq(s, a + 1, a + l) = Handle(u)
Mentioned(u, a, l) == [user |-> u, start |-> a, len |-> l]

(* The web's mentions are those of the text, its "@" is where the caret is,  *)
(* and the user chosen last is mentioned.                                    *)
MentionsInv ==
  /\ field \in {"mobile", "web"} /\ text \in Seq(Characters)
  /\ caret \in Nat \cup {NoCaret} /\ recorded \subseteq MentionUsers
  /\ field = "web" =>
       mentions = DeriveMentions(text, recorded) /\ token \subseteq ActiveToken(text, caret)
  /\ chosen \subseteq {m.user : m \in DeriveMentions(text, recorded)}

(* d is a followed by b. *)
JoinOf(S, a, b, d) ==
  /\ d \in Seq(S) /\ Len(d) = Len(a) + Len(b)
  /\ \A k \in 1 .. Len(a) : d[k] = a[k]
  /\ \A k \in 1 .. Len(b) : d[Len(a) + k] = b[k]

(* An item added at the end of a sequence.                                   *)
LEMMA Joined ==
  ASSUME NEW S, NEW a \in Seq(S), NEW b \in Seq(S)
  PROVE  JoinOf(S, a, b, a \o b)
BY DEF JoinOf

(* A part of a sequence. *)
LEMMA Cut ==
  ASSUME NEW S, NEW s \in Seq(S), NEW a \in 1 .. Len(s) + 1, NEW z \in 0 .. Len(s), a <= z + 1
  PROVE  /\ SubSeq(s, a, z) \in Seq(S) /\ Len(SubSeq(s, a, z)) = z - a + 1
         /\ \A j \in 1 .. z - a + 1 : SubSeq(s, a, z)[j] = s[a + j - 1]
<1>1. Len(s) \in Nat /\ a \in Nat /\ z \in Nat
  OBVIOUS
<1>2. /\ Len(SubSeq(s, a, z)) = z - a + 1
      /\ \A j \in 1 .. z - a + 1 : SubSeq(s, a, z)[j] = s[a + j - 1]
  BY <1>1
<1>3. \A j \in a .. z : s[j] \in S
  BY <1>1
<1>4. SubSeq(s, a, z) \in Seq(S)
  BY <1>1, <1>3
<1> QED BY <1>2, <1>4

(* What begins a range is as long as it, and what ends it. *)
LEMMA Prefix ==
  ASSUME NEW n \in Nat, NEW P \in SUBSET (1 .. n), \A i \in P : 1 .. i \subseteq P
  PROVE  Cardinality(P) \in 0 .. n /\ P = 1 .. Cardinality(P)
<1>1. IsFiniteSet(1 .. n) /\ Cardinality(1 .. n) = n
  BY FS_Interval
<1>2. IsFiniteSet(P) /\ Cardinality(P) <= n
  BY <1>1, FS_Subset
<1>3. PICK c \in Nat : c = Cardinality(P) /\ c <= n
  BY <1>2, FS_CardinalityType
<1>4. ASSUME NEW i \in P PROVE i <= c
  <2>1. Cardinality(1 .. i) = i /\ 1 .. i \in SUBSET P /\ i \in Nat
    BY FS_Interval
  <2>2. Cardinality(1 .. i) <= Cardinality(P)
    BY <1>2, <2>1, FS_Subset
  <2> QED
    BY <1>3, <2>1, <2>2
<1>5. ASSUME NEW i \in 1 .. c, i \notin P PROVE FALSE
  <2>1. \A k \in P : k <= i - 1
    <3>1. ASSUME NEW k \in P, k >= i PROVE FALSE
      <4>1. i \in 1 .. k
        BY <3>1
      <4> QED
        BY <1>5, <4>1
    <3> QED
      BY <3>1
  <2>2. P \in SUBSET (1 .. i - 1)
    BY <2>1
  <2>3. i - 1 \in Nat /\ IsFiniteSet(1 .. i - 1) /\ Cardinality(1 .. i - 1) = i - 1
    <3>1. i - 1 \in Nat
      OBVIOUS
    <3> QED
      BY <3>1, FS_Interval
  <2>4. Cardinality(P) <= i - 1
    BY <2>2, <2>3, FS_Subset
  <2> QED
    BY <1>3, <2>4
<1>6. P = 1 .. c
  <2>1. \A i \in P : i \in 1 .. c
    BY <1>4
  <2> QED
    BY <1>5, <2>1
<1> QED
  BY <1>3, <1>6

LEMMA Suffix ==
  ASSUME NEW n \in Nat, NEW P \in SUBSET (1 .. n), \A i \in P : i .. n \subseteq P
  PROVE  Cardinality(P) \in 0 .. n /\ P = n - Cardinality(P) + 1 .. n
<1>1. IsFiniteSet(1 .. n) /\ Cardinality(1 .. n) = n
  BY FS_Interval
<1>2. IsFiniteSet(P) /\ Cardinality(P) <= n
  BY <1>1, FS_Subset
<1>3. PICK c \in Nat : c = Cardinality(P) /\ c <= n
  BY <1>2, FS_CardinalityType
<1>4. ASSUME NEW i \in P PROVE i >= n - c + 1
  <2>1. Cardinality(i .. n) = n - i + 1 /\ i .. n \in SUBSET P /\ i \in Nat
    BY FS_Interval
  <2>2. Cardinality(i .. n) <= Cardinality(P)
    BY <1>2, <2>1, FS_Subset
  <2> QED
    BY <1>3, <2>1, <2>2
<1>5. ASSUME NEW i \in n - c + 1 .. n, i \notin P PROVE FALSE
  <2>0. i \in Nat /\ i >= 1 /\ i <= n
    BY <1>3
  <2>1. \A k \in P : k >= i + 1
    <3>1. ASSUME NEW k \in P, k <= i PROVE FALSE
      <4>1. i \in k .. n
        BY <2>0, <3>1
      <4> QED
        BY <1>5, <4>1
    <3> QED
      BY <2>0, <3>1
  <2>2. P \in SUBSET (i + 1 .. n)
    BY <2>1
  <2>3. IsFiniteSet(i + 1 .. n) /\ Cardinality(i + 1 .. n) = n - i
    <3>1. i + 1 \in Int /\ n \in Int /\ (i + 1 > n => n - i = 0) /\ n - (i + 1) + 1 = n - i
      BY <2>0
    <3> QED
      BY <3>1, FS_Interval
  <2>4. Cardinality(P) <= n - i
    BY <2>2, <2>3, FS_Subset
  <2>5. i >= n - c + 1
    OBVIOUS
  <2> QED
    BY <1>3, <2>0, <2>4, <2>5
<1>6. P = n - c + 1 .. n
  <2>1. \A i \in P : i \in n - c + 1 .. n
    BY <1>4
  <2> QED
    BY <1>5, <2>1
<1> QED
  BY <1>3, <1>6

(* The space before a text and after it. *)
LEMMA LeadingIs ==
  ASSUME NEW s \in Seq(Characters)
  PROVE  /\ Leading(s) \in 0 .. Len(s) /\ \A i \in 1 .. Leading(s) : s[i] = Space
         /\ Leading(s) < Len(s) => s[Leading(s) + 1] # Space
<1> DEFINE P == {i \in DOMAIN s : \A k \in 1 .. i : s[k] = Space}
<1>1. PICK n \in Nat : n = Len(s) /\ DOMAIN s = 1 .. n
  OBVIOUS
<1>2. P \in SUBSET (1 .. n) /\ \A i \in P : 1 .. i \subseteq P
  BY <1>1
<1>3. PICK c \in 0 .. n : c = Cardinality(P) /\ P = 1 .. c
  BY <1>2, Prefix
<1>4. Leading(s) = c
  BY <1>3 DEF Leading
<1>5. \A i \in 1 .. c : s[i] = Space
  BY <1>3
<1>6. ASSUME c < n, s[c + 1] = Space PROVE FALSE
  <2>1. c + 1 \in DOMAIN s /\ \A k \in 1 .. c + 1 : s[k] = Space
    BY <1>1, <1>5, <1>6
  <2>2. c + 1 \in 1 .. c
    BY <1>3, <2>1
  <2> QED
    BY <2>2
<1> QED
  BY <1>1, <1>4, <1>5, <1>6

LEMMA TrailingIs ==
  ASSUME NEW s \in Seq(Characters)
  PROVE  /\ Trailing(s) \in 0 .. Len(s)
         /\ \A i \in Len(s) - Trailing(s) + 1 .. Len(s) : s[i] = Space
         /\ Trailing(s) < Len(s) => s[Len(s) - Trailing(s)] # Space
<1> DEFINE P == {i \in DOMAIN s : \A k \in i .. Len(s) : s[k] = Space}
<1>1. PICK n \in Nat : n = Len(s) /\ DOMAIN s = 1 .. n
  OBVIOUS
<1>2. P \in SUBSET (1 .. n) /\ \A i \in P : i .. n \subseteq P
  BY <1>1
<1>3. PICK c \in 0 .. n : c = Cardinality(P) /\ P = n - c + 1 .. n
  BY <1>2, Suffix
<1>4. Trailing(s) = c
  BY <1>3 DEF Trailing
<1>5. ASSUME NEW i \in n - c + 1 .. n PROVE s[i] = Space
  <2>1. i \in P
    BY <1>3
  <2>2. i \in i .. Len(s)
    BY <1>1, <2>1
  <2> QED
    BY <2>1, <2>2
<1>6. ASSUME c < n, s[n - c] = Space PROVE FALSE
  <2>1. n - c \in 1 .. n /\ \A k \in n - c .. n : s[k] = Space
    BY <1>5, <1>6
  <2>2. n - c \in P
    BY <1>1, <2>1
  <2>3. n - c \in n - c + 1 .. n
    BY <1>3, <2>2
  <2> QED
    BY <2>3
<1> QED
  BY <1>1, <1>4, <1>5, <1>6

LEMMA TrimmedIs ==
  ASSUME NEW s \in Seq(Characters)
  PROVE  Leading(s) \in Nat /\ \E n \in Nat : Within(s, Trimmed(s), Leading(s), n)
<1>1. PICK l, c, t \in Nat : /\ l = Len(s) /\ c = Leading(s) /\ t = Trailing(s) /\ c <= l /\ t <= l
                            /\ DOMAIN s = 1 .. l
  BY LeadingIs, TrailingIs
<1>2. /\ \A i \in 1 .. c : s[i] = Space
      /\ c < l => s[c + 1] # Space
      /\ \A i \in l - t + 1 .. l : s[i] = Space
  BY <1>1, LeadingIs, TrailingIs
<1>3. Trimmed(s) = SubSeq(s, c + 1, l - t)
  BY <1>1 DEF Trimmed
<1>4. CASE c = l
  <2>0. t = l
    <3>1. ASSUME t < l PROVE FALSE
      <4>1. s[l - t] # Space /\ l - t \in 1 .. c
        BY <1>1, <1>4, <3>1, TrailingIs
      <4> QED
        BY <1>2, <4>1
    <3> QED
      BY <1>1, <3>1
  <2>1. Trimmed(s) = <<>>
    BY <1>1, <1>3, <1>4, <2>0
  <2>2. Within(s, Trimmed(s), c, 0)
    <3>1. \A i \in DOMAIN s : s[i] = Space
      BY <1>1, <1>2, <1>4
    <3>2. c + 0 <= Len(s)
      BY <1>1, <1>4
    <3> QED
      BY <2>1, <3>1, <3>2 DEF Within
  <2> QED
    BY <1>1, <2>2
<1>5. CASE c < l
  <2>1. ~ (c + 1 \in l - t + 1 .. l)
    BY <1>2, <1>5
  <2>2. c + 1 <= l - t
    BY <1>1, <1>5, <2>1
  <2>3. PICK n \in Nat : n = l - t - c
    BY <1>1, <2>2
  <2>4. c + 1 \in 1 .. Len(s) + 1 /\ l - t \in 0 .. Len(s) /\ c + 1 <= l - t + 1
    BY <1>1, <1>5, <2>2
  <2>5. /\ Trimmed(s) \in Seq(Characters) /\ Len(Trimmed(s)) = l - t - (c + 1) + 1
        /\ \A j \in 1 .. l - t - (c + 1) + 1 : Trimmed(s)[j] = s[c + 1 + j - 1]
    BY <1>3, <2>4, Cut
  <2>6. l - t - (c + 1) + 1 = n /\ \A j \in 1 .. n : c + 1 + j - 1 = c + j
    BY <1>1, <2>3
  <2>7. /\ Len(Trimmed(s)) = n /\ c + n <= Len(s)
        /\ \A j \in 1 .. n : Trimmed(s)[j] = s[c + j]
    <3>1. c + n <= l
      BY <1>1, <2>3
    <3>2. Len(Trimmed(s)) = n /\ \A j \in 1 .. n : Trimmed(s)[j] = s[c + 1 + j - 1]
      BY <2>5, <2>6
    <3>3. ASSUME NEW j \in 1 .. n PROVE Trimmed(s)[j] = s[c + j]
      BY <2>6, <3>2
    <3> QED
      BY <1>1, <3>1, <3>2, <3>3
  <2>8. ASSUME NEW i \in DOMAIN s, i <= c \/ i > c + n PROVE s[i] = Space
    <3>0. i \in Nat /\ i >= 1 /\ i <= l
      BY <1>1
    <3>1. i \in 1 .. c \/ i \in l - t + 1 .. l
      <4>1. CASE i <= c
        BY <3>0, <4>1
      <4>2. CASE i > c + n
        <5>1. c + n = l - t
          BY <1>1, <2>3
        <5> QED
          BY <1>1, <3>0, <4>2, <5>1
      <4> QED
        BY <2>8, <4>1, <4>2
    <3> QED
      BY <1>2, <3>1
  <2>9. Within(s, Trimmed(s), c, n)
    BY <2>5, <2>7, <2>8 DEF Within
  <2> QED
    BY <1>1, <2>9
<1> QED
  BY <1>1, <1>4, <1>5

-----------------------------------------------------------------------------
(* What is matched *)

(* A match by its place and its length; its text decides its length.         *)
LEMMA MatchIs ==
  ASSUME NEW s \in Seq(Characters)
  PROVE  /\ \A a, l \in Nat : MatchAt(s, a, l) => [start |-> a, len |-> l] \in Matches(s)
         /\ \A m \in Matches(s) :
              \E a, l \in Nat : m = [start |-> a, len |-> l] /\ MatchAt(s, a, l)
<1>1. PICK n \in Nat : n = Len(s)
  OBVIOUS
<1>2. ASSUME NEW a \in Nat, NEW l \in Nat, MatchAt(s, a, l)
      PROVE  [start |-> a, len |-> l] \in Matches(s)
  <2>1. l >= 2 /\ a + l <= n
    BY <1>1, <1>2 DEF MatchAt
  <2>2. a \in 0 .. n - 1 /\ l \in 2 .. n
    BY <2>1
  <2> QED
    BY <1>1, <1>2, <2>2 DEF MatchAt, Matches
<1>3. ASSUME NEW m \in Matches(s)
      PROVE  \E a, l \in Nat : m = [start |-> a, len |-> l] /\ MatchAt(s, a, l)
  <2>1. PICK a \in 0 .. n - 1, l \in 2 .. n : m = [start |-> a, len |-> l]
    BY <1>1 DEF Matches
  <2>4. m.start = a /\ m.len = l
    BY <2>1
  <2>5. /\ m.start + m.len <= Len(s) /\ s[m.start + 1] = "@"
        /\ \A k \in 2 .. m.len : s[m.start + k] \in Word
        /\ m.start + m.len = Len(s) \/ s[m.start + m.len + 1] \notin Word
    BY DEF Matches
  <2>6. l >= 2
    OBVIOUS
  <2>2. MatchAt(s, a, l)
    BY <2>4, <2>5, <2>6 DEF MatchAt
  <2>3. a \in Nat /\ l \in Nat
    OBVIOUS
  <2> QED
    BY <2>1, <2>2, <2>3
<1> QED
  BY <1>2, <1>3

(* Two matches of a text are one or stand apart. *)
LEMMA MatchesApart ==
  ASSUME NEW s \in Seq(Characters), NEW m \in Matches(s), NEW n \in Matches(s)
  PROVE  m = n \/ m.start + m.len <= n.start \/ n.start + n.len <= m.start
<1>1. "@" \notin Word
  BY DEF Word
<1>2. ASSUME NEW a \in Nat, NEW l \in Nat, NEW b \in Nat, NEW k \in Nat,
             MatchAt(s, a, l), MatchAt(s, b, k), a < b, b < a + l
      PROVE  FALSE
  <2>1. PICK i \in 2 .. l : a + i = b + 1
    <3>1. b + 1 - a \in 2 .. l /\ a + (b + 1 - a) = b + 1
      BY <1>2
    <3> QED
      BY <3>1
  <2>2. s[a + i] \in Word /\ s[b + 1] = "@"
    BY <1>2 DEF MatchAt
  <2> QED
    BY <1>1, <2>1, <2>2
<1>3. ASSUME NEW a \in Nat, NEW l \in Nat, NEW k \in Nat,
             MatchAt(s, a, l), MatchAt(s, a, k), l < k
      PROVE  FALSE
  <2>1. PICK n0 \in Nat : n0 = Len(s) /\ a + k <= n0 /\ l >= 2
    BY <1>3 DEF MatchAt
  <2>2. l + 1 \in 2 .. k /\ a + l # n0 /\ a + (l + 1) = a + l + 1
    BY <1>3, <2>1
  <2>3. s[a + (l + 1)] \in Word /\ s[a + l + 1] \notin Word
    BY <1>3, <2>1, <2>2 DEF MatchAt
  <2> QED
    BY <2>2, <2>3
<1>4. PICK a, l \in Nat : m = [start |-> a, len |-> l] /\ MatchAt(s, a, l)
  BY MatchIs
<1>5. PICK b, k \in Nat : n = [start |-> b, len |-> k] /\ MatchAt(s, b, k)
  BY MatchIs
<1>6. \/ a = b /\ l = k
      \/ a + l <= b
      \/ b + k <= a
  <2>1. CASE a = b
    <3>1. ~ (l < k) /\ ~ (k < l)
      BY <1>3, <1>4, <1>5, <2>1
    <3> QED
      BY <2>1, <3>1
  <2>2. CASE a < b
    <3>1. ~ (b < a + l)
      BY <1>2, <1>4, <1>5, <2>2
    <3> QED
      BY <3>1
  <2>3. CASE b < a
    <3>1. ~ (a < b + k)
      BY <1>2, <1>4, <1>5, <2>3
    <3> QED
      BY <3>1
  <2> QED
    BY <2>1, <2>2, <2>3
<1> QED
  BY <1>4, <1>5, <1>6

(* The names differ, in any case of their letters. *)
LEMMA NamesDiffer ==
  ASSUME NEW u \in MentionUsers, NEW v \in MentionUsers, Lower(Handle(u)) = Lower(Handle(v))
  PROVE  u = v
<1>1. Handle("u1") = <<"@">> \o <<"a">> /\ Handle("u2") = <<"@">> \o <<"a", "a">>
  BY DEF Handle, Name
<1>2. DOMAIN Handle("u1") = 1 .. 2 /\ DOMAIN Handle("u2") = 1 .. 3
  BY <1>1
<1>3. \A x : DOMAIN Lower(x) = DOMAIN x
  BY DEF Lower
<1>4. 3 \in 1 .. 3 /\ 3 \notin 1 .. 2
  OBVIOUS
<1>5. DOMAIN Handle(u) = DOMAIN Handle(v)
  BY <1>3
<1> QED
  BY <1>2, <1>4, <1>5 DEF MentionUsers

(* A match of the text that is sent is one of the text, and all of them are. *)
LEMMA MatchesOf ==
  ASSUME NEW s \in Seq(Characters), NEW w, NEW c \in Nat, NEW n \in Nat, Within(s, w, c, n)
  PROVE  /\ \A a, l \in Nat : MatchAt(w, a, l) => MatchAt(s, a + c, l)
         /\ \A a, l \in Nat : MatchAt(s, a, l) => a >= c /\ MatchAt(w, a - c, l)
<1>1. PICK z \in Nat : z = Len(s) /\ c + n <= z /\ DOMAIN s = 1 .. z
  BY DEF Within
<1>2. /\ w \in Seq(Characters) /\ Len(w) = n
      /\ \A i \in 1 .. n : w[i] = s[c + i]
      /\ \A i \in 1 .. z : i <= c \/ i > c + n => s[i] = Space
  BY <1>1 DEF Within
<1>3. Space \notin Word /\ Space # "@"
  BY DEF Word, Space
<1>4. ASSUME NEW a \in Nat, NEW l \in Nat, MatchAt(w, a, l) PROVE MatchAt(s, a + c, l)
  <2>1. l >= 2 /\ a + l <= n
    BY <1>2, <1>4 DEF MatchAt
  <2>2. \A i \in 1 .. l : a + i \in 1 .. n /\ c + (a + i) = (a + c) + i
    BY <2>1
  <2>3. \A i \in 1 .. l : w[a + i] = s[(a + c) + i]
    BY <1>2, <2>2
  <2>4. 1 \in 1 .. l /\ \A k \in 2 .. l : k \in 1 .. l
    BY <2>1
  <2>5. s[(a + c) + 1] = "@" /\ \A k \in 2 .. l : s[(a + c) + k] \in Word
    BY <1>4, <2>3, <2>4 DEF MatchAt
  <2>6. (a + c) + l = z \/ s[(a + c) + l + 1] \notin Word
    <3>1. CASE a + l = n
      <4>1. (a + c) + l = c + n /\ (c + n = z \/ c + n + 1 \in 1 .. z)
        BY <1>1, <3>1
      <4>2. c + n + 1 > c + n
        OBVIOUS
      <4>3. c + n + 1 \in 1 .. z => s[c + n + 1] = Space
        BY <1>2, <4>2
      <4> QED
        BY <1>3, <4>1, <4>3
    <3>2. CASE a + l # n
      <4>1. a + l + 1 \in 1 .. n /\ c + (a + l + 1) = (a + c) + l + 1
        BY <2>1, <3>2
      <4>2. w[a + l + 1] \notin Word
        BY <1>2, <1>4, <3>2 DEF MatchAt
      <4> QED
        BY <1>2, <4>1, <4>2
    <3> QED
      BY <3>1, <3>2
  <2>7. (a + c) + l <= z
    BY <1>1, <2>1
  <2> QED
    BY <1>1, <2>1, <2>5, <2>6, <2>7 DEF MatchAt
<1>5. ASSUME NEW a \in Nat, NEW l \in Nat, MatchAt(s, a, l) PROVE a >= c /\ MatchAt(w, a - c, l)
  <2>1. l >= 2 /\ a + l <= z
    BY <1>1, <1>5 DEF MatchAt
  <2>2. s[a + 1] = "@" /\ s[a + l] \in Word
    <3>1. l \in 2 .. l
      BY <2>1
    <3> QED
      BY <1>5, <3>1 DEF MatchAt
  <2>3. a + 1 \in 1 .. z /\ a + l \in 1 .. z
    BY <2>1
  <2>4. ~ (a + 1 <= c) /\ ~ (a + l > c + n)
    BY <1>2, <1>3, <2>2, <2>3
  <2>5. PICK b \in Nat : b = a - c /\ a = b + c /\ b + l <= n
    <3>1. a - c \in Nat /\ a = (a - c) + c /\ (a - c) + l <= n
      BY <2>4
    <3> QED
      BY <3>1
  <2>6. \A i \in 1 .. l : b + i \in 1 .. n /\ c + (b + i) = a + i
    BY <2>5
  <2>7. \A i \in 1 .. l : w[b + i] = s[a + i]
    BY <1>2, <2>6
  <2>8. 1 \in 1 .. l /\ \A k \in 2 .. l : k \in 1 .. l
    BY <2>1
  <2>9. w[b + 1] = "@" /\ \A k \in 2 .. l : w[b + k] \in Word
    BY <1>5, <2>7, <2>8 DEF MatchAt
  <2>10. ASSUME b + l # n PROVE w[b + l + 1] \notin Word
    <3>1. b + l + 1 \in 1 .. n /\ c + (b + l + 1) = a + l + 1 /\ a + l # z
      BY <1>1, <2>5, <2>10
    <3>2. s[a + l + 1] \notin Word
      BY <1>1, <1>5, <3>1 DEF MatchAt
    <3>3. w[b + l + 1] = s[c + (b + l + 1)]
      BY <1>2, <3>1
    <3> QED
      BY <3>1, <3>2, <3>3
  <2>11. MatchAt(w, b, l)
    BY <1>2, <2>1, <2>5, <2>9, <2>10 DEF MatchAt
  <2> QED
    BY <2>4, <2>5, <2>11
<1> QED
  BY <1>4, <1>5

(* The mentions of a text: derived, with the names as they are and           *)
(* delimited, and computed, whatever the case of their letters.              *)
LEMMA DerivedAre ==
  ASSUME NEW s \in Seq(Characters), NEW users
  PROVE  /\ \A u \in users : \A a, l \in Nat :
              Derived(s, u, a, l) => Mentioned(u, a, l) \in DeriveMentions(s, users)
         /\ \A x \in DeriveMentions(s, users) : \E u \in users : \E a, l \in Nat :
              x = Mentioned(u, a, l) /\ Derived(s, u, a, l)
<1>1. ASSUME NEW u \in users, NEW a \in Nat, NEW l \in Nat, Derived(s, u, a, l)
      PROVE  Mentioned(u, a, l) \in DeriveMentions(s, users)
  <2>1. PICK m : m = [start |-> a, len |-> l]
    OBVIOUS
  <2>2. m \in Matches(s) /\ m.start = a /\ m.len = l
    BY <1>1, <2>1, MatchIs DEF Derived
  <2>3. Delimited(s, m.start) /\ Slice(s, m) = Handle(u)
    BY <1>1, <2>2 DEF Derived, Slice
  <2>6. PICK y : y = <<u, m>>
    OBVIOUS
  <2>4. y \in users \X Matches(s) /\ y[1] = u /\ y[2] = m
    BY <2>2, <2>6
  <2>5. Of(y[1], y[2]) \in DeriveMentions(s, users)
    BY <2>3, <2>4 DEF DeriveMentions
  <2> QED
    BY <2>2, <2>4, <2>5 DEF Of, Mentioned
<1>2. ASSUME NEW x \in DeriveMentions(s, users)
      PROVE  \E u \in users : \E a, l \in Nat : x = Mentioned(u, a, l) /\ Derived(s, u, a, l)
  <2>1. PICK y \in users \X Matches(s) :
          /\ x = Of(y[1], y[2]) /\ Delimited(s, y[2].start) /\ Slice(s, y[2]) = Handle(y[1])
    BY DEF DeriveMentions
  <2>2. PICK u \in users, m \in Matches(s) :
          x = Of(u, m) /\ Delimited(s, m.start) /\ Slice(s, m) = Handle(u)
    BY <2>1
  <2>3. PICK a, l \in Nat : m = [start |-> a, len |-> l] /\ MatchAt(s, a, l)
    BY MatchIs
  <2>4. m.start = a /\ m.len = l
    BY <2>3
  <2>5. x = Mentioned(u, a, l) /\ Derived(s, u, a, l)
    BY <2>2, <2>3, <2>4 DEF Mentioned, Of, Derived, Slice
  <2> QED
    BY <2>5
<1> QED
  BY <1>1, <1>2

LEMMA ComputedAre ==
  ASSUME NEW s \in Seq(Characters)
  PROVE  /\ \A x \in ComputeMentions(s) : \E u \in recorded : \E a, l \in Nat :
              /\ x = Mentioned(u, a, l) /\ MatchAt(s, a, l)
              /\ Lower(Slice(s, x)) = Lower(Handle(u))
         /\ DeriveMentions(s, recorded) \subseteq ComputeMentions(s)
<1>1. ASSUME NEW x \in ComputeMentions(s)
      PROVE  \E u \in recorded : \E a, l \in Nat :
               /\ x = Mentioned(u, a, l) /\ MatchAt(s, a, l)
               /\ Lower(Slice(s, x)) = Lower(Handle(u))
  <2>1. PICK y \in recorded \X Matches(s) :
          x = Of(y[1], y[2]) /\ Lower(Slice(s, y[2])) = Lower(Handle(y[1]))
    BY DEF ComputeMentions
  <2>2. PICK u \in recorded, m \in Matches(s) :
          x = Of(u, m) /\ Lower(Slice(s, m)) = Lower(Handle(u))
    BY <2>1
  <2>3. PICK a, l \in Nat : m = [start |-> a, len |-> l] /\ MatchAt(s, a, l)
    BY MatchIs
  <2>4. m.start = a /\ m.len = l
    BY <2>3
  <2>5. x = Mentioned(u, a, l) /\ x.start = a /\ x.len = l
    BY <2>2, <2>4 DEF Mentioned, Of
  <2>6. Slice(s, x) = Slice(s, m)
    BY <2>4, <2>5 DEF Slice
  <2> QED
    BY <2>2, <2>3, <2>5, <2>6
<1>2. ASSUME NEW x \in DeriveMentions(s, recorded) PROVE x \in ComputeMentions(s)
  <2>1. PICK y \in recorded \X Matches(s) : x = Of(y[1], y[2]) /\ Slice(s, y[2]) = Handle(y[1])
    BY DEF DeriveMentions
  <2>2. Lower(Slice(s, y[2])) = Lower(Handle(y[1]))
    BY <2>1
  <2> QED
    BY <2>1, <2>2 DEF ComputeMentions
<1> QED
  BY <1>1, <1>2

(* Sequences with the same elements are the same. *)
LEMMA Same ==
  ASSUME NEW S, NEW a \in Seq(S), NEW b \in Seq(S), NEW n \in Nat, Len(a) = n, Len(b) = n,
         \A i \in 1 .. n : a[i] = b[i]
  PROVE  a = b
OBVIOUS

(* l elements of a sequence, after the first a. *)
LEMMA Part ==
  ASSUME NEW S, NEW s \in Seq(S), NEW a \in Nat, NEW l \in Nat, a + l <= Len(s)
  PROVE  /\ SubSeq(s, a + 1, a + l) \in Seq(S) /\ Len(SubSeq(s, a + 1, a + l)) = l
         /\ \A j \in 1 .. l : SubSeq(s, a + 1, a + l)[j] = s[a + j]
<1>1. a + 1 \in 1 .. Len(s) + 1 /\ a + l \in 0 .. Len(s) /\ a + 1 <= a + l + 1
  OBVIOUS
<1>2. a + l - (a + 1) + 1 = l /\ \A j \in 1 .. l : a + 1 + j - 1 = a + j
  OBVIOUS
<1>3. /\ SubSeq(s, a + 1, a + l) \in Seq(S) /\ Len(SubSeq(s, a + 1, a + l)) = a + l - (a + 1) + 1
      /\ \A j \in 1 .. a + l - (a + 1) + 1 : SubSeq(s, a + 1, a + l)[j] = s[a + 1 + j - 1]
  BY <1>1, Cut
<1> QED
  BY <1>2, <1>3

(* The delimited names of the text that is sent are those of the text.       *)
LEMMA DerivedOf ==
  ASSUME NEW s \in Seq(Characters), NEW w, NEW c \in Nat, NEW n \in Nat, Within(s, w, c, n),
         NEW u, NEW a \in Nat, NEW l \in Nat
  PROVE  /\ Derived(w, u, a, l) => Derived(s, u, a + c, l)
         /\ Derived(s, u, a, l) => a >= c /\ Derived(w, u, a - c, l)
<1>1. PICK z \in Nat : z = Len(s) /\ c + n <= z /\ DOMAIN s = 1 .. z
  BY DEF Within
<1>2. /\ w \in Seq(Characters) /\ Len(w) = n
      /\ \A i \in 1 .. n : w[i] = s[c + i]
      /\ \A i \in 1 .. z : i <= c \/ i > c + n => s[i] = Space
  BY <1>1 DEF Within
<1>3. ASSUME NEW b \in Nat, MatchAt(w, b, l)
      PROVE  /\ Delimited(w, b) <=> Delimited(s, b + c)
             /\ SubSeq(w, b + 1, b + l) = SubSeq(s, (b + c) + 1, (b + c) + l)
  <2>1. l >= 2 /\ b + l <= n
    BY <1>2, <1>3 DEF MatchAt
  <2>2. Delimited(w, b) <=> Delimited(s, b + c)
    <3>1. CASE b = 0
      <4>1. c = 0 \/ s[c] = Space
        <5>1. ASSUME c # 0 PROVE c \in 1 .. z /\ c <= c
          BY <1>1, <5>1
        <5> QED
          BY <1>2, <5>1
      <4>2. Space \notin Word
        BY DEF Space, Word
      <4>3. b + c = c
        BY <3>1
      <4> QED
        BY <3>1, <4>1, <4>2, <4>3 DEF Delimited
    <3>2. CASE b # 0
      <4>1. b \in 1 .. n /\ c + b = b + c /\ b + c # 0
        BY <2>1, <3>2
      <4>2. w[b] = s[b + c]
        BY <1>2, <4>1
      <4> QED
        BY <3>2, <4>1, <4>2 DEF Delimited
    <3> QED
      BY <3>1, <3>2
  <2>3. PICK x, y : x = SubSeq(w, b + 1, b + l) /\ y = SubSeq(s, (b + c) + 1, (b + c) + l)
    OBVIOUS
  <2>4. /\ x \in Seq(Characters) /\ Len(x) = l /\ \A j \in 1 .. l : x[j] = w[b + j]
    <3>1. b + l <= Len(w)
      BY <1>2, <2>1
    <3>2. /\ SubSeq(w, b + 1, b + l) \in Seq(Characters) /\ Len(SubSeq(w, b + 1, b + l)) = l
          /\ \A j \in 1 .. l : SubSeq(w, b + 1, b + l)[j] = w[b + j]
      BY <1>2, <3>1, Part
    <3> QED
      BY <2>3, <3>2
  <2>5. /\ y \in Seq(Characters) /\ Len(y) = l /\ \A j \in 1 .. l : y[j] = s[(b + c) + j]
    <3>1. PICK d \in Nat : d = b + c
      OBVIOUS
    <3>2. d + l <= Len(s)
      BY <1>1, <2>1, <3>1
    <3>3. /\ SubSeq(s, d + 1, d + l) \in Seq(Characters) /\ Len(SubSeq(s, d + 1, d + l)) = l
          /\ \A j \in 1 .. l : SubSeq(s, d + 1, d + l)[j] = s[d + j]
      BY <3>2, Part
    <3> QED
      BY <2>3, <3>1, <3>3
  <2>6. ASSUME NEW j \in 1 .. l PROVE x[j] = y[j]
    <3>1. b + j \in 1 .. n /\ c + (b + j) = (b + c) + j
      BY <2>1
    <3> QED
      BY <1>2, <2>4, <2>5, <3>1
  <2>7. x = y
    BY <2>4, <2>5, <2>6, Same
  <2> QED
    BY <2>2, <2>3, <2>7
<1>4. Derived(w, u, a, l) => Derived(s, u, a + c, l)
  BY <1>3, MatchesOf DEF Derived
<1>5. ASSUME Derived(s, u, a, l) PROVE a >= c /\ Derived(w, u, a - c, l)
  <2>1. a >= c /\ MatchAt(w, a - c, l)
    BY <1>5, MatchesOf DEF Derived
  <2>2. PICK b \in Nat : b = a - c /\ b + c = a
    BY <2>1
  <2> QED
    BY <1>3, <1>5, <2>1, <2>2 DEF Derived
<1> QED
  BY <1>4, <1>5

-----------------------------------------------------------------------------
(* What is sent *)

(* What is sent are mentions of the text that is sent. *)
LEMMA WebMentionsAre ==
  ASSUME MentionsInv, field = "web",
         NEW w, NEW c \in Nat, NEW n \in Nat, Within(text, w, c, n), Leading(text) = c
  PROVE  WebMentions(w) = DeriveMentions(w, recorded)
<1>1. text \in Seq(Characters) /\ mentions = DeriveMentions(text, recorded)
  BY DEF MentionsInv
<1>2. w \in Seq(Characters) /\ Len(w) = n
  BY DEF Within
<1>3. ASSUME NEW x \in DeriveMentions(w, recorded) PROVE x \in WebMentions(w)
  <2>1. PICK u \in recorded : \E a, l \in Nat : x = Mentioned(u, a, l) /\ Derived(w, u, a, l)
    BY <1>2, DerivedAre
  <2>2. PICK a, l \in Nat : x = Mentioned(u, a, l) /\ Derived(w, u, a, l)
    BY <2>1
  <2>3. PICK b \in Nat : b = a + c /\ b - c = a
    OBVIOUS
  <2>4. Derived(text, u, b, l)
    BY <1>1, <2>2, <2>3, DerivedOf
  <2>5. PICK m \in mentions : m = Mentioned(u, b, l)
    BY <1>1, <2>4, DerivedAre
  <2>6. [m EXCEPT !.start = @ - c] = x
    BY <2>2, <2>3, <2>5 DEF Mentioned
  <2>7. x \in Shifted(mentions, Leading(text))
    BY <2>5, <2>6 DEF Shifted
  <2>8. x.start = a /\ x.len = l /\ a >= 0 /\ a + l <= Len(w)
    BY <2>2 DEF Mentioned, Derived, MatchAt
  <2> QED
    BY <2>7, <2>8 DEF WebMentions
<1>4. ASSUME NEW x \in WebMentions(w) PROVE x \in DeriveMentions(w, recorded)
  <2>1. PICK m \in mentions : x = [m EXCEPT !.start = @ - c]
    BY DEF WebMentions, Shifted
  <2>2. PICK u \in recorded : \E a, l \in Nat : m = Mentioned(u, a, l) /\ Derived(text, u, a, l)
    BY <1>1, DerivedAre
  <2>3. PICK a, l \in Nat : m = Mentioned(u, a, l) /\ Derived(text, u, a, l)
    BY <2>2
  <2>4. a >= c /\ Derived(w, u, a - c, l)
    BY <1>1, <2>3, DerivedOf
  <2>5. PICK b \in Nat : b = a - c
    BY <2>4
  <2>6. x = Mentioned(u, b, l)
    BY <2>1, <2>3, <2>5 DEF Mentioned
  <2> QED
    BY <1>2, <2>4, <2>5, <2>6, DerivedAre
<1> QED
  BY <1>3, <1>4

LEMMA Placed ==
  ASSUME MentionsInv
  PROVE  MentionsPlaced
<1>1. /\ text \in Seq(Characters) /\ recorded \subseteq MentionUsers /\ field \in {"mobile", "web"}
      /\ chosen \subseteq {m.user : m \in DeriveMentions(text, recorded)}
  BY DEF MentionsInv
<1>2. PICK w : w = Trimmed(text)
  OBVIOUS
<1>3. PICK c \in Nat : c = Leading(text) /\ \E n \in Nat : Within(text, w, c, n)
  BY <1>1, <1>2, TrimmedIs
<1>4. PICK n \in Nat : Within(text, w, c, n)
  BY <1>3
<1>5. w \in Seq(Characters)
  BY <1>4 DEF Within
<1>6. PICK ms : ms = Submission.mentions
  OBVIOUS
<1>7. /\ Submission.text = w
      /\ ms = IF field = "web" THEN WebMentions(w) ELSE ComputeMentions(w)
  BY <1>2, <1>6 DEF Submission
<1>8. field = "web" => ms = DeriveMentions(w, recorded)
  BY <1>3, <1>4, <1>7, WebMentionsAre
<1>9. DeriveMentions(w, recorded) \subseteq ms /\ ms \subseteq ComputeMentions(w)
  BY <1>1, <1>5, <1>7, <1>8, ComputedAre
<1>10. ASSUME NEW m \in ms
       PROVE  InText(m, w) /\ Lower(Slice(w, m)) = Lower(Handle(m.user))
  <2>1. PICK u \in recorded : \E a, l \in Nat :
          /\ m = Mentioned(u, a, l) /\ MatchAt(w, a, l)
          /\ Lower(Slice(w, m)) = Lower(Handle(u))
    BY <1>5, <1>9, ComputedAre
  <2>2. PICK a, l \in Nat : m = Mentioned(u, a, l) /\ MatchAt(w, a, l)
    BY <2>1
  <2>3. m.start = a /\ m.len = l /\ m.user = u /\ a >= 0 /\ l > 0 /\ a + l <= Len(w)
    BY <2>2 DEF Mentioned, MatchAt
  <2> QED
    BY <2>1, <2>3 DEF InText
<1>11. ASSUME NEW m \in ms, NEW k \in ms
       PROVE  m = k \/ m.start + m.len <= k.start \/ k.start + k.len <= m.start
  <2>1. PICK u \in recorded : \E a, l \in Nat :
          /\ m = Mentioned(u, a, l) /\ MatchAt(w, a, l)
          /\ Lower(Slice(w, m)) = Lower(Handle(u))
    BY <1>5, <1>9, ComputedAre
  <2>2. PICK a, l \in Nat : m = Mentioned(u, a, l) /\ MatchAt(w, a, l)
    BY <2>1
  <2>3. PICK v \in recorded : \E b, j \in Nat :
          /\ k = Mentioned(v, b, j) /\ MatchAt(w, b, j)
          /\ Lower(Slice(w, k)) = Lower(Handle(v))
    BY <1>5, <1>9, ComputedAre
  <2>4. PICK b, j \in Nat : k = Mentioned(v, b, j) /\ MatchAt(w, b, j)
    BY <2>3
  <2>5. m.start = a /\ m.len = l /\ k.start = b /\ k.len = j
    BY <2>2, <2>4 DEF Mentioned
  <2>6. PICK x, y \in Matches(w) : x = [start |-> a, len |-> l] /\ y = [start |-> b, len |-> j]
    BY <1>5, <2>2, <2>4, MatchIs
  <2>7. x = y \/ x.start + x.len <= y.start \/ y.start + y.len <= x.start
    BY <1>5, MatchesApart
  <2>8. x.start = a /\ x.len = l /\ y.start = b /\ y.len = j
    BY <2>6
  <2>9. ASSUME a = b, l = j PROVE m = k
    <3>1. Slice(w, m) = Slice(w, k)
      BY <2>5, <2>9 DEF Slice
    <3>2. u = v
      BY <1>1, <2>1, <2>3, <3>1, NamesDiffer
    <3> QED
      BY <2>2, <2>4, <2>9, <3>2
  <2> QED
    BY <2>5, <2>7, <2>8, <2>9
<1>12. chosen \subseteq {m.user : m \in ms}
  <2>1. ASSUME NEW u \in chosen PROVE \E m \in ms : m.user = u
    <3>1. PICK m \in DeriveMentions(text, recorded) : m.user = u
      BY <1>1
    <3>2. PICK v \in recorded : \E a, l \in Nat : m = Mentioned(v, a, l) /\ Derived(text, v, a, l)
      BY <1>1, DerivedAre
    <3>3. PICK a, l \in Nat : m = Mentioned(v, a, l) /\ Derived(text, v, a, l)
      BY <3>2
    <3>4. a >= c /\ Derived(w, v, a - c, l)
      BY <1>1, <1>4, <3>3, DerivedOf
    <3>5. PICK b \in Nat : b = a - c
      BY <3>4
    <3>6. PICK k : k = Mentioned(v, b, l)
      OBVIOUS
    <3>7. k \in DeriveMentions(w, recorded)
      BY <1>5, <3>4, <3>5, <3>6, DerivedAre
    <3>8. k.user = v /\ m.user = v
      BY <3>3, <3>6 DEF Mentioned
    <3> QED
      BY <1>9, <3>1, <3>7, <3>8
  <2> QED
    BY <2>1
<1> QED
  BY <1>6, <1>7, <1>8, <1>9, <1>10, <1>11, <1>12 DEF MentionsPlaced

-----------------------------------------------------------------------------
(* A user is chosen *)

(* The name that is put in is one of the text, whatever stands around it.    *)
LEMMA HandleIs ==
  ASSUME NEW u \in MentionUsers
  PROVE  /\ Handle(u) \in Seq(Characters) /\ Len(Handle(u)) \in Nat /\ Len(Handle(u)) >= 2
         /\ Handle(u)[1] = "@" /\ \A k \in 2 .. Len(Handle(u)) : Handle(u)[k] \in Word
<1>1. PICK b : b = Name[u] /\ b \in Seq(Word) /\ Len(b) \in Nat \ {0}
  <2>1. Name["u1"] = <<"a">> /\ Name["u2"] = <<"a", "a">>
    BY DEF Name
  <2>2. PICK x \in Word : x = "a"
    BY DEF Word
  <2>3. <<x>> \in Seq(Word) /\ Len(<<x>>) = 1 /\ <<x, x>> \in Seq(Word) /\ Len(<<x, x>>) = 2
    OBVIOUS
  <2>4. u = "u1" \/ u = "u2"
    BY DEF MentionUsers
  <2>5. Name[u] = <<x>> \/ Name[u] = <<x, x>>
    BY <2>1, <2>2, <2>4
  <2>6. Name[u] \in Seq(Word) /\ (Len(Name[u]) = 1 \/ Len(Name[u]) = 2)
    BY <2>3, <2>5
  <2>7. Len(Name[u]) \in Nat \ {0}
    BY <2>6
  <2> QED
    BY <2>6, <2>7
<1>2. PICK a : a = <<"@">> /\ a \in Seq(Characters) /\ Len(a) = 1 /\ a[1] = "@"
  <2>1. PICK x \in Characters : x = "@"
    BY DEF Characters
  <2>2. <<x>> \in Seq(Characters) /\ Len(<<x>>) = 1 /\ <<x>>[1] = x
    OBVIOUS
  <2> QED
    BY <2>1, <2>2
<1>3. b \in Seq(Characters)
  BY <1>1 DEF Characters
<1>4. PICK h : h = Handle(u) /\ JoinOf(Characters, a, b, h)
  BY <1>1, <1>2, <1>3, Joined DEF Handle
<1>5. /\ h \in Seq(Characters) /\ Len(h) = 1 + Len(b) /\ h[1] = a[1]
      /\ \A k \in 1 .. Len(b) : h[1 + k] = b[k]
  BY <1>2, <1>4 DEF JoinOf
<1>6. ASSUME NEW k \in 2 .. Len(h) PROVE h[k] \in Word
  <2>1. PICK i \in 1 .. Len(b) : 1 + i = k
    <3>1. k - 1 \in 1 .. Len(b) /\ 1 + (k - 1) = k
      BY <1>1, <1>5
    <3> QED
      BY <3>1
  <2>2. b[i] \in Word
    BY <1>1
  <2> QED
    BY <1>5, <2>1, <2>2
<1>7. Len(h) \in Nat /\ Len(h) >= 2
  BY <1>1, <1>5
<1> QED
  BY <1>2, <1>4, <1>5, <1>6, <1>7

LEMMA PutName ==
  ASSUME NEW before \in Seq(Characters), NEW after \in Seq(Characters), NEW u \in MentionUsers,
         Delimited(before, Len(before))
  PROVE  LET head == before \o Handle(u) \o Separator(after) IN
         /\ head \in Seq(Characters) /\ head \o after \in Seq(Characters)
         /\ Derived(head \o after, u, Len(before), Len(Handle(u)))
<1>1. PICK h : h = Handle(u) /\ h \in Seq(Characters) /\ Len(h) \in Nat /\ Len(h) >= 2
               /\ h[1] = "@" /\ \A k \in 2 .. Len(h) : h[k] \in Word
  BY HandleIs
<1>2. PICK pos, l \in Nat : pos = Len(before) /\ l = Len(h)
  BY <1>1
<1>3. PICK p : p = Separator(after) /\ p \in Seq(Characters)
               /\ (p = <<Space>> \/ (p = <<>> /\ (after = <<>> \/ Head(after) = Space)))
  <2>1. <<Space>> \in Seq(Characters) /\ <<>> \in Seq(Characters)
    BY DEF Characters
  <2>2. CASE field = "web" \/ ~ (after = <<>> \/ Head(after) = Space)
    <3>1. Separator(after) = <<Space>>
      BY <2>2 DEF Separator
    <3> QED
      BY <2>1, <3>1
  <2>3. CASE ~ (field = "web" \/ ~ (after = <<>> \/ Head(after) = Space))
    <3>1. Separator(after) = <<>> /\ (after = <<>> \/ Head(after) = Space)
      BY <2>3 DEF Separator
    <3> QED
      BY <2>1, <3>1
  <2> QED
    BY <2>2, <2>3
<1>4. PICK d : d = before \o h /\ JoinOf(Characters, before, h, d)
  BY <1>1, Joined
<1>5. d \in Seq(Characters) /\ Len(d) = pos + l
      /\ (\A k \in 1 .. pos : d[k] = before[k]) /\ \A k \in 1 .. l : d[pos + k] = h[k]
  BY <1>2, <1>4 DEF JoinOf
<1>6. PICK e : e = d \o p /\ JoinOf(Characters, d, p, e)
  BY <1>3, <1>5, Joined
<1>7. PICK f : f = e \o after /\ JoinOf(Characters, e, after, f)
  <2>1. e \in Seq(Characters)
    BY <1>6 DEF JoinOf
  <2> QED
    BY <2>1, Joined
<1>8. PICK q, r \in Nat : q = Len(p) /\ r = Len(after)
  BY <1>3
<1>9. /\ e \in Seq(Characters) /\ Len(e) = pos + l + q /\ \A k \in 1 .. pos + l : e[k] = d[k]
      /\ \A k \in 1 .. q : e[pos + l + k] = p[k]
  BY <1>5, <1>6, <1>8 DEF JoinOf
<1>10. /\ f \in Seq(Characters) /\ Len(f) = pos + l + q + r
       /\ \A k \in 1 .. pos + l + q : f[k] = e[k]
       /\ \A k \in 1 .. r : f[pos + l + q + k] = after[k]
  BY <1>7, <1>8, <1>9 DEF JoinOf
<1>11. \A k \in 1 .. pos + l : k \in 1 .. pos + l + q
  OBVIOUS
<1>12. \A k \in 1 .. pos + l : f[k] = d[k]
  BY <1>9, <1>10, <1>11
<1>13. ASSUME NEW k \in 1 .. l PROVE f[pos + k] = h[k]
  <2>1. pos + k \in 1 .. pos + l
    OBVIOUS
  <2> QED
    BY <1>5, <1>12, <2>1
<1>14. pos + l = Len(f) \/ f[pos + l + 1] = Space
  <2>1. CASE p = <<Space>>
    <3>1. q = 1 /\ p[1] = Space /\ 1 \in 1 .. q /\ pos + l + 1 \in 1 .. pos + l + q
      BY <1>8, <2>1
    <3> QED
      BY <1>9, <1>10, <3>1
  <2>2. CASE p = <<>> /\ after = <<>>
    <3>1. q = 0 /\ r = 0
      BY <1>8, <2>2
    <3> QED
      BY <1>10, <3>1
  <2>3. CASE p = <<>> /\ after # <<>> /\ Head(after) = Space
    <3>1. q = 0 /\ r >= 1 /\ after[1] = Space
      BY <1>8, <2>3
    <3>2. 1 \in 1 .. r /\ pos + l + q + 1 = pos + l + 1
      BY <3>1
    <3> QED
      BY <1>10, <3>1, <3>2
  <2> QED
    BY <1>3, <2>1, <2>2, <2>3
<1>15. MatchAt(f, pos, l)
  <2>1. Space \notin Word
    BY DEF Word, Space
  <2>2. l >= 2 /\ pos + l <= Len(f) /\ 1 \in 1 .. l /\ \A k \in 2 .. l : k \in 1 .. l
    BY <1>1, <1>2, <1>10
  <2>3. f[pos + 1] = "@" /\ \A k \in 2 .. l : f[pos + k] \in Word
    BY <1>1, <1>2, <1>13, <2>2
  <2> QED
    BY <1>14, <2>1, <2>2, <2>3 DEF MatchAt
<1>16. Delimited(f, pos)
  <2>1. CASE pos # 0
    <3>1. pos \in 1 .. pos + l /\ pos \in 1 .. pos
      BY <2>1
    <3>2. f[pos] = before[pos]
      BY <1>5, <1>12, <3>1
    <3> QED
      BY <1>2, <3>2 DEF Delimited
  <2> QED
    BY <2>1 DEF Delimited
<1>17. SubSeq(f, pos + 1, pos + l) = h
  <2>1. pos + l <= Len(f)
    BY <1>10
  <2>2. PICK y : y = SubSeq(f, pos + 1, pos + l)
    OBVIOUS
  <2>3. y \in Seq(Characters) /\ Len(y) = l /\ \A j \in 1 .. l : y[j] = f[pos + j]
    <3>1. /\ SubSeq(f, pos + 1, pos + l) \in Seq(Characters)
          /\ Len(SubSeq(f, pos + 1, pos + l)) = l
          /\ \A j \in 1 .. l : SubSeq(f, pos + 1, pos + l)[j] = f[pos + j]
      BY <1>10, <2>1, Part
    <3> QED
      BY <2>2, <3>1
  <2>4. y = h
    BY <1>1, <1>2, <1>13, <2>3, Same
  <2> QED
    BY <2>2, <2>4
<1>18. Derived(f, u, pos, l)
  BY <1>1, <1>15, <1>16, <1>17 DEF Derived
<1> QED
  BY <1>1, <1>2, <1>3, <1>4, <1>6, <1>7, <1>9, <1>10, <1>18

-----------------------------------------------------------------------------
(* Steps of what is typed *)

LEMMA MentionsInitial == MentionsInit => MentionsInv
<1> SUFFICES ASSUME MentionsInit PROVE MentionsInv
  OBVIOUS
<1>1. text = <<>> /\ text \in Seq(Characters) /\ recorded = {}
  BY DEF MentionsInit
<1>2. DeriveMentions(text, recorded) = {}
  BY <1>1 DEF DeriveMentions
<1> QED
  BY <1>1, <1>2 DEF MentionsInit, MentionsInv

(* A text that is typed in has its own mentions on the web. *)
LEMMA ChangedKeeps ==
  ASSUME MentionsInv, NEW s \in Seq(Characters), NEW c \in Nat, Changed(s, c)
  PROVE  MentionsInv'
<1>1. /\ field \in {"mobile", "web"} /\ caret \in Nat \cup {NoCaret}
      /\ recorded \subseteq MentionUsers
      /\ text' = s /\ chosen' = {} /\ field' = field /\ recorded' = recorded
  BY DEF MentionsInv, Changed
<1>2. CASE field = "web"
  <2>1. /\ caret' = c /\ token' = ActiveToken(s, c) /\ mentions' = DeriveMentions(s, recorded)
    BY <1>2 DEF Changed
  <2>2. DeriveMentions(text, recorded)' = DeriveMentions(s, recorded)
    BY <1>1 DEF DeriveMentions
  <2>3. ActiveToken(text, caret)' = ActiveToken(s, c)
    BY <1>1, <2>1 DEF ActiveToken
  <2> QED
    BY <1>1, <2>1, <2>2, <2>3 DEF MentionsInv
<1>3. CASE field = "mobile"
  <2>1. caret' = caret
    BY <1>3 DEF Changed
  <2> QED
    BY <1>1, <1>3, <2>1 DEF MentionsInv
<1> QED
  BY <1>1, <1>2, <1>3

LEMMA ChooseKeeps ==
  ASSUME MentionsInv, NEW u \in MentionUsers, Choose(u)
  PROVE  MentionsInv'
<1>1. /\ field \in {"mobile", "web"} /\ text \in Seq(Characters) /\ recorded \subseteq MentionUsers
      /\ caret \in Nat \cup {NoCaret}
      /\ field = "web" => token \subseteq ActiveToken(text, caret)
  BY DEF MentionsInv
<1>2. PICK pos \in ActiveToken(text, caret) :
        LET before == SubSeq(text, 1, pos)
            after == SubSeq(text, caret + 1, Len(text))
            head == before \o Handle(u) \o Separator(after)
        IN /\ text' = head \o after /\ caret' = Len(head) /\ token' = {}
           /\ recorded' = recorded \cup {u}
           /\ mentions' = IF field = "web" THEN DeriveMentions(text', recorded') ELSE {}
           /\ chosen' = {u} /\ field' = field
  BY <1>1 DEF Choose
<1>3. PICK n \in Nat : n = Len(text)
  BY <1>1
<1>4. /\ pos \in Nat /\ caret \in Nat /\ pos < caret /\ caret <= n /\ Delimited(text, pos)
  BY <1>1, <1>3 DEF ActiveToken, NoCaret
<1>5. PICK before, after : /\ before = SubSeq(text, 1, pos)
                           /\ after = SubSeq(text, caret + 1, Len(text))
  OBVIOUS
<1>6. /\ before \in Seq(Characters) /\ Len(before) = pos /\ \A j \in 1 .. pos : before[j] = text[j]
  <2>1. 1 \in 1 .. Len(text) + 1 /\ pos \in 0 .. Len(text) /\ 1 <= pos + 1 /\ pos - 1 + 1 = pos
        /\ \A j \in 1 .. pos : 1 + j - 1 = j
    BY <1>3, <1>4
  <2>2. /\ before \in Seq(Characters) /\ Len(before) = pos - 1 + 1
        /\ \A j \in 1 .. pos - 1 + 1 : before[j] = text[1 + j - 1]
    BY <1>1, <1>5, <2>1, Cut
  <2> QED
    BY <2>1, <2>2
<1>7. after \in Seq(Characters)
  <2>1. /\ caret + 1 \in 1 .. Len(text) + 1 /\ Len(text) \in 0 .. Len(text)
        /\ caret + 1 <= Len(text) + 1
    BY <1>3, <1>4
  <2> QED
    BY <1>1, <1>5, <2>1, Cut
<1>8. Delimited(before, Len(before))
  <2>1. pos = 0 \/ pos \in 1 .. pos
    BY <1>4
  <2> QED
    BY <1>4, <1>6, <2>1 DEF Delimited
<1>9. PICK head : head = before \o Handle(u) \o Separator(after)
  OBVIOUS
<1>10. /\ head \in Seq(Characters) /\ head \o after \in Seq(Characters)
       /\ Derived(head \o after, u, pos, Len(Handle(u)))
  BY <1>6, <1>7, <1>8, <1>9, PutName
<1>11. /\ text' = head \o after /\ caret' = Len(head) /\ token' = {}
       /\ recorded' = recorded \cup {u}
       /\ mentions' = IF field = "web" THEN DeriveMentions(text', recorded') ELSE {}
       /\ chosen' = {u} /\ field' = field
  BY <1>2, <1>5, <1>9
<1>12. Len(Handle(u)) \in Nat /\ Len(head) \in Nat /\ recorded' \subseteq MentionUsers
  BY <1>1, <1>10, <1>11, HandleIs
<1>13. PICK s, users : s = text' /\ users = recorded' /\ u \in users /\ s \in Seq(Characters)
  BY <1>10, <1>11
<1>14. Mentioned(u, pos, Len(Handle(u))) \in DeriveMentions(s, users)
  BY <1>4, <1>10, <1>11, <1>12, <1>13, DerivedAre
<1>15. Mentioned(u, pos, Len(Handle(u))).user = u
  BY DEF Mentioned
<1>16. DeriveMentions(text, recorded)' = DeriveMentions(s, users)
  BY <1>13 DEF DeriveMentions
<1>17. chosen' \subseteq {m.user : m \in DeriveMentions(s, users)}
  BY <1>11, <1>14, <1>15
<1>18. field' = "web" => mentions' = DeriveMentions(s, users) /\ token' = {}
  BY <1>11, <1>13
<1> QED
  BY <1>1, <1>11, <1>12, <1>13, <1>16, <1>17, <1>18 DEF MentionsInv

LEMMA MentionsStep ==
  ASSUME MentionsInv, [MentionsNext]_mentionVars
  PROVE  MentionsInv'
<1>0. /\ field \in {"mobile", "web"} /\ text \in Seq(Characters) /\ recorded \subseteq MentionUsers
      /\ caret \in Nat \cup {NoCaret} /\ Len(text) \in Nat
  BY DEF MentionsInv
<1>1. CASE UNCHANGED mentionVars
  <2>1. UNCHANGED <<field, text, caret, token, recorded, mentions, chosen>>
    BY <1>1 DEF mentionVars
  <2>2. /\ DeriveMentions(text, recorded)' = DeriveMentions(text, recorded)
        /\ ActiveToken(text, caret)' = ActiveToken(text, caret)
    BY <2>1 DEF DeriveMentions, ActiveToken
  <2> QED
    BY <2>1, <2>2 DEF MentionsInv
<1>2. ASSUME NEW p \in 0 .. Len(text), NEW char \in Characters, Type(p, char) PROVE MentionsInv'
  <2>1. SubSeq(text, 1, p) \in Seq(Characters) /\ SubSeq(text, p + 1, Len(text)) \in Seq(Characters)
    <3>1. /\ 1 \in 1 .. Len(text) + 1 /\ p \in 0 .. Len(text) /\ 1 <= p + 1
          /\ p + 1 \in 1 .. Len(text) + 1 /\ Len(text) \in 0 .. Len(text) /\ p + 1 <= Len(text) + 1
      BY <1>0
    <3> QED
      BY <1>0, <3>1, Cut
  <2>2. PICK b, c \in Seq(Characters) : b = SubSeq(text, 1, p) /\ c = SubSeq(text, p + 1, Len(text))
    BY <2>1
  <2>3. b \o <<char>> \o c \in Seq(Characters)
    OBVIOUS
  <2>4. Changed(b \o <<char>> \o c, p + 1) /\ p + 1 \in Nat
    BY <1>0, <1>2, <2>2 DEF Type
  <2> QED
    BY <2>3, <2>4, ChangedKeeps
<1>3. ASSUME NEW p \in DOMAIN text, Erase(p) PROVE MentionsInv'
  <2>0. p \in 1 .. Len(text)
    BY <1>0
  <2>1. /\ SubSeq(text, 1, p - 1) \in Seq(Characters)
        /\ SubSeq(text, p + 1, Len(text)) \in Seq(Characters)
    <3>1. /\ 1 \in 1 .. Len(text) + 1 /\ p - 1 \in 0 .. Len(text) /\ 1 <= p - 1 + 1
          /\ p + 1 \in 1 .. Len(text) + 1 /\ Len(text) \in 0 .. Len(text) /\ p + 1 <= Len(text) + 1
      BY <1>0, <2>0
    <3> QED
      BY <1>0, <3>1, Cut
  <2>2. PICK b, c \in Seq(Characters) :
          b = SubSeq(text, 1, p - 1) /\ c = SubSeq(text, p + 1, Len(text))
    BY <2>1
  <2>3. b \o c \in Seq(Characters)
    OBVIOUS
  <2>4. Changed(b \o c, p - 1) /\ p - 1 \in Nat
    BY <1>0, <1>3, <2>0, <2>2 DEF Erase
  <2> QED
    BY <2>3, <2>4, ChangedKeeps
<1>4. ASSUME NEW c \in {NoCaret} \cup 0 .. Len(text), CaretMoves(c) PROVE MentionsInv'
  <2>1. /\ caret' = c /\ UNCHANGED <<field, text, recorded, mentions, chosen>>
        /\ token' = IF field = "web" THEN ActiveToken(text, c) ELSE {}
    BY <1>4 DEF CaretMoves
  <2>2. c \in Nat \cup {NoCaret}
    OBVIOUS
  <2>3. /\ DeriveMentions(text, recorded)' = DeriveMentions(text, recorded)
        /\ ActiveToken(text, caret)' = ActiveToken(text, c)
    BY <2>1 DEF DeriveMentions, ActiveToken
  <2> QED
    BY <2>1, <2>2, <2>3 DEF MentionsInv
<1>5. CASE Dismiss
  <2>1. token' = {} /\ UNCHANGED <<field, text, caret, recorded, mentions, chosen>>
    BY <1>5 DEF Dismiss
  <2>2. DeriveMentions(text, recorded)' = DeriveMentions(text, recorded)
    BY <2>1 DEF DeriveMentions
  <2> QED
    BY <2>1, <2>2 DEF MentionsInv
<1>6. ASSUME NEW u \in MentionUsers, Choose(u) PROVE MentionsInv'
  BY <1>6, ChooseKeeps
<1>7. CASE Submit
  <2>1. /\ text' = <<>> /\ recorded' = {} /\ mentions' = {} /\ token' = {} /\ chosen' = {}
        /\ field' = field /\ caret' \in Nat \cup {NoCaret}
    BY <1>0, <1>7 DEF Submit
  <2>2. DeriveMentions(text, recorded)' = {}
    BY <2>1 DEF DeriveMentions
  <2>3. text' \in Seq(Characters)
    BY <2>1
  <2> QED
    BY <1>0, <2>1, <2>2, <2>3 DEF MentionsInv
<1> QED
  BY <1>1, <1>2, <1>3, <1>4, <1>5, <1>6, <1>7 DEF MentionsNext

(* Each mention that is sent stands on its user's name, no two overlap, and  *)
(* every delimited name of a chosen user is one, whatever was typed, chosen  *)
(* and erased, for texts of any length (MentionInput.tsx choose,             *)
(* lib/mentions.ts computeMentions, MentionTextarea.tsx deriveMentions and   *)
(* its shift by the space that is trimmed).                                  *)
THEOREM MentionsOnNames == Spec => []MentionsPlaced
<1>1. Init => MentionsInv
  BY MentionsInitial DEF Init
<1>2. MentionsInv /\ [Next]_screenVars => MentionsInv'
  BY ScreenMoves, MentionsStep
<1> QED BY <1>1, <1>2, Placed, PTL DEF Spec

===============================================================================
