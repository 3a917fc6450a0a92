---------------------------- MODULE RotatingCache ----------------------------
(***************************************************************************)
(* The mobile client's disk cache, src/mobile/lib/cache.ts: entries behind *)
(* one byte budget, a manifest in memory, its copy in a file and a mirror  *)
(* of that copy in AsyncStorage.                                           *)
(*                                                                         *)
(* Mutations run one at a time (enqueue), each in several steps with an    *)
(* await between them: a crash may come at any step, and reads run outside *)
(* the queue.  Ages and hit counts only decide which entry is stale and    *)
(* which scores lowest, so both are choices here.                          *)
(***************************************************************************)
EXTENDS Integers, FiniteSets, Functions, Totals

CONSTANTS
    JsonKeys,    \* "GET:" + path
    MediaKeys,   \* "MEDIA:" + url
    OwnKeys,     \* keys of /v1/me and of the user's own profile and posts
    Sizes,       \* sizes of a payload
    Budget,      \* BUDGET_BYTES
    PinnedBonus, \* PINNED_BONUS
    Scores,      \* values of (hits + 1) / (1 + ageHours)
    MaxSeq,      \* bound: file names a manifest hands out
    MaxCrashes,  \* bound: times the application dies
    MaxReads     \* bound: reads of a file under way

ASSUME CacheAssumption ==
    /\ JsonKeys \cap MediaKeys = {} /\ OwnKeys \subseteq JsonKeys
    /\ Budget \in Nat /\ PinnedBonus \in Nat /\ Sizes \subseteq Nat \ {0}
    /\ Scores \subseteq Nat /\ \A x \in Scores : x < PinnedBonus

Keys == JsonKeys \cup MediaKeys

VARIABLES
    mem,      \* manifest: [entries, seq, total]
    files,    \* payload files in DIR: [n, json, key] (its content is key's)
    manifestFile, \* its copy in a file
    mirror,   \* the manifest in AsyncStorage
    pc, job,  \* the mutation at the head of the queue and where it stands
    reading,  \* getJSON calls between the lookup and the end of the file read
    crashes   \* counter behind the bound

cacheVars == <<mem, files, manifestFile, mirror, pc, job, reading, crashes>>

NoManifest == [state |-> "missing"]
Torn == [state |-> "torn"]      \* a write of the file that never finished
Saved(m) == [state |-> "saved", manifest |-> m]
NoJob == [key |-> "none"]
EmptyManifest == [entries |-> [k \in {} |-> {}], seq |-> 0, total |-> 0]

Entries == DOMAIN mem.entries
BytesOf(entries) == Total([k \in DOMAIN entries |-> entries[k].bytes])

FileOf(k, e) == [n |-> e.n, json |-> e.json, key |-> k]

\* The names a file of an entry goes by, whatever it contains
Named(e) == {f \in files : f.n = e.n /\ f.json = e.json}

CacheInit ==
    /\ mem = EmptyManifest /\ files = {}
    /\ manifestFile = NoManifest /\ mirror = NoManifest
    /\ pc = "load" /\ job = NoJob
    /\ reading = {} /\ crashes = 0

----------------------------------------------------------------------------
(* ensureReady, load and hardReset. *)

LoadRenumbered ==
    /\ pc = "load"
    /\ \/ /\ manifestFile \notin {NoManifest, Torn}
          /\ mem' = [manifestFile.manifest EXCEPT !.seq = 0] /\ pc' = "idle"
       \/ /\ manifestFile \in {NoManifest, Torn}
          /\ mem' = EmptyManifest /\ pc' = "idle"
    /\ UNCHANGED <<files, manifestFile, mirror, job, reading, crashes>>

Load ==
    /\ pc = "load"
    /\ \/ /\ manifestFile = NoManifest
          /\ mem' = IF mirror = NoManifest THEN EmptyManifest ELSE mirror.manifest
          /\ pc' = "idle"
       \/ /\ manifestFile \notin {NoManifest, Torn}
          /\ mem' = manifestFile.manifest /\ pc' = "idle"
       \/ /\ manifestFile = Torn                  \* it parses to nothing: an empty file
          /\ mem' = EmptyManifest /\ pc' = "idle"
       \/ /\ manifestFile = Torn                  \* it does not parse
          /\ mem' = EmptyManifest /\ pc' = "reset"
    /\ UNCHANGED <<files, manifestFile, mirror, job, reading, crashes>>

\* The directory goes first, the mirror after it
HardReset ==
    \/ /\ pc = "reset"
       /\ files' = {} /\ manifestFile' = NoManifest
       /\ pc' = "reset2"
       /\ UNCHANGED <<mem, mirror, job, reading, crashes>>
    \/ /\ pc = "reset2"
       /\ mirror' = NoManifest
       /\ pc' = "idle"
       /\ UNCHANGED <<mem, files, manifestFile, job, reading, crashes>>

\* Memory is lost; temporary downloads stay behind and nothing looks for them
Crash ==
    /\ crashes < MaxCrashes
    /\ crashes' = crashes + 1
    /\ mem' = EmptyManifest /\ pc' = "load" /\ job' = NoJob
    /\ reading' = {}
    /\ UNCHANGED <<files, manifestFile, mirror>>

----------------------------------------------------------------------------
(* The pieces of a mutation. *)

Without(m, K) ==
    LET gone == K \cap DOMAIN m.entries
        rest == Restrict(m.entries, DOMAIN m.entries \ K)
        freed == BytesOf(Restrict(m.entries, gone))
    IN [m EXCEPT !.entries = rest, !.total = IF @ < freed THEN 0 ELSE @ - freed]

\* removeEntry: the file is deleted, if the system lets us, and the meta goes
RemoveEntries(K) ==
    /\ mem' = Without(mem, K)
    /\ \E kept \in SUBSET (K \cap Entries) :
          files' = files \ UNION {Named(mem.entries[k]) : k \in (K \cap Entries) \ kept}

scoreUnpinned(e, base) == base

scoreOf(e, base) == base + (IF e.tier = "pinned" THEN PinnedBonus ELSE 0)

\* The lowest scores for some hits and ages
Victims ==
    {v \in Entries : \E base \in [Entries -> Scores] : \A k \in Entries :
        scoreOf(mem.entries[v], base[v]) <= scoreOf(mem.entries[k], base[k])}

tierForPath(k) == IF k \in OwnKeys THEN {"pinned", "normal"} ELSE {"normal"}

----------------------------------------------------------------------------
(* writeEntry and adoptFile, one queued mutation at a time. *)

StartWriteOver(k, bytes, tier) ==
    /\ pc = "idle"
    /\ job' = [key |-> k, bytes |-> bytes, tier |-> tier]
    /\ pc' = "stale"
    /\ UNCHANGED <<mem, files, manifestFile, mirror, reading, crashes>>

\* The entry of the key, if there is one, goes before the new one comes
StartWrite(k, bytes, tier) ==
    /\ pc = "idle"
    /\ job' = [key |-> k, bytes |-> bytes, tier |-> tier]
    /\ pc' = "stale"
    /\ RemoveEntries({k})
    /\ UNCHANGED <<manifestFile, mirror, reading, crashes>>

putJSON(k) == \E bytes \in Sizes, tier \in tierForPath(k) : StartWrite(k, bytes, tier)

\* The end of a download that cachedMediaUri began; any number may end, in any
\* order, for the same url
adoptFile(k) == \E bytes \in Sizes : StartWrite(k, bytes, "media")

\* evictToFit: an item beyond the budget is not cached, stale entries go first
DropStale ==
    /\ pc = "stale"
    /\ IF job.bytes > Budget
       THEN /\ pc' = "idle" /\ job' = NoJob
            /\ UNCHANGED <<mem, files>>
       ELSE /\ pc' = "evict" /\ UNCHANGED job
            /\ \E stale \in SUBSET Entries : RemoveEntries(stale)
    /\ UNCHANGED <<manifestFile, mirror, reading, crashes>>

EvictOne ==
    /\ pc = "evict" /\ mem.total + job.bytes > Budget /\ Entries # {}
    /\ \E victim \in Victims : RemoveEntries({victim})
    /\ UNCHANGED <<manifestFile, mirror, pc, job, reading, crashes>>

\* The new payload gets the next name; the write may fail
WriteFile ==
    /\ pc = "evict" /\ mem.total + job.bytes <= Budget /\ mem.seq < MaxSeq
    /\ LET n == mem.seq + 1
           json == job.tier # "media"
       IN /\ mem' = [mem EXCEPT !.seq = n]
          /\ \/ /\ files' = {f \in files : ~(f.n = n /\ f.json = json)}
                              \cup {[n |-> n, json |-> json, key |-> job.key]}
                /\ pc' = "commit" /\ UNCHANGED job
             \/ pc' = "idle" /\ job' = NoJob /\ UNCHANGED files
    /\ UNCHANGED <<manifestFile, mirror, reading, crashes>>

\* The entry and its bytes, then persistNow
Commit ==
    /\ pc = "commit"
    /\ LET e == [n |-> mem.seq, json |-> job.tier # "media", bytes |-> job.bytes,
                 tier |-> job.tier]
       IN mem' = [mem EXCEPT !.entries = [k \in Entries \cup {job.key} |->
                                            IF k = job.key THEN e ELSE mem.entries[k]],
                             !.total = @ + job.bytes]
    /\ pc' = "persist" /\ job' = NoJob
    /\ UNCHANGED <<files, manifestFile, mirror, reading, crashes>>

\* persistNow: the file, which a crash may leave torn, and then the mirror
PersistNow ==
    \/ /\ pc = "persist" /\ manifestFile' = Torn /\ pc' = "persist2"
       /\ UNCHANGED <<mem, files, mirror, job, reading, crashes>>
    \/ /\ pc = "persist2" /\ manifestFile' = Saved(mem) /\ pc' = "persist3"
       /\ UNCHANGED <<mem, files, mirror, job, reading, crashes>>
    \/ /\ pc = "persist3" /\ mirror' = Saved(mem) /\ pc' = "idle"
       /\ UNCHANGED <<mem, files, manifestFile, job, reading, crashes>>

\* The timer of scheduleFlush queues a persistNow; a read may have set it
Flush ==
    /\ pc = "idle" /\ pc' = "persist"
    /\ UNCHANGED <<mem, files, manifestFile, mirror, job, reading, crashes>>

\* The removal that getJSON queued when it found the entry stale, or its file
\* vanished: it takes the entry the key has BY NOW, be it a new one
DropEntry(k) ==
    /\ pc = "idle" /\ k \in Entries
    /\ RemoveEntries({k})
    /\ UNCHANGED <<manifestFile, mirror, pc, job, reading, crashes>>

----------------------------------------------------------------------------
(* Reads: outside the queue. *)

Ready == pc \notin {"load", "reset", "reset2"}

\* getJSON looks the entry up and reads its file, which may go meanwhile
getJSON(k) ==
    /\ Ready /\ k \in Entries /\ mem.entries[k].json
    /\ Cardinality(reading) < MaxReads
    /\ reading' = reading \cup {FileOf(k, mem.entries[k])}
    /\ UNCHANGED <<mem, files, manifestFile, mirror, pc, job, crashes>>

ReadEnds(r) ==
    /\ reading' = reading \ {r}
    /\ UNCHANGED <<mem, files, manifestFile, mirror, pc, job, crashes>>

----------------------------------------------------------------------------
CacheNext ==
    \/ Load \/ HardReset \/ Crash \/ DropStale \/ EvictOne \/ WriteFile \/ Commit
    \/ PersistNow \/ Flush
    \/ \E k \in JsonKeys : putJSON(k) \/ getJSON(k) \/ DropEntry(k)
    \/ \E k \in MediaKeys : adoptFile(k)
    \/ \E r \in reading : ReadEnds(r)

CacheSpec == CacheInit /\ [][CacheNext]_cacheVars

----------------------------------------------------------------------------
(* Properties. *)

\* The counter the budget is enforced with is the size of the entries, at every
\* step and after every restart, and never beyond the budget (removeEntry,
\* evictToFit and the two writes; the manifest is loaded with its own counter).
BytesAccounted ==
    /\ mem.total = BytesOf(mem.entries)
    /\ mem.total <= Budget

\* What a key's entry, or a read under way, names is that key's payload or
\* nothing: names are used again after a crash, never for an entry somebody
\* still holds (++manifest.seq, load, hardReset).
OwnPayload ==
    /\ \A k \in Entries : \A f \in Named(mem.entries[k]) : f.key = k
    /\ \A r \in reading : \A f \in Named(r) : f.key = r.key

\* The budget takes a pinned entry only when nothing else is left to take
\* (cache.ts: "evicted only when nothing else remains").
PinnedLast ==
    [][EvictOne => \A v \in Entries \ DOMAIN mem'.entries :
          mem.entries[v].tier = "pinned" =>
             \A k \in Entries : mem.entries[k].tier = "pinned"]_cacheVars

=============================================================================
