----------------------------- MODULE ClientCache -----------------------------
(***************************************************************************)
(* The client's cache of server answers (src/src/utils/client_cache.c): a  *)
(* list of entries in the memory of each client process, backed by one     *)
(* file per key in a directory that every process of the user shares and   *)
(* that outlives them all.                                                 *)
(*                                                                         *)
(* A step is one call of the API by one process, one tick of the clock, or *)
(* the start or the end of a process.  Calls of different processes        *)
(* alternate here; their file operations interleave in SharedCacheDir.     *)
(* The clock does not step back.                                           *)
(***************************************************************************)
EXTENDS Integers, Sequences, FiniteSetsExt, SequencesExt

CONSTANTS
    Procs,       \* client processes
    Keys,        \* cache keys; MD5 gives each a file name of its own
    Contents,    \* what a document may say; the cache does not look at it
    MaxEntries,  \* cache->max_entries
    TTL,         \* cache->default_ttl, in ticks
    MaxTime,     \* bound: the clock's last value
    MaxClears,   \* bound: the number of calls of client_cache_clear
    Faults,      \* what may fail: see FaultNames
    None         \* "no file", "unparsable" and "no data"

\* "save": a file cannot be opened for writing; "torn": writing it stops
\* half-way, because the disk is full or the process is killed;
\* "alloc": malloc and strdup may return NULL; "unlink": a file cannot be
\* removed, which no caller looks at; "scan": the directory cannot be opened.
FaultNames == {"save", "torn", "alloc", "unlink", "scan"}

\* A cached document is the server's answer: when it was fetched, how many
\* clears came before that, and what it says.
Doc   == [at : Nat, era : Nat, what : Contents]
Entry == [key : Keys, json : Doc, created : Nat]
File  == [json : Doc \cup {None}, mtime : Nat]

ASSUME MaxEntriesAssumption == MaxEntries \in Nat \ {0}
ASSUME TTLAssumption        == TTL \in Nat \ {0}
ASSUME BoundsAssumption     == MaxTime \in Nat /\ MaxClears \in Nat
ASSUME FaultsAssumption     == Faults \subseteq FaultNames
ASSUME NoneAssumption       == None \notin Doc /\ None \notin File /\ None \notin Keys

VARIABLES
    now,      \* time(NULL)
    clears,   \* history: number of clears so far
    up,       \* the processes that hold a cache
    entries,  \* entries[p]: cache->entries of process p, oldest first
    files,    \* files[k]: the file of key k in CACHE_DIR, or None
    seen,     \* history: seen[p][k] is the newest fetch time that p stored
              \* or was given for k in its present life, 0 before any
    since,    \* history: the clears that p must not see behind, those
              \* before its start and its own
    spared,   \* history: the documents in files that a clear has left,
              \* because a call it made failed
    ret       \* the last call and what it returned

vars == <<now, clears, up, entries, files, seen, since, spared, ret>>

-----------------------------------------------------------------------------
(* The list of one process, as the calls use it.                           *)

\* Positions of the entries with key k; the loops stop at the first.
Matching(es, k) == {i \in DOMAIN es : es[i].key = k}
Has(es, k)      == Matching(es, k) # {}
Find(es, k)     == Min(Matching(es, k))

WithoutKeepsIt(es, k) == es

Without(es, k) == IF Has(es, k) THEN RemoveAt(es, Find(es, k)) ELSE es

\* The eviction of client_cache_set: the first of the entries with the
\* smallest created_at, when the list is at its limit.
FullTooLate(es)  == Len(es) > MaxEntries
OldestIsNewest(es) ==
    Min({i \in DOMAIN es : \A j \in DOMAIN es : es[i].created >= es[j].created})
VictimsStay(es)  == {}

Full(es)    == Len(es) >= MaxEntries
Oldest(es)  == Min({i \in DOMAIN es : \A j \in DOMAIN es : es[i].created <= es[j].created})
Evicted(es) == IF Full(es) THEN RemoveAt(es, Oldest(es)) ELSE es
Victims(es) == IF Full(es) THEN {es[Oldest(es)].key} ELSE {}

Expired(stamp) == now - stamp > TTL

-----------------------------------------------------------------------------
(* The directory.  Each operator is the set of outcomes of a file call.    *)

\* unlink of every file of ks.
Unlinks(fs, ks) ==
    {[k \in Keys |-> IF k \in gone THEN None ELSE fs[k]] :
        gone \in IF "unlink" \in Faults THEN SUBSET ks ELSE {ks}}

\* delete_file of every key in ks; a path that cannot be allocated leaves
\* its file, as an unlink that fails does.
Deletions(fs, ks) ==
    Unlinks(fs, ks) \cup
        (IF "alloc" \in Faults
           THEN {[k \in Keys |-> IF k \in gone THEN None ELSE fs[k]] : gone \in SUBSET ks}
           ELSE {})

\* The documents of the directory.
Documents(fs) == {fs[k].json : k \in {j \in Keys : fs[j] # None}} \ {None}

Torn == [json |-> None, mtime |-> now]

\* save_to_file: json_dump_file truncates the file and writes it again.
Saves(fs, k, doc) ==
    {[fs EXCEPT ![k] = [json |-> doc, mtime |-> now]]}
        \cup (IF "torn" \in Faults THEN {[fs EXCEPT ![k] = Torn]} ELSE {})
        \cup (IF Faults \cap {"save", "alloc"} # {} THEN {fs} ELSE {})

-----------------------------------------------------------------------------
Idle             == [call |-> "none"]
Stored(p, k, ok) == [call |-> "set", proc |-> p, key |-> k, ok |-> ok]
Got(p, k, json)  == [call |-> "get", proc |-> p, key |-> k, json |-> json]

Newest(m, n) == IF m < n THEN n ELSE m

Init ==
    /\ now = 0
    /\ clears = 0
    /\ up = {}
    /\ entries = [p \in Procs |-> <<>>]
    /\ files = [k \in Keys |-> None]
    /\ seen = [p \in Procs |-> [k \in Keys |-> 0]]
    /\ since = [p \in Procs |-> 0]
    /\ spared = {}
    /\ ret = Idle

\* client_cache_create: the directory is neither read nor made.
Create(p) ==
    /\ p \notin up
    /\ up' = up \cup {p}
    /\ since' = [since EXCEPT ![p] = clears]
    /\ ret' = Idle
    /\ UNCHANGED <<now, clears, entries, files, seen, spared>>

Gone(p) ==
    /\ up' = up \ {p}
    /\ entries' = [entries EXCEPT ![p] = <<>>]
    /\ seen' = [seen EXCEPT ![p] = [k \in Keys |-> 0]]
    /\ ret' = Idle
    /\ UNCHANGED <<now, clears, since, spared>>

\* client_cache_destroy leaves the files; a process killed between two
\* calls leaves the same.
Destroy(p) ==
    /\ p \in up
    /\ Gone(p)
    /\ UNCHANGED files

\* A process killed inside client_cache_set: after the victim's file is
\* deleted or not, and before the new file is touched or in the middle of it.
KilledInSet(p, k) ==
    /\ p \in up
    /\ LET victims == Victims(Without(entries[p], k))
       IN  \E ks \in {{}, victims} :
             \E fs \in Deletions(files, ks) :
               files' \in {fs} \cup (IF "torn" \in Faults
                                       THEN {[fs EXCEPT ![k] = Torn]} ELSE {})
    /\ Gone(p)

\* A process killed inside client_cache_clear has removed some files.
KilledInClear(p) ==
    /\ p \in up
    /\ \E ks \in SUBSET Keys : files' = [k \in Keys |-> IF k \in ks THEN None ELSE files[k]]
    /\ Gone(p)

SetEvictsFirst(p, k, doc) ==
    /\ p \in up
    /\ LET rest == Evicted(entries[p])
       IN  /\ entries' = [entries EXCEPT ![p] =
                             Append(Without(rest, k), [key |-> k, json |-> doc, created |-> now])]
           /\ \E fs \in Deletions(files, Victims(entries[p])) : files' \in Saves(fs, k, doc)
    /\ seen' = [seen EXCEPT ![p][k] = doc.at]
    /\ ret' = Stored(p, k, TRUE)
    /\ UNCHANGED <<now, clears, up, since, spared>>

\* client_cache_set.  What save_to_file returns is ignored.
Set(p, k, doc) ==
    /\ p \in up
    /\ LET rest == Without(entries[p], k)
       IN  /\ entries' = [entries EXCEPT ![p] =
                             Append(Evicted(rest), [key |-> k, json |-> doc, created |-> now])]
           /\ \E fs \in Deletions(files, Victims(rest)) : files' \in Saves(fs, k, doc)
    /\ seen' = [seen EXCEPT ![p][k] = doc.at]
    /\ ret' = Stored(p, k, TRUE)
    /\ UNCHANGED <<now, clears, up, since, spared>>

SetOutOfMemoryUnchecked(p, k) ==
    /\ "alloc" \in Faults
    /\ p \in up
    /\ LET rest == Without(entries[p], k)
       IN  /\ entries' = [entries EXCEPT ![p] =
                             Append(Evicted(rest), [key |-> k, json |-> None, created |-> now])]
           /\ files' \in Deletions(files, Victims(rest))
    /\ ret' = Stored(p, k, FALSE)
    /\ UNCHANGED <<now, clears, up, seen, since, spared>>

\* The same call when the new entry cannot be allocated: the old entry of
\* the key and the victim are already gone, the key's file stays.
SetOutOfMemory(p, k) ==
    /\ "alloc" \in Faults
    /\ p \in up
    /\ LET rest == Without(entries[p], k)
       IN  /\ entries' = [entries EXCEPT ![p] = Evicted(rest)]
           /\ files' \in Deletions(files, Victims(rest))
    /\ ret' = Stored(p, k, FALSE)
    /\ UNCHANGED <<now, clears, up, seen, since, spared>>

Serve(p, k, json) ==
    /\ ret' = Got(p, k, json)
    /\ seen' = [seen EXCEPT ![p][k] = Newest(@, json.at)]

Miss(p, k) ==
    /\ ret' = Got(p, k, None)
    /\ UNCHANGED seen

GetHitUnchecked(p, k) ==
    /\ Has(entries[p], k)
    /\ LET e == entries[p][Find(entries[p], k)]
       IN  /\ ~Expired(e.created)
           /\ Serve(p, k, e.json)
    /\ UNCHANGED <<entries, files>>

\* client_cache_get, by the place of the answer.  From memory: a live entry
\* whose file still exists, whatever the file holds.
GetHit(p, k) ==
    /\ Has(entries[p], k)
    /\ LET e == entries[p][Find(entries[p], k)]
       IN  /\ ~Expired(e.created)
           /\ files[k] # None \/ "alloc" \in Faults
           /\ Serve(p, k, e.json)
    /\ UNCHANGED <<entries, files>>

\* A live entry whose file another process has removed.
GetFileGone(p, k) ==
    /\ Has(entries[p], k)
    /\ ~Expired(entries[p][Find(entries[p], k)].created)
    /\ files[k] = None
    /\ entries' = [entries EXCEPT ![p] = Without(@, k)]
    /\ Miss(p, k)
    /\ UNCHANGED files

\* An entry past its time: the entry and the file go.
GetExpired(p, k) ==
    /\ Has(entries[p], k)
    /\ Expired(entries[p][Find(entries[p], k)].created)
    /\ entries' = [entries EXCEPT ![p] = Without(@, k)]
    /\ files' \in Deletions(files, {k})
    /\ Miss(p, k)

GetFromDiskKeepsAge(p, k) ==
    /\ ~Has(entries[p], k)
    /\ files[k] # None
    /\ ~Expired(files[k].mtime)
    /\ files[k].json # None
    /\ entries' = [entries EXCEPT ![p] =
         Append(@, [key |-> k, json |-> files[k].json, created |-> files[k].mtime])]
    /\ Serve(p, k, files[k].json)
    /\ UNCHANGED files

GetFromDiskTouches(p, k) ==
    /\ ~Has(entries[p], k)
    /\ files[k] # None
    /\ ~Expired(files[k].mtime)
    /\ files[k].json # None
    /\ entries' = [entries EXCEPT ![p] =
         Append(@, [key |-> k, json |-> files[k].json, created |-> now])]
    /\ Serve(p, k, files[k].json)
    /\ files' = [files EXCEPT ![k].mtime = now]

\* No entry: the file is loaded if it is young enough, and becomes an
\* entry created now, whatever the length of the list.
GetFromDisk(p, k) ==
    /\ ~Has(entries[p], k)
    /\ files[k] # None
    /\ ~Expired(files[k].mtime)
    /\ files[k].json # None
    /\ entries' \in
         {[entries EXCEPT ![p] = Append(@, [key |-> k, json |-> files[k].json, created |-> now])]}
           \cup (IF "alloc" \in Faults THEN {entries} ELSE {})
    /\ Serve(p, k, files[k].json)
    /\ UNCHANGED files

\* No entry and no usable file: a file past its time is unlinked, one that
\* does not parse stays.
GetMiss(p, k) ==
    /\ ~Has(entries[p], k)
    /\ \/ files[k] = None /\ UNCHANGED files
       \/ /\ files[k] # None
          /\ Expired(files[k].mtime)
          /\ files' \in Deletions(files, {k})
       \/ /\ files[k] # None
          /\ ~Expired(files[k].mtime)
          /\ files[k].json = None
          /\ UNCHANGED files
    /\ Miss(p, k)
    /\ UNCHANGED entries

\* The copy to return, or the path of the file, cannot be allocated.
GetOutOfMemory(p, k) ==
    /\ "alloc" \in Faults
    /\ Has(entries[p], k) => ~Expired(entries[p][Find(entries[p], k)].created)
    /\ Miss(p, k)
    /\ UNCHANGED <<entries, files>>

Get(p, k) ==
    /\ p \in up
    /\ \/ GetHit(p, k)
       \/ GetFileGone(p, k)
       \/ GetExpired(p, k)
       \/ GetFromDisk(p, k)
       \/ GetMiss(p, k)
       \/ GetOutOfMemory(p, k)
    /\ UNCHANGED <<now, clears, up, since, spared>>

Cleared(p) ==
    /\ p \in up
    /\ clears < MaxClears
    /\ clears' = clears + 1
    /\ since' = [since EXCEPT ![p] = clears + 1]
    /\ entries' = [entries EXCEPT ![p] = <<>>]
    /\ ret' = [call |-> "clear", proc |-> p]
    /\ UNCHANGED <<now, up, seen>>

Listed(p) == {k \in Keys : Has(entries[p], k)}

ClearOwnFiles(p) ==
    /\ Cleared(p)
    /\ files' = [k \in Keys |-> IF k \in Listed(p) THEN None ELSE files[k]]
    /\ UNCHANGED spared

\* client_cache_clear: every regular file of the directory goes, whoever
\* wrote it, but only this process's list.
Clear(p) ==
    /\ Cleared(p)
    /\ files' = [k \in Keys |-> None]
    /\ UNCHANGED spared

\* The same call when a file call of it fails, which nobody is told: the
\* directory cannot be opened, and only the files of the list are deleted,
\* or it is scanned and some of its files cannot be removed.
ClearFails(p) ==
    /\ Cleared(p)
    /\ \/ /\ Faults \cap {"scan", "alloc"} # {}
          /\ files' \in Deletions(files, Listed(p))
       \/ /\ "unlink" \in Faults
          /\ files' \in Unlinks(files, Keys)
    /\ spared' = spared \cup Documents(files')

Tick ==
    /\ now < MaxTime
    /\ now' = now + 1
    /\ ret' = Idle
    /\ UNCHANGED <<clears, up, entries, files, seen, since, spared>>

\* Documents just fetched.  WeatherClient stores what it fetched earlier.
Fresh == [at : {now}, era : {clears}, what : Contents]

Next ==
    \/ Tick
    \/ \E p \in Procs :
         \/ Create(p)
         \/ Destroy(p)
         \/ Clear(p)
         \/ ClearFails(p)
         \/ KilledInClear(p)
         \/ \E k \in Keys :
              \/ KilledInSet(p, k)
              \/ \E doc \in Fresh : Set(p, k, doc)
              \/ SetOutOfMemory(p, k)
              \/ Get(p, k)

Spec == Init /\ [][Next]_vars

-----------------------------------------------------------------------------
(* Properties                                                              *)

Returns ==
    {Idle}
      \cup [call : {"clear"}, proc : Procs]
      \cup [call : {"set"}, proc : Procs, key : Keys, ok : BOOLEAN]
      \cup [call : {"get"}, proc : Procs, key : Keys, json : Doc \cup {None}]

\* Every variable has its type.
TypeOK ==
    /\ now \in Nat
    /\ clears \in Nat
    /\ up \in SUBSET Procs
    /\ entries \in [Procs -> Seq(Entry)]
    /\ files \in [Keys -> File \cup {None}]
    /\ seen \in [Procs -> [Keys -> Nat]]
    /\ since \in [Procs -> Nat]
    /\ spared \in SUBSET Doc
    /\ ret \in Returns

Hit == ret.call = "get" /\ ret.json # None

\* No list holds two entries for one key, however sets, loads from disk,
\* evictions and expiries alternate: otherwise the loops of set and get,
\* which stop at the first match, would leave a stale second one behind.
UniqueKeys ==
    \A p \in Procs : \A i, j \in DOMAIN entries[p] :
        entries[p][i].key = entries[p][j].key => i = j

\* The lists stay in order of creation: set and the load of get both stamp
\* with the time of the call and append, and nothing re-stamps in place.
\* The eviction of set is therefore first in, first out, and not the LRU
\* that client_cache.h:10 and :47 announce: a get moves nothing.
CreationOrder ==
    \A p \in Procs : \A i, j \in DOMAIN entries[p] :
        i <= j => entries[p][i].created <= entries[p][j].created

\* No get returns a document fetched more than twice the TTL ago.  The
\* bound is the two clocks in a row, the file's and then the entry's; a load
\* that also refreshed the file's time would break it.
ServedWithinTwoTTL == Hit => now - ret.json.at <= 2 * TTL

\* Within the life of a process what it is given for a key never gets
\* older: not across an expiry, an eviction, a failed save or a reload of a
\* file that another process wrote.  It relies on a victim's file going with
\* its entry: Faults has neither "alloc" nor "unlink".
NeverGoesBack ==
    [][\A p \in Procs, k \in Keys :
         ret'.call = "get" /\ ret'.proc = p /\ ret'.key = k
           => ret'.json = None \/ ret'.json.at >= seen[p][k]]_vars

\* After client_cache_clear the process never sees a document fetched
\* before it, and a process started later does not either, except one in a
\* file that a failing opendir or unlink made that clear leave: no list
\* and no crash keeps anything else.
ClearIsFinal == Hit => ret.json.era >= since[ret.proc] \/ ret.json \in spared

\* A hit needs the key's file: a key whose file some process has removed,
\* and that nobody has saved since, is a miss in every process, whatever
\* its list still holds.
HitNeedsFile == Hit => files[ret.key] # None

\* client_cache_set never lengthens a list past max_entries, even one that
\* loads from disk have already taken past it.
SetRespectsLimit ==
    [][\A p \in Procs : ret'.call = "set" /\ ret'.proc = p
         => Len(entries'[p]) <= Newest(MaxEntries, Len(entries[p]))]_vars

\* Storing a key that is already listed, in a list within its limit, costs
\* no other key its entry or its file.
ReplaceKeepsOthers ==
    [][\A p \in Procs, k \in Keys :
         /\ ret' = Stored(p, k, TRUE)
         /\ Has(entries[p], k)
         /\ Len(entries[p]) <= MaxEntries
         => \A j \in Keys \ {k} :
              /\ Has(entries'[p], j) = Has(entries[p], j)
              /\ files'[j] = files[j]]_vars

\* The entry that set gives up for room is the one created first: no entry
\* that stays was created before one that goes.  client_cache.h:10 and :47
\* call the eviction LRU; :43-44 and :99, and the code, go by created_at,
\* which a get never moves, so an entry just read may be the one to go.
EvictsOldest ==
    [][\A p \in Procs, k \in Keys :
         ret' = Stored(p, k, TRUE)
         => \A gone, kept \in {entries[p][i] : i \in DOMAIN entries[p]} :
              /\ gone.key # k /\ ~Has(entries'[p], gone.key)
              /\ kept.key # k /\ Has(entries'[p], kept.key)
              => gone.created <= kept.created]_vars

-----------------------------------------------------------------------------
(* What client_cache.h says, and the code does not do.                     *)

\* "Validates TTL before returning data - expired entries are treated as
\* cache misses" (client_cache.h:135).
ServedWithinTTL == Hit => now - ret.json.at <= TTL

=============================================================================
