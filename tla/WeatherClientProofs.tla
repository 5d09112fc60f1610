------------------------- MODULE WeatherClientProofs -------------------------
(***************************************************************************)
(* Proofs about WeatherClient, for any processes, keys, limit, TTL and     *)
(* length of a call.                                                       *)
(*                                                                         *)
(* A request stores what it fetched some time ago, so that the invariant   *)
(* of ClientCacheProofs, where a stored document is fresh, does not hold   *)
(* here.  The first part says what each call of the cache may add to the   *)
(* lists and the files, whatever it stores; the invariants follow.         *)
(***************************************************************************)
EXTENDS WeatherClient, ClientCacheProofs

CacheTypes == TypeOK /\ UniqueKeys /\ DownInv

\* A step adds no entry but one created now that holds one of docs.
Adds(docs) ==
    \A q \in Procs : \A x \in Elems(entries'[q]) :
        x \in Elems(entries[q]) \/ (x.created = now /\ x.json \in docs)

\* A step leaves, removes or tears a file, or writes one of docs to it now.
Leaves(docs) ==
    \A j \in Keys : \/ files'[j] = None
                    \/ files'[j] = files[j]
                    \/ \E d \in docs : files'[j] = [json |-> d, mtime |-> now]
                    \/ files'[j] = [json |-> None, mtime |-> now]

\* The document that get may load.
Loadable(k) ==
    {d \in {files[k].json} : files[k] # None /\ ~Expired(files[k].mtime) /\ d # None}

\* What get may return: nothing, a live entry, or what it loads.
Serves(p, k, json) ==
    \/ json = None
    \/ \E e \in Elems(entries[p]) : e.key = k /\ ~Expired(e.created) /\ json = e.json
    \/ ~Has(entries[p], k) /\ json \in Loadable(k)

LEMMA SetEffect ==
    ASSUME CacheTypes, NEW p \in Procs, NEW k \in Keys, NEW doc \in Doc, Set(p, k, doc)
    PROVE  CacheTypes' /\ Adds({doc}) /\ Leaves({doc})
<1> USE DEF CacheTypes
<1> DEFINE rest == Without(entries[p], k)
           e    == [key |-> k, json |-> doc, created |-> now]
           es   == Append(Evicted(rest), e)
<1>0. now \in Nat /\ e \in Entry /\ e.key = k /\ e.created = now /\ e.json = doc
    BY DEF TypeOK, Entry
<1>1. /\ es \in Seq(Entry)
      /\ Unique(es)
      /\ Elems(es) = {e} \cup {x \in Elems(entries[p]) : x.key # k /\ x.key \notin Victims(rest)}
    BY <1>0, StoreFacts
<1>2. PICK fs \in Deletions(files, Victims(rest)) : files' \in Saves(fs, k, doc)
    BY DEF Set
<1>3. files' \in [Keys -> File \cup {None}] /\ Leaves({doc})
    <2>1. files \in [Keys -> File \cup {None}]
        BY DEF TypeOK
    <2>2. /\ fs \in [Keys -> File \cup {None}]
          /\ \A j \in Keys : fs[j] # None => fs[j] = files[j]
        <3> HIDE DEF rest
        <3> QED BY <2>1, DeletionFacts
    <2>3. /\ files' \in [Keys -> File \cup {None}]
          /\ \A j \in Keys : j # k => files'[j] = fs[j]
          /\ \/ files'[k] = fs[k]
             \/ files'[k] = [json |-> doc, mtime |-> now]
             \/ files'[k] = [json |-> None, mtime |-> now]
        <3> HIDE DEF rest, e
        <3> QED BY <2>2, <1>0, <1>2, SaveFacts
    <2> HIDE DEF rest, e
    <2> QED BY <2>2, <2>3 DEF Leaves
<1>4. entries' = [entries EXCEPT ![p] = es]
    BY DEF Set
<1> HIDE DEF es
<1>5. /\ entries' \in [Procs -> Seq(Entry)]
      /\ UniqueKeys'
      /\ entries'[p] = es
      /\ \A q \in Procs : q # p => entries'[q] = entries[q]
    BY <1>1, <1>4, ListUpdate
<1>6. TypeOK'
    BY <1>0, <1>3, <1>5 DEF TypeOK, Set, Returns, Stored, Doc
<1>7. DownInv'
    BY <1>5 DEF DownInv, Set
<1>8. Adds({doc})
    BY <1>0, <1>1, <1>5 DEF Adds
<1> QED BY <1>3, <1>5, <1>6, <1>7, <1>8

\* What get leaves when it returns nothing.
LEMMA MissEffect ==
    ASSUME CacheTypes, NEW p \in Procs, NEW k \in Keys, Miss(p, k), p \in up,
           UNCHANGED <<now, clears, up, since, spared>>,
           entries' \in {entries, [entries EXCEPT ![p] = Without(@, k)]},
           files' \in {files} \cup Deletions(files, {k})
    PROVE  CacheTypes' /\ Adds({}) /\ Leaves({}) /\ ret' = Got(p, k, None)
<1> USE DEF CacheTypes, Miss
<1>1. /\ Without(entries[p], k) \in Seq(Entry)
      /\ Unique(Without(entries[p], k))
      /\ Elems(Without(entries[p], k)) \subseteq Elems(entries[p])
    BY DropFacts
<1>2. /\ entries' \in [Procs -> Seq(Entry)]
      /\ UniqueKeys'
      /\ \A q \in Procs : Elems(entries'[q]) \subseteq Elems(entries[q])
      /\ \A q \in Procs : q # p => entries'[q] = entries[q]
    <2>1. CASE entries' = entries
        BY <2>1 DEF TypeOK, UniqueKeys
    <2>2. CASE entries' = [entries EXCEPT ![p] = Without(@, k)]
        <3>1. entries' = [entries EXCEPT ![p] = Without(entries[p], k)]
            BY <2>2
        <3> QED BY <1>1, <3>1, ListUpdate
    <2> QED BY <2>1, <2>2
<1>3. /\ files' \in [Keys -> File \cup {None}]
      /\ \A j \in Keys : files'[j] # None => files'[j] = files[j]
    BY DeletionFacts, ZenonT(60) DEF TypeOK
<1>4. TypeOK'
    BY <1>2, <1>3 DEF TypeOK, Returns, Got
<1>5. DownInv' /\ Adds({}) /\ Leaves({})
    BY <1>2, <1>3 DEF DownInv, Adds, Leaves
<1> QED BY <1>2, <1>4, <1>5

LEMMA GetEffect ==
    ASSUME CacheTypes, NEW p \in Procs, NEW k \in Keys, Get(p, k)
    PROVE  /\ CacheTypes'
           /\ Adds(Loadable(k))
           /\ Leaves({})
           /\ \E json \in Doc \cup {None} : ret' = Got(p, k, json) /\ Serves(p, k, json)
<1> USE DEF CacheTypes
<1>0. UNCHANGED <<now, clears, up, since, spared>> /\ p \in up /\ now \in Nat
    BY DEF Get, TypeOK
<1>1. ASSUME Miss(p, k),
             entries' \in {entries, [entries EXCEPT ![p] = Without(@, k)]},
             files' \in {files} \cup Deletions(files, {k})
      PROVE  /\ CacheTypes'
             /\ Adds(Loadable(k))
             /\ Leaves({})
             /\ \E json \in Doc \cup {None} : ret' = Got(p, k, json) /\ Serves(p, k, json)
    <2>1. CacheTypes' /\ Adds({}) /\ Leaves({}) /\ ret' = Got(p, k, None)
        BY <1>0, <1>1, MissEffect
    <2> QED BY <2>1 DEF Adds, Serves
<1>2. ASSUME NEW json \in Doc, Serve(p, k, json), UNCHANGED files,
             entries' \in [Procs -> Seq(Entry)]
      PROVE  TypeOK' /\ Leaves({})
    <2>1. seen[p][k] \in Nat /\ json.at \in Nat
        BY DEF TypeOK, Doc
    <2>2. Newest(seen[p][k], json.at) \in Nat
        BY <2>1 DEF Newest
    <2>3. seen' \in [Procs -> [Keys -> Nat]]
        BY <1>2, <2>2 DEF Serve, TypeOK
    <2> QED BY <1>0, <1>2, <2>3 DEF Serve, TypeOK, Returns, Got, Leaves
<1>3. CASE GetHit(p, k)
    <2> DEFINE e == entries[p][Find(entries[p], k)]
    <2>1. e \in Elems(entries[p]) /\ e \in Entry /\ e.key = k /\ e.json \in Doc
        <3>1. entries[p] \in Seq(Entry) /\ Has(entries[p], k)
            BY <1>3 DEF GetHit, TypeOK
        <3>2. e \in Elems(entries[p]) /\ e.key = k
            BY <3>1, FindFacts
        <3>3. e \in Entry
            BY <3>1, <3>2, ElemsFacts
        <3> QED BY <3>2, <3>3 DEF Entry
    <2>2. ~Expired(e.created) /\ Serve(p, k, e.json) /\ UNCHANGED <<entries, files>>
        BY <1>3 DEF GetHit
    <2> HIDE DEF e
    <2>3. ret' = Got(p, k, e.json) /\ Serves(p, k, e.json)
        BY <2>1, <2>2 DEF Serve, Serves
    <2>4. TypeOK' /\ Leaves({})
        BY <1>2, <2>1, <2>2 DEF TypeOK
    <2> QED BY <1>0, <2>1, <2>2, <2>3, <2>4 DEF UniqueKeys, DownInv, Adds
<1>4. CASE GetFromDisk(p, k)
    <2> DEFINE json == files[k].json
               e    == [key |-> k, json |-> json, created |-> now]
               es   == Append(entries[p], e)
    <2>1. /\ ~Has(entries[p], k)
          /\ files[k] # None
          /\ ~Expired(files[k].mtime)
          /\ json # None
          /\ entries' = [entries EXCEPT ![p] = es] \/ entries' = entries
          /\ Serve(p, k, json)
          /\ UNCHANGED files
        BY <1>4 DEF GetFromDisk
    <2>2. json \in Doc /\ json \in Loadable(k)
        BY <2>1 DEF TypeOK, File, Loadable
    <2>3. e \in Entry /\ e.key = k /\ entries[p] \in Seq(Entry) /\ Unique(entries[p])
        BY <1>0, <2>2 DEF Entry, TypeOK, UniqueKeys, Unique
    <2>4. es \in Seq(Entry) /\ Unique(es) /\ Elems(es) = Elems(entries[p]) \cup {e}
        BY <2>1, <2>3, AppendFacts
    <2>5. e.created = now /\ e.json = json
        OBVIOUS
    <2> HIDE DEF es, e
    <2>6. /\ entries' \in [Procs -> Seq(Entry)]
          /\ UniqueKeys'
          /\ DownInv'
          /\ Adds({json})
        <3>1. CASE entries' = entries
            BY <3>1, <1>0 DEF TypeOK, UniqueKeys, DownInv, Adds
        <3>2. CASE entries' = [entries EXCEPT ![p] = es]
            BY <3>2, <1>0, <2>4, <2>5, ListUpdate DEF DownInv, Adds
        <3> QED BY <2>1, <3>1, <3>2
    <2> HIDE DEF json
    <2>7. TypeOK' /\ Leaves({})
        BY <1>2, <2>1, <2>2, <2>6
    <2>8. ret' = Got(p, k, json) /\ Serves(p, k, json)
        BY <2>1, <2>2 DEF Serve, Serves
    <2> QED BY <2>2, <2>6, <2>7, <2>8 DEF Adds
<1>5. CASE GetFileGone(p, k)
    BY <1>1, <1>5 DEF GetFileGone
<1>6. CASE GetExpired(p, k)
    BY <1>1, <1>6 DEF GetExpired
<1>7. CASE GetMiss(p, k)
    BY <1>1, <1>7 DEF GetMiss
<1>8. CASE GetOutOfMemory(p, k)
    BY <1>1, <1>8 DEF GetOutOfMemory
<1> QED BY <1>3, <1>4, <1>5, <1>6, <1>7, <1>8 DEF Get

\* A process starts, ends, is killed or clears.
LEMMA LifeEffect ==
    ASSUME CacheTypes, NEW p \in Procs,
           \/ Create(p) \/ Clear(p) \/ ClearFails(p) \/ Destroy(p) \/ KilledInClear(p)
           \/ \E k \in Keys : KilledInSet(p, k)
    PROVE  /\ CacheTypes'
           /\ Adds({})
           /\ Leaves({})
           /\ now' = now
           /\ \A q \in Procs : q # p => entries'[q] = entries[q] /\ seen'[q] = seen[q]
<1> USE DEF CacheTypes
<1>1. <<>> \in Seq(Entry) /\ Unique(<<>>) /\ Elems(<<>>) = {}
    BY EmptySeq DEF Unique, Elems
<1>2. ASSUME entries' = [entries EXCEPT ![p] = <<>>]
      PROVE  /\ entries' \in [Procs -> Seq(Entry)]
             /\ UniqueKeys'
             /\ Adds({})
             /\ entries'[p] = <<>>
             /\ \A q \in Procs : q # p => entries'[q] = entries[q]
    BY <1>1, <1>2, ListUpdate DEF Adds
<1>3. CASE Create(p)
    BY <1>3 DEF Create, TypeOK, Returns, Idle, UniqueKeys, DownInv, Adds, Leaves
<1>4. CASE Clear(p) \/ ClearFails(p)
    <2>1. /\ Cleared(p)
          /\ files' \in [Keys -> File \cup {None}]
          /\ \A k \in Keys : files'[k] # None => files'[k] = files[k]
          /\ spared' \in SUBSET Doc
        BY <1>4, ClearFacts
    <2>2. TypeOK'
        BY <1>2, <2>1 DEF Cleared, TypeOK, Returns
    <2> QED BY <1>2, <2>1, <2>2 DEF Cleared, DownInv, Leaves
<1>5. CASE Destroy(p) \/ KilledInClear(p) \/ \E k \in Keys : KilledInSet(p, k)
    <2>1. /\ Gone(p)
          /\ files' \in [Keys -> File \cup {None}]
          /\ Leaves({})
        BY <1>5, KilledFiles DEF Leaves
    <2>2. TypeOK'
        BY <1>2, <2>1 DEF Gone, TypeOK, Returns, Idle
    <2>3. \A q \in Procs : q # p => seen'[q] = seen[q]
        BY <2>1 DEF Gone, TypeOK
    <2> QED BY <1>2, <2>1, <2>2, <2>3 DEF Gone, DownInv
<1> QED BY <1>3, <1>4, <1>5

-----------------------------------------------------------------------------
(* The inductive invariant.                                                *)

Whole(doc) == Parses(doc) /\ ~Refused(doc)

\* A file holds an answer that was fetched during the call which wrote it.
FilesAge ==
    \A k \in Keys : files[k] # None =>
        /\ files[k].mtime <= now
        /\ files[k].json # None =>
             /\ files[k].json.at <= files[k].mtime
             /\ files[k].mtime - files[k].json.at <= MaxCall
             /\ Whole(files[k].json)

\* An entry holds an answer fetched during a call, or loaded from a live file.
EntriesAge ==
    \A p \in Procs : \A e \in Elems(entries[p]) :
        /\ e.json.at <= e.created
        /\ e.created <= now
        /\ e.created - e.json.at <= TTL + MaxCall
        /\ Whole(e.json)

\* A call in progress has lasted at most MaxCall, and what it will store
\* came while it lasted.
CallsInv ==
    \A p \in Procs :
        /\ begun[p] <= now
        /\ pc[p] # "idle" => p \in up /\ key[p] \in Keys /\ now - begun[p] <= MaxCall
        /\ pc[p] = "store" => /\ http[p] # None
                              /\ begun[p] <= http[p].at
                              /\ http[p].at <= now
                              /\ Whole(http[p])

WeatherInv ==
    /\ WeatherTypeOK
    /\ UniqueKeys
    /\ DownInv
    /\ FilesAge
    /\ EntriesAge
    /\ CallsInv
    /\ AnswerAge

CallTypes ==
    /\ pc \in [Procs -> {"idle", "http", "store"}]
    /\ key \in [Procs -> Keys \cup {None}]
    /\ begun \in [Procs -> Nat]
    /\ http \in [Procs -> Doc \cup {None}]
    /\ answer \in Doc \cup {None}

LEMMA FilesAgeStep ==
    ASSUME WeatherInv, now' = now, NEW docs \in SUBSET Doc, Leaves(docs),
           \A d \in docs : d.at <= now /\ now - d.at <= MaxCall /\ Whole(d)
    PROVE  FilesAge'
<1> SUFFICES ASSUME NEW k \in Keys, files'[k] # None
             PROVE  /\ files'[k].mtime <= now
                    /\ files'[k].json # None =>
                         /\ files'[k].json.at <= files'[k].mtime
                         /\ files'[k].mtime - files'[k].json.at <= MaxCall
                         /\ Whole(files'[k].json)
    BY DEF FilesAge, Whole, Parses, Refused
<1>0. now \in Nat
    BY DEF WeatherInv, WeatherTypeOK, TypeOK
<1>1. CASE files'[k] = files[k]
    BY <1>1 DEF WeatherInv, FilesAge
<1>2. CASE \E d \in docs : files'[k] = [json |-> d, mtime |-> now]
    BY <1>0, <1>2
<1>3. CASE files'[k] = [json |-> None, mtime |-> now]
    BY <1>0, <1>3
<1> QED BY <1>1, <1>2, <1>3 DEF Leaves

LEMMA EntriesAgeStep ==
    ASSUME WeatherInv, now' = now, NEW docs \in SUBSET Doc, Adds(docs),
           \A d \in docs : d.at <= now /\ now - d.at <= TTL + MaxCall /\ Whole(d)
    PROVE  EntriesAge'
<1> SUFFICES ASSUME NEW p \in Procs, NEW e \in Elems(entries'[p])
             PROVE  /\ e.json.at <= e.created
                    /\ e.created <= now
                    /\ e.created - e.json.at <= TTL + MaxCall
                    /\ Whole(e.json)
    BY DEF EntriesAge, Whole, Parses, Refused
<1>0. now \in Nat
    BY DEF WeatherInv, WeatherTypeOK, TypeOK
<1>1. CASE e \in Elems(entries[p])
    BY <1>1 DEF WeatherInv, EntriesAge
<1>2. CASE e.created = now /\ e.json \in docs
    BY <1>0, <1>2
<1> QED BY <1>1, <1>2 DEF Adds

\* The age of what get loads and returns.
LEMMA ServedAge ==
    ASSUME WeatherInv, NEW p \in Procs, NEW k \in Keys
    PROVE  /\ Loadable(k) \in SUBSET Doc
           /\ \A d \in Loadable(k) : d.at <= now /\ now - d.at <= TTL + MaxCall /\ Whole(d)
           /\ \A json \in Doc : Serves(p, k, json)
                => now - json.at <= 2 * TTL + MaxCall /\ Whole(json)
<1>0. /\ now \in Nat /\ TTL \in Nat /\ MaxCall \in Nat /\ None \notin Doc
      /\ files \in [Keys -> File \cup {None}]
      /\ entries[p] \in Seq(Entry)
    BY TTLAssumption, MaxCallAssumption, NoneAssumption
       DEF WeatherInv, WeatherTypeOK, TypeOK
<1>1. ASSUME NEW d \in Loadable(k)
      PROVE  d \in Doc /\ d.at <= now /\ now - d.at <= TTL + MaxCall /\ Whole(d)
    <2>1. /\ files[k] \in File /\ d = files[k].json /\ d # None
          /\ ~(now - files[k].mtime > TTL)
        BY <1>0, <1>1 DEF Loadable, Expired
    <2>2. files[k].mtime \in Nat /\ d \in Doc /\ d.at \in Nat
        BY <2>1 DEF File, Doc
    <2>3. /\ files[k].mtime <= now
          /\ d.at <= files[k].mtime
          /\ files[k].mtime - d.at <= MaxCall
          /\ Whole(d)
        BY <1>0, <2>1 DEF WeatherInv, FilesAge, Loadable
    <2> QED BY <1>0, <2>1, <2>2, <2>3
<1>2. ASSUME NEW e \in Elems(entries[p]), ~Expired(e.created)
      PROVE  now - e.json.at <= 2 * TTL + MaxCall /\ Whole(e.json)
    <2>1. e.created \in Nat /\ e.json.at \in Nat
        BY <1>0, ElemsFacts DEF Entry, Doc
    <2>2. ~(now - e.created > TTL)
        BY <1>2 DEF Expired
    <2>3. e.created - e.json.at <= TTL + MaxCall /\ Whole(e.json)
        BY DEF WeatherInv, EntriesAge
    <2> QED BY <1>0, <2>1, <2>2, <2>3
<1>3. ASSUME NEW json \in Doc, Serves(p, k, json)
      PROVE  now - json.at <= 2 * TTL + MaxCall /\ Whole(json)
    <2>1. CASE json \in Loadable(k)
        <3>1. json.at \in Nat
            BY DEF Doc
        <3> QED BY <1>0, <1>1, <2>1, <3>1
    <2> QED BY <1>0, <1>2, <1>3, <2>1 DEF Serves
<1> QED BY <1>1, <1>3

-----------------------------------------------------------------------------
(* One lemma per action.                                                   *)

\* What make_request leaves when it returns.
LEMMA ReturnFacts ==
    ASSUME CallTypes, NEW p \in Procs, NEW json \in Doc \cup {None}, Return(p, json)
    PROVE  /\ pc' \in [Procs -> {"idle", "http", "store"}]
           /\ begun' \in [Procs -> Nat]
           /\ answer' \in Doc \cup {None}
           /\ pc'[p] = "idle" /\ begun'[p] = 0
           /\ \A q \in Procs : q # p => pc'[q] = pc[q] /\ begun'[q] = begun[q]
BY DEF CallTypes, Return

LEMMA LookUpStep ==
    ASSUME WeatherInv, NEW p \in Procs, NEW k \in Keys, LookUp(p, k)
    PROVE  WeatherInv'
<1> USE DEF WeatherInv, WeatherTypeOK
<1>0. /\ CallTypes /\ CacheTypes /\ Get(p, k) /\ now' = now /\ up' = up /\ now \in Nat
      /\ p \in up /\ pc[p] = "idle" /\ http' = http /\ key' = [key EXCEPT ![p] = k]
      /\ MaxCall \in Nat
    BY MaxCallAssumption DEF LookUp, Get, CallTypes, CacheTypes, TypeOK
<1>1. PICK json \in Doc \cup {None} : ret' = Got(p, k, json) /\ Serves(p, k, json)
    BY <1>0, GetEffect
<1>2. CacheTypes' /\ Adds(Loadable(k)) /\ Leaves({})
    BY <1>0, GetEffect
<1>3. FilesAge' /\ EntriesAge'
    BY <1>0, <1>2, FilesAgeStep, EntriesAgeStep, ServedAge
<1>4. ret'.json = json
    BY <1>1 DEF Got
<1>5. CASE json # None /\ Parses(json)
    <2>1. Return(p, json)
        BY <1>0, <1>4, <1>5 DEF LookUp
    <2>2. CallTypes'
        BY <1>0, <2>1, ReturnFacts DEF CallTypes
    <2>3. CallsInv'
        BY <1>0, <2>1, ReturnFacts DEF CallsInv, CallTypes, Whole, Parses, Refused
    <2>4. AnswerAge'
        <3>1. now - json.at <= 2 * TTL + MaxCall
            BY <1>1, <1>5, ServedAge
        <3> QED BY <1>0, <2>1, <3>1 DEF AnswerAge, Return
    <2> QED BY <1>2, <1>3, <2>2, <2>3, <2>4 DEF CacheTypes, CallTypes
<1>6. CASE ~(json # None /\ Parses(json))
    <2>1. /\ pc' = [pc EXCEPT ![p] = "http"]
          /\ begun' = [begun EXCEPT ![p] = now]
          /\ answer' = None
        BY <1>4, <1>6 DEF LookUp
    <2>2. CallTypes' /\ AnswerAge'
        BY <1>0, <2>1 DEF CallTypes, AnswerAge
    <2>3. CallsInv'
        BY <1>0, <2>1 DEF CallsInv, CallTypes, Whole, Parses, Refused
    <2> QED BY <1>2, <1>3, <2>2, <2>3 DEF CacheTypes, CallTypes
<1> QED BY <1>5, <1>6

\* The steps that leave the cache alone.
LEMMA CacheKept ==
    ASSUME WeatherInv, UNCHANGED vars
    PROVE  TypeOK' /\ UniqueKeys' /\ DownInv' /\ FilesAge' /\ EntriesAge'
BY DEF WeatherInv, WeatherTypeOK, vars, TypeOK, UniqueKeys, DownInv, FilesAge, EntriesAge,
       Whole, Parses, Refused

\* A document fetched in this step.
LEMMA FreshFacts ==
    ASSUME TypeOK, NEW doc \in Fresh
    PROVE  doc \in Doc /\ doc.at = now /\ doc.era = clears
BY DEF TypeOK, Fresh, Doc

LEMMA HttpStep ==
    ASSUME WeatherInv, NEW p \in Procs,
           (\E doc \in Fresh : HttpGives(p, doc)) \/ HttpFails(p)
    PROVE  WeatherInv'
<1> USE DEF WeatherInv, WeatherTypeOK
<1>0. /\ CallTypes /\ UNCHANGED <<vars, key>> /\ pc[p] = "http" /\ now \in Nat
      /\ now' = now /\ up' = up /\ None \notin Doc
    BY NoneAssumption DEF HttpGives, HttpFails, vars, CallTypes, TypeOK
<1>1. TypeOK' /\ UniqueKeys' /\ DownInv' /\ FilesAge' /\ EntriesAge'
    BY <1>0, CacheKept
<1>2. ASSUME Fail(p), NEW body \in Doc \cup {None}, http' = [http EXCEPT ![p] = body]
      PROVE  CallTypes' /\ CallsInv' /\ AnswerAge'
    <2>1. CallTypes'
        BY <1>0, <1>2, ReturnFacts DEF Fail, CallTypes
    <2>2. CallsInv'
        BY <1>0, <1>2, ReturnFacts DEF Fail, CallsInv, CallTypes, Whole, Parses, Refused
    <2> QED BY <1>2, <2>1, <2>2 DEF AnswerAge, Fail, Return
<1>3. ASSUME NEW doc \in Fresh, HttpGives(p, doc)
      PROVE  CallTypes' /\ CallsInv' /\ AnswerAge'
    <2>1. doc \in Doc /\ doc.at = now /\ http' = [http EXCEPT ![p] = doc]
        BY <1>3, FreshFacts DEF HttpGives
    <2>2. CASE Whole(doc)
        <3>1. pc' = [pc EXCEPT ![p] = "store"] /\ answer' = None /\ begun' = begun
            BY <1>3, <2>2 DEF HttpGives, Whole
        <3>2. CallTypes' /\ AnswerAge'
            BY <1>0, <2>1, <3>1 DEF CallTypes, AnswerAge
        <3>3. CallsInv'
            <4> SUFFICES ASSUME NEW q \in Procs
                         PROVE  /\ begun[q] <= now
                                /\ pc'[q] # "idle" => q \in up /\ key[q] \in Keys
                                                      /\ now - begun[q] <= MaxCall
                                /\ pc'[q] = "store" => /\ http'[q] # None
                                                       /\ begun[q] <= http'[q].at
                                                       /\ http'[q].at <= now
                                                       /\ Whole(http'[q])
                BY <1>0, <3>1 DEF CallsInv, Whole, Parses, Refused
            <4>1. CASE q = p
                BY <1>0, <2>1, <2>2, <3>1, <4>1 DEF CallsInv, CallTypes
            <4>2. CASE q # p
                BY <1>0, <2>1, <3>1, <4>2 DEF CallsInv, CallTypes
            <4> QED BY <4>1, <4>2
        <3> QED BY <3>2, <3>3
    <2>3. CASE ~Whole(doc)
        BY <1>2, <1>3, <2>1, <2>3 DEF HttpGives, Whole
    <2> QED BY <2>2, <2>3
<1>4. ASSUME HttpFails(p)
      PROVE  CallTypes' /\ CallsInv' /\ AnswerAge'
    <2>1. PICK body \in {http[p], None} \cup Fresh : http' = [http EXCEPT ![p] = body]
        BY <1>4 DEF HttpFails
    <2>2. body \in Doc \cup {None}
        BY <1>0, <2>1, FreshFacts DEF CallTypes
    <2> QED BY <1>2, <1>4, <2>1, <2>2 DEF HttpFails
<1> QED BY <1>1, <1>3, <1>4 DEF CallTypes

\* What a request stores was fetched during it.
LEMMA StoreStep ==
    ASSUME WeatherInv, NEW p \in Procs, Store(p)
    PROVE  WeatherInv'
<1> USE DEF WeatherInv, WeatherTypeOK
<1> DEFINE doc == http[p]
<1>0. /\ CallTypes /\ CacheTypes /\ now \in Nat /\ TTL \in Nat /\ MaxCall \in Nat
      /\ pc[p] = "store" /\ Set(p, key[p], doc) /\ Return(p, doc)
      /\ key' = key /\ http' = http /\ now' = now /\ up' = up
    BY TTLAssumption, MaxCallAssumption
       DEF Store, Set, CallTypes, CacheTypes, TypeOK
<1>1. /\ key[p] \in Keys /\ doc \in Doc /\ doc.at \in Nat /\ begun[p] \in Nat
      /\ doc.at <= now /\ now - begun[p] <= MaxCall /\ begun[p] <= doc.at
      /\ Whole(doc)
    BY <1>0 DEF CallsInv, CallTypes, Doc
<1> HIDE DEF doc
<1>2. now - doc.at <= MaxCall
    BY <1>0, <1>1
<1>3. CacheTypes' /\ Adds({doc}) /\ Leaves({doc})
    BY <1>0, <1>1, SetEffect
<1>4. FilesAge'
    BY <1>0, <1>1, <1>2, <1>3, FilesAgeStep
<1>5. now - doc.at <= TTL + MaxCall /\ now - doc.at <= 2 * TTL + MaxCall
    BY <1>0, <1>1, <1>2
<1>6. EntriesAge'
    BY <1>0, <1>1, <1>3, <1>5, EntriesAgeStep
<1>7. CallTypes'
    BY <1>0, <1>1, ReturnFacts DEF CallTypes
<1>8. CallsInv'
    BY <1>0, <1>1, ReturnFacts DEF CallsInv, CallTypes, Whole, Parses, Refused
<1>9. AnswerAge'
    BY <1>0, <1>5 DEF AnswerAge, Return
<1> QED BY <1>3, <1>4, <1>6, <1>7, <1>8, <1>9 DEF CacheTypes, CallTypes

LEMMA EchoStep ==
    ASSUME WeatherInv, NEW p \in Procs, Echo(p)
    PROVE  WeatherInv'
<1> USE DEF WeatherInv, WeatherTypeOK
<1>0. /\ CallTypes /\ UNCHANGED <<vars, pc, key, begun>> /\ answer' = None
      /\ pc[p] = "idle" /\ now' = now /\ up' = up
    BY DEF Echo, vars, CallTypes
<1>1. TypeOK' /\ UniqueKeys' /\ DownInv' /\ FilesAge' /\ EntriesAge'
    BY <1>0, CacheKept
<1>2. PICK body \in Fresh \cup {None} : http' = [http EXCEPT ![p] = body]
    BY DEF Echo
<1>3. body \in Doc \cup {None}
    BY <1>2, FreshFacts
<1>4. CallTypes' /\ AnswerAge'
    BY <1>0, <1>2, <1>3 DEF CallTypes, AnswerAge
<1>5. CallsInv'
    BY <1>0, <1>2 DEF CallsInv, CallTypes, Whole, Parses, Refused
<1> QED BY <1>1, <1>4, <1>5 DEF CallTypes

\* A client is made or goes, between two calls or inside one, or clears.
LEMMA LifeStep ==
    ASSUME WeatherInv, NEW p \in Procs, Start(p) \/ End(p) \/ ClearCache(p)
    PROVE  WeatherInv'
<1> USE DEF WeatherInv, WeatherTypeOK
<1>0. CallTypes /\ CacheTypes /\ now \in Nat
    BY DEF CallTypes, CacheTypes, TypeOK
<1>1. \/ Create(p) \/ Clear(p) \/ ClearFails(p) \/ Destroy(p) \/ KilledInClear(p)
      \/ \E k \in Keys : KilledInSet(p, k)
    BY DEF Start, End, ClearCache, CallsInv
<1>2. CacheTypes' /\ Adds({}) /\ Leaves({}) /\ now' = now
    BY <1>0, <1>1, LifeEffect
<1>3. FilesAge' /\ EntriesAge'
    BY <1>2, FilesAgeStep, EntriesAgeStep
<1>4. \A q \in Procs : q # p => (q \in up <=> q \in up')
    BY <1>1 DEF Create, Clear, ClearFails, Cleared, Destroy, KilledInClear, KilledInSet, Gone
<1>5. CASE Start(p) \/ End(p)
    <2>1. Forget(p)
        BY <1>5 DEF Start, End
    <2>2. CallTypes' /\ AnswerAge'
        BY <1>0, <2>1 DEF Forget, CallTypes, AnswerAge
    <2>3. CallsInv'
        BY <1>0, <1>2, <1>4, <2>1 DEF Forget, CallsInv, CallTypes, Whole, Parses, Refused
    <2> QED BY <1>2, <1>3, <2>2, <2>3 DEF CacheTypes, CallTypes
<1>6. CASE ClearCache(p)
    <2>1. UNCHANGED <<pc, key, begun, http, up>> /\ answer' = None
        BY <1>6 DEF ClearCache, Clear, ClearFails, Cleared
    <2>2. CallTypes' /\ AnswerAge' /\ CallsInv'
        BY <1>0, <1>2, <2>1 DEF CallTypes, AnswerAge, CallsInv, Whole, Parses, Refused
    <2> QED BY <1>2, <1>3, <2>2 DEF CacheTypes, CallTypes
<1> QED BY <1>5, <1>6

\* The clock waits for no call that has lasted MaxCall.
LEMMA TimeStep ==
    ASSUME WeatherInv, Time
    PROVE  WeatherInv'
<1> USE DEF WeatherInv, WeatherTypeOK
<1>0. /\ CallTypes /\ now \in Nat /\ now' = now + 1 /\ MaxCall \in Nat /\ answer' = None
      /\ UNCHANGED <<clears, up, entries, files, seen, since, spared, pc, key, begun, http>>
    BY MaxCallAssumption DEF Time, Tick, CallTypes, TypeOK
<1>1. TypeOK' /\ UniqueKeys' /\ DownInv'
    BY <1>0 DEF Time, Tick, TypeOK, Returns, Idle, UniqueKeys, DownInv
<1>2. FilesAge'
    BY <1>0 DEF FilesAge, TypeOK, File, Whole, Parses, Refused
<1>3. EntriesAge'
    <2> SUFFICES ASSUME NEW p \in Procs, NEW e \in Elems(entries[p])
                 PROVE  /\ e.json.at <= e.created
                        /\ e.created <= now'
                        /\ e.created - e.json.at <= TTL + MaxCall
                        /\ Whole(e.json)
        BY <1>0 DEF EntriesAge, Whole, Parses, Refused
    <2>1. e.created \in Nat
        BY ElemsFacts, entries[p] \in Seq(Entry) DEF TypeOK, Entry
    <2> QED BY <1>0, <2>1 DEF EntriesAge
<1>4. CallTypes' /\ AnswerAge'
    BY <1>0 DEF CallTypes, AnswerAge
<1>5. CallsInv'
    <2> SUFFICES ASSUME NEW p \in Procs
                 PROVE  /\ begun[p] <= now'
                        /\ pc[p] # "idle" => p \in up /\ key[p] \in Keys
                                              /\ now' - begun[p] <= MaxCall
                        /\ pc[p] = "store" => /\ http[p] # None
                                              /\ begun[p] <= http[p].at
                                              /\ http[p].at <= now'
                                              /\ Whole(http[p])
        BY <1>0 DEF CallsInv, Whole, Parses, Refused
    <2>1. begun[p] \in Nat /\ (http[p] # None => http[p].at \in Nat)
        BY <1>0 DEF CallTypes, Doc
    <2>2. pc[p] # "idle" => now - begun[p] < MaxCall
        BY DEF Time
    <2> QED BY <1>0, <2>1, <2>2 DEF CallsInv
<1> QED BY <1>1, <1>2, <1>3, <1>4, <1>5 DEF CallTypes

LEMMA InitWeatherInv == WeatherInit => WeatherInv
<1> SUFFICES ASSUME WeatherInit PROVE WeatherInv
    OBVIOUS
<1> USE DEF WeatherInit
<1>1. IInv
    BY InitIInv
<1>2. WeatherTypeOK /\ UniqueKeys /\ DownInv
    BY <1>1 DEF IInv, WeatherTypeOK
<1>3. FilesAge /\ EntriesAge
    BY DEF Init, FilesAge, EntriesAge, Elems
<1>4. CallsInv /\ AnswerAge
    BY DEF Init, CallsInv, AnswerAge
<1> QED BY <1>2, <1>3, <1>4 DEF WeatherInv

LEMMA NextWeatherInv == WeatherInv /\ [WeatherNext]_weatherVars => WeatherInv'
<1> SUFFICES ASSUME WeatherInv, [WeatherNext]_weatherVars PROVE WeatherInv'
    OBVIOUS
<1>1. CASE UNCHANGED weatherVars
    <2>1. UNCHANGED vars /\ UNCHANGED callVars
        BY <1>1 DEF weatherVars
    <2>2. CallsInv' /\ AnswerAge'
        BY <2>1 DEF WeatherInv, vars, callVars, CallsInv, AnswerAge, Whole, Parses, Refused
    <2> QED BY <2>1, <2>2, CacheKept DEF WeatherInv, WeatherTypeOK, callVars
<1>2. CASE WeatherNext
    BY <1>2, TimeStep, LifeStep, EchoStep, LookUpStep, HttpStep, StoreStep DEF WeatherNext
<1> QED BY <1>1, <1>2

\* The inductive invariant holds of every reachable state.
THEOREM WeatherInvariance == WeatherSpec => []WeatherInv
BY InitWeatherInv, NextWeatherInv, PTL DEF WeatherSpec

\* For any number of processes and any interleaving of their calls, a
\* request stores what it fetched itself, never an earlier request's body.
THEOREM RequestsStoreTheirOwn == WeatherSpec => []StoresItsOwn
<1>1. WeatherInv => StoresItsOwn
    BY DEF WeatherInv, WeatherTypeOK, CallsInv, StoresItsOwn, Doc
<1> QED BY <1>1, WeatherInvariance, PTL

\* However calls interleave and saves fail, no list and no file of any
\* process ever holds a refusal or half an answer.
THEOREM CacheHoldsAnswers == WeatherSpec => []OnlyAnswersCached
<1>1. WeatherInv => OnlyAnswersCached
    BY DEF WeatherInv, FilesAge, EntriesAge, Whole, OnlyAnswersCached, Elems
<1> QED BY <1>1, WeatherInvariance, PTL

\* For every TTL and every length of a call, no request returns an answer
\* fetched longer ago than the two lives in the cache and one call.
THEOREM AnswersAreBounded == WeatherSpec => []AnswerAge
<1>1. WeatherInv => AnswerAge
    BY DEF WeatherInv
<1> QED BY <1>1, WeatherInvariance, PTL

-----------------------------------------------------------------------------
(* From one request to the next, an answer goes back by one call at most.  *)

\* An entry of p is at most one call older than what p has seen; without
\* one, the file was written no earlier than what p has seen was fetched.
NearAt(p, k) ==
    /\ seen[p][k] <= now
    /\ \A e \in Elems(entries[p]) : e.key = k => seen[p][k] - e.json.at <= MaxCall
    /\ ~Has(entries[p], k) /\ files[k] # None => seen[p][k] <= files[k].mtime

NearInv == \A p \in Procs, k \in Keys : NearAt(p, k)

GoesBackOneCall ==
    answer' # None => answer'.at >= seen[ret'.proc][ret'.key] - MaxCall

\* What one process does to the files costs no other process its NearAt.
LEMMA NearOthers ==
    ASSUME NearInv, NEW q \in Procs, NEW k \in Keys, now' = now, NEW docs, Leaves(docs),
           entries'[q] = entries[q], seen'[q] = seen[q]
    PROVE  NearAt(q, k)'
<1>1. NearAt(q, k)
    BY DEF NearInv
<1>2. CASE files'[k] = None
    BY <1>1, <1>2 DEF NearAt
<1>3. CASE files'[k] = files[k]
    BY <1>1, <1>3 DEF NearAt
<1>4. CASE \E d \in docs : files'[k] = [json |-> d, mtime |-> now]
    BY <1>1, <1>4 DEF NearAt
<1>5. CASE files'[k] = [json |-> None, mtime |-> now]
    BY <1>1, <1>5 DEF NearAt
<1> QED BY <1>2, <1>3, <1>4, <1>5 DEF Leaves

\* A store replaces what its key held, and evicts a key with its file.
LEMMA NearSet ==
    ASSUME WeatherInv, NearInv, NEW p \in Procs, NEW k \in Keys, NEW doc \in Doc,
           doc.at <= now, Set(p, k, doc)
    PROVE  NearInv'
<1> USE DEF WeatherInv, WeatherTypeOK
<1> DEFINE rest == Without(entries[p], k)
           e    == [key |-> k, json |-> doc, created |-> now]
           es   == Append(Evicted(rest), e)
<1>0. /\ now \in Nat /\ MaxCall \in Nat /\ doc.at \in Nat
      /\ e \in Entry /\ e.key = k /\ e.json = doc
      /\ CacheTypes /\ entries[p] \in Seq(Entry)
      /\ files \in [Keys -> File \cup {None}]
    BY MaxCallAssumption DEF TypeOK, Entry, Doc, CacheTypes
<1>1. /\ es \in Seq(Entry)
      /\ Elems(es) = {e} \cup {x \in Elems(entries[p]) : x.key # k /\ x.key \notin Victims(rest)}
    BY <1>0, StoreFacts
<1>2. Leaves({doc})
    BY <1>0, SetEffect
<1>3. /\ now' = now
      /\ entries'[p] = es
      /\ seen'[p][k] = doc.at
      /\ \A j \in Keys : j # k => seen'[p][j] = seen[p][j]
      /\ \A q \in Procs : q # p => entries'[q] = entries[q] /\ seen'[q] = seen[q]
    BY DEF Set, TypeOK
<1>4. PICK fs \in Deletions(files, Victims(rest)) : files' \in Saves(fs, k, doc)
    BY DEF Set
<1> HIDE DEF es, rest, e
<1>5. \A j \in Keys \ {k} : files'[j] = IF j \in Victims(rest) THEN None ELSE files[j]
    BY <1>0, <1>4, FilesAssumption DEF Deletions, Unlinks, Saves
<1>6. ASSUME NEW q \in Procs, NEW j \in Keys, q # p PROVE NearAt(q, j)'
    BY <1>2, <1>3, <1>6, NearOthers
<1>7. NearAt(p, k)'
    <2>1. Has(es, k)
        BY <1>0, <1>1, ElemsFacts
    <2>2. \A x \in Elems(es) : x.key = k => x = e
        BY <1>1
    <2> QED BY <2>1, <2>2, <1>0, <1>3 DEF NearAt
<1>8. ASSUME NEW j \in Keys, j # k PROVE NearAt(p, j)'
    <2>1. NearAt(p, j) /\ seen'[p][j] = seen[p][j]
        BY <1>3, <1>8 DEF NearInv
    <2>2. \A x \in Elems(es) : x.key = j => x \in Elems(entries[p])
        BY <1>0, <1>1, <1>8
    <2>3. ASSUME ~Has(es, j), files'[j] # None
          PROVE  ~Has(entries[p], j) /\ files'[j] = files[j]
        <3>1. j \notin Victims(rest) /\ files'[j] = files[j]
            BY <2>3, <1>5, <1>8
        <3>2. ~ \E x \in Elems(entries[p]) : x.key = j
            BY <2>3, <3>1, <1>1, <1>8, ElemsFacts
        <3> QED BY <3>1, <3>2, <1>0, ElemsFacts
    <2> QED BY <2>1, <2>2, <2>3, <1>3 DEF NearAt
<1> QED BY <1>6, <1>7, <1>8 DEF NearInv

\* A get that returns nothing and drops the entry has found or left no file.
LEMMA NearMiss ==
    ASSUME WeatherInv, NearInv, NEW p \in Procs, NEW k \in Keys, Miss(p, k), now' = now,
           \A j \in Keys : files'[j] = None \/ files'[j] = files[j],
           \/ entries' = entries
           \/ entries' = [entries EXCEPT ![p] = Without(@, k)] /\ files'[k] = None
    PROVE  NearInv'
<1> USE DEF WeatherInv, WeatherTypeOK
<1>1. /\ entries[p] \in Seq(Entry)
      /\ Without(entries[p], k) \in Seq(Entry)
      /\ Elems(Without(entries[p], k)) = {e \in Elems(entries[p]) : e.key # k}
    BY DropFacts DEF TypeOK
<1>2. /\ seen' = seen
      /\ \A q \in Procs : q # p => entries'[q] = entries[q]
    BY DEF Miss, TypeOK
<1>3. Leaves({})
    BY DEF Leaves
<1>4. ASSUME NEW q \in Procs, NEW j \in Keys, q # p PROVE NearAt(q, j)'
    BY <1>2, <1>3, <1>4, NearOthers
<1>5. ASSUME NEW j \in Keys PROVE NearAt(p, j)'
    <2>0. NearAt(p, j) /\ seen'[p][j] = seen[p][j]
        BY <1>2 DEF NearInv
    <2>1. CASE entries' = entries
        BY <2>0, <2>1 DEF NearAt
    <2>2. CASE entries' = [entries EXCEPT ![p] = Without(@, k)] /\ files'[k] = None
        <3>1. entries'[p] = Without(entries[p], k)
            BY <2>2 DEF TypeOK
        <3>2. CASE j = k
            BY <2>0, <2>2, <3>1, <3>2, <1>1 DEF NearAt
        <3>3. CASE j # k
            <4> HIDE DEF WeatherInv, WeatherTypeOK
            <4>1. Has(entries'[p], j) <=> Has(entries[p], j)
                BY <1>1, <3>1, <3>3, ElemsFacts
            <4> QED BY <2>0, <3>1, <4>1, <1>1 DEF NearAt
        <3> QED BY <3>2, <3>3
    <2> QED BY <2>1, <2>2
<1> QED BY <1>4, <1>5 DEF NearInv

\* A get that returns a document not too old for p leaves it as k's entry.
LEMMA NearServe ==
    ASSUME WeatherInv, NearInv, NEW p \in Procs, NEW k \in Keys, NEW json \in Doc,
           Serve(p, k, json), UNCHANGED <<now, files>>,
           json.at <= now, seen[p][k] - json.at <= MaxCall,
           \A q \in Procs : q # p => entries'[q] = entries[q],
           \A e \in Elems(entries'[p]) : e.key = k => e.json = json,
           Has(entries'[p], k),
           \A e \in Elems(entries'[p]) : e.key # k => e \in Elems(entries[p]),
           \A j \in Keys : j # k => (Has(entries'[p], j) <=> Has(entries[p], j))
    PROVE  NearInv'
<1>1. json.at \in Nat /\ seen[p][k] \in Nat /\ MaxCall \in Nat /\ now \in Nat
    BY MaxCallAssumption DEF Doc, WeatherInv, WeatherTypeOK, TypeOK
<1>2. /\ seen'[p][k] = Newest(seen[p][k], json.at)
      /\ \A j \in Keys : j # k => seen'[p][j] = seen[p][j]
      /\ \A q \in Procs : q # p => seen'[q] = seen[q]
    BY DEF Serve, WeatherInv, WeatherTypeOK, TypeOK
<1>3. Leaves({})
    BY DEF Leaves
<1>4. ASSUME NEW q \in Procs, NEW j \in Keys, q # p PROVE NearAt(q, j)'
    BY <1>2, <1>3, <1>4, NearOthers
<1>5. NearAt(p, k)'
    <2>1. seen[p][k] <= now
        BY DEF NearInv, NearAt
    <2>2. seen'[p][k] <= now /\ seen'[p][k] - json.at <= MaxCall
        BY <1>1, <1>2, <2>1 DEF Newest
    <2> QED BY <2>2 DEF NearAt
<1>6. ASSUME NEW j \in Keys, j # k PROVE NearAt(p, j)'
    <2>1. NearAt(p, j)
        BY DEF NearInv
    <2> QED BY <1>2, <1>6, <2>1 DEF NearAt
<1> QED BY <1>4, <1>5, <1>6 DEF NearInv

LEMMA NearGet ==
    ASSUME WeatherInv, NearInv, NEW p \in Procs, NEW k \in Keys, Get(p, k)
    PROVE  /\ NearInv'
           /\ ret'.proc = p /\ ret'.key = k
           /\ ret'.json # None => seen[p][k] - ret'.json.at <= MaxCall
<1> USE DEF WeatherInv, WeatherTypeOK
<1>0. /\ now' = now /\ now \in Nat /\ entries[p] \in Seq(Entry) /\ NearAt(p, k)
      /\ MaxCall \in Nat /\ seen[p][k] \in Nat /\ files \in [Keys -> File \cup {None}]
    BY MaxCallAssumption DEF Get, TypeOK, NearInv
<1>1. ASSUME Miss(p, k), NearInv'
      PROVE  /\ NearInv'
             /\ ret'.proc = p /\ ret'.key = k
             /\ ret'.json # None => seen[p][k] - ret'.json.at <= MaxCall
    BY <1>1 DEF Miss, Got
<1>2. ASSUME NEW json, Serve(p, k, json), seen[p][k] - json.at <= MaxCall, NearInv'
      PROVE  /\ NearInv'
             /\ ret'.proc = p /\ ret'.key = k
             /\ ret'.json # None => seen[p][k] - ret'.json.at <= MaxCall
    BY <1>2 DEF Serve, Got
<1>3. CASE GetHit(p, k)
    <2> DEFINE e == entries[p][Find(entries[p], k)]
    <2>1. e \in Elems(entries[p]) /\ e.key = k /\ Has(entries[p], k)
        BY <1>0, <1>3, FindFacts DEF GetHit
    <2>2. e \in Entry /\ e.json \in Doc /\ e.json.at \in Nat /\ e.created \in Nat
        <3>1. e \in Entry
            BY <1>0, <2>1, ElemsFacts
        <3> QED BY <3>1 DEF Entry, Doc
    <2>3. Serve(p, k, e.json) /\ UNCHANGED <<entries, files>>
        BY <1>3 DEF GetHit
    <2>4. \A x \in Elems(entries[p]) : x.key = k => x = e
        BY <2>1 DEF Elems, UniqueKeys
    <2> HIDE DEF e
    <2>5. seen[p][k] - e.json.at <= MaxCall
        BY <1>0, <2>1 DEF NearAt
    <2>6. e.json.at <= now
        <3>1. e.json.at <= e.created /\ e.created <= now
            BY <2>1 DEF EntriesAge
        <3> QED BY <1>0, <2>2, <3>1
    <2>7. NearInv'
        BY <1>0, <2>1, <2>2, <2>3, <2>4, <2>5, <2>6, NearServe, SMTT(30)
    <2> QED BY <1>2, <2>3, <2>5, <2>7
<1>4. CASE GetFileGone(p, k)
    BY <1>0, <1>1, <1>4, NearMiss DEF GetFileGone
<1>5. CASE GetExpired(p, k)
    <2>1. /\ Miss(p, k)
          /\ entries' = [entries EXCEPT ![p] = Without(@, k)]
          /\ files' \in Deletions(files, {k})
        BY <1>5 DEF GetExpired
    <2>2. files'[k] = None /\ \A j \in Keys : files'[j] = None \/ files'[j] = files[j]
        BY <1>0, <2>1, FilesAssumption, DeletionFacts, SMTT(30)
    <2> QED BY <1>0, <1>1, <2>1, <2>2, NearMiss
<1>6. CASE GetFromDisk(p, k)
    <2> DEFINE json == files[k].json
               e    == [key |-> k, json |-> json, created |-> now]
               es   == Append(entries[p], e)
    <2>1. /\ ~Has(entries[p], k)
          /\ files[k] # None
          /\ json # None
          /\ entries' = [entries EXCEPT ![p] = es]
          /\ Serve(p, k, json)
          /\ UNCHANGED files
        BY <1>6, FilesAssumption DEF GetFromDisk
    <2>2. json \in Doc /\ json.at \in Nat /\ files[k].mtime \in Nat
        BY <2>1, <1>0 DEF File, Doc
    <2>3. json.at <= now /\ seen[p][k] - json.at <= MaxCall
        <3>1. /\ files[k].mtime <= now
              /\ json.at <= files[k].mtime
              /\ files[k].mtime - json.at <= MaxCall
            BY <2>1 DEF FilesAge
        <3>2. seen[p][k] <= files[k].mtime
            BY <2>1, <1>0 DEF NearAt
        <3> HIDE DEF json
        <3> QED BY <1>0, <2>2, <3>1, <3>2
    <2>4. e \in Entry /\ e.key = k /\ e.json = json /\ Unique(entries[p])
        BY <1>0, <2>2 DEF Entry, UniqueKeys, Unique
    <2>5. es \in Seq(Entry) /\ Elems(es) = Elems(entries[p]) \cup {e}
        BY <2>1, <2>4, <1>0, AppendFacts
    <2>6. entries'[p] = es /\ \A q \in Procs : q # p => entries'[q] = entries[q]
        BY <2>1 DEF TypeOK
    <2> HIDE DEF es, e, json
    <2>7. \A j \in Keys : j # k => (Has(es, j) <=> Has(entries[p], j))
        BY <1>0, <2>4, <2>5, ElemsFacts
    <2>8. Has(es, k) /\ \A x \in Elems(es) : x.key = k => x = e
        BY <1>0, <2>1, <2>4, <2>5, ElemsFacts
    <2>9. NearInv'
        <3> HIDE DEF WeatherInv, WeatherTypeOK
        <3> QED BY <1>0, <2>1, <2>2, <2>3, <2>4, <2>5, <2>6, <2>7, <2>8, NearServe
    <2> QED BY <1>2, <2>1, <2>3, <2>9
<1>7. CASE GetMiss(p, k)
    <2>1. Miss(p, k) /\ entries' = entries /\ files' \in {files} \cup Deletions(files, {k})
        BY <1>7 DEF GetMiss
    <2>2. \A j \in Keys : files'[j] = None \/ files'[j] = files[j]
        BY <1>0, <2>1, DeletionFacts
    <2> QED BY <1>0, <1>1, <2>1, <2>2, NearMiss
<1>8. CASE GetOutOfMemory(p, k)
    BY <1>8, FilesAssumption DEF GetOutOfMemory
<1> QED BY <1>3, <1>4, <1>5, <1>6, <1>7, <1>8 DEF Get

\* A process that ends has seen nothing when it starts again, and a clear
\* leaves it nothing to go back to but a file it had no entry of.
LEMMA NearLife ==
    ASSUME WeatherInv, NearInv, NEW p \in Procs,
           \/ Create(p) \/ Clear(p) \/ ClearFails(p) \/ Destroy(p) \/ KilledInClear(p)
           \/ \E k \in Keys : KilledInSet(p, k)
    PROVE  NearInv'
<1>0. CacheTypes /\ now \in Nat
    BY DEF WeatherInv, WeatherTypeOK, CacheTypes, TypeOK
<1>1. /\ CacheTypes' /\ Leaves({}) /\ now' = now
      /\ \A q \in Procs : q # p => entries'[q] = entries[q] /\ seen'[q] = seen[q]
    BY <1>0, LifeEffect
<1>2. ASSUME NEW q \in Procs, NEW k \in Keys, q # p PROVE NearAt(q, k)'
    BY <1>1, <1>2, NearOthers
<1>3. Elems(<<>>) = {}
    BY DEF Elems
<1>4. ASSUME NEW k \in Keys PROVE NearAt(p, k)'
    <2>1. CASE Create(p)
        BY <2>1, <1>1, NearOthers DEF Create
    <2>2. CASE Clear(p) \/ ClearFails(p)
        <3>1. entries'[p] = <<>> /\ seen'[p] = seen[p]
            BY <2>2, <1>0 DEF Clear, ClearFails, Cleared, CacheTypes, TypeOK
        <3>2. files'[k] = None \/ (~Has(entries[p], k) /\ files'[k] = files[k])
            BY <2>2, <1>0, FilesAssumption
               DEF Clear, ClearFails, Listed, Deletions, Unlinks, CacheTypes, TypeOK
        <3> QED BY <3>1, <3>2, <1>1, <1>3 DEF NearInv, NearAt
    <2>3. CASE Destroy(p) \/ KilledInClear(p) \/ \E j \in Keys : KilledInSet(p, j)
        <3>1. Gone(p)
            BY <2>3 DEF Destroy, KilledInClear, KilledInSet
        <3>2. entries'[p] = <<>> /\ seen'[p][k] = 0
            BY <3>1, <1>0 DEF Gone, CacheTypes, TypeOK
        <3>3. files'[k] # None => files'[k].mtime \in Nat
            BY <1>1 DEF CacheTypes, TypeOK, File
        <3> QED BY <3>2, <3>3, <1>0, <1>1, <1>3 DEF NearAt
    <2> QED BY <2>1, <2>2, <2>3
<1> QED BY <1>2, <1>4 DEF NearInv

LEMMA NextNearInv ==
    ASSUME WeatherInv, NearInv, [WeatherNext]_weatherVars
    PROVE  NearInv' /\ [GoesBackOneCall]_weatherVars
<1>0. now \in Nat /\ MaxCall \in Nat /\ seen \in [Procs -> [Keys -> Nat]]
    BY MaxCallAssumption DEF WeatherInv, WeatherTypeOK, TypeOK
<1>1. ASSUME UNCHANGED vars PROVE NearInv'
    BY <1>1 DEF vars, NearInv, NearAt
<1>2. CASE UNCHANGED weatherVars
    BY <1>1, <1>2 DEF weatherVars
<1>3. CASE Time
    <2>1. NearInv'
        <3>1. now' = now + 1 /\ UNCHANGED <<entries, files, seen>>
            BY <1>3 DEF Time, Tick
        <3> QED BY <1>0, <3>1 DEF NearInv, NearAt
    <2> QED BY <1>3, <2>1 DEF Time, GoesBackOneCall
<1>4. ASSUME NEW p \in Procs, Start(p) \/ End(p) \/ ClearCache(p)
      PROVE  NearInv' /\ GoesBackOneCall
    <2>1. \/ Create(p) \/ Clear(p) \/ ClearFails(p) \/ Destroy(p) \/ KilledInClear(p)
          \/ \E k \in Keys : KilledInSet(p, k)
        BY <1>4 DEF Start, End, ClearCache, WeatherInv, CallsInv
    <2>2. answer' = None
        BY <1>4 DEF Start, End, ClearCache, Forget
    <2> QED BY <2>1, <2>2, NearLife DEF GoesBackOneCall
<1>5. ASSUME NEW p \in Procs, Echo(p) PROVE NearInv' /\ GoesBackOneCall
    BY <1>1, <1>5 DEF Echo, GoesBackOneCall
<1>6. ASSUME NEW p \in Procs, (\E doc \in Fresh : HttpGives(p, doc)) \/ HttpFails(p)
      PROVE  NearInv' /\ GoesBackOneCall
    BY <1>1, <1>6 DEF HttpGives, HttpFails, Fail, Return, GoesBackOneCall
<1>7. ASSUME NEW p \in Procs, NEW k \in Keys, LookUp(p, k)
      PROVE  NearInv' /\ GoesBackOneCall
    <2>1. /\ NearInv'
          /\ ret'.proc = p /\ ret'.key = k
          /\ ret'.json # None => seen[p][k] - ret'.json.at <= MaxCall
        BY <1>7, NearGet DEF LookUp
    <2>2. answer' # None => answer' = ret'.json
        BY <1>7 DEF LookUp, Return
    <2>3. answer' # None => answer'.at \in Nat
        <3>1. WeatherInv'
            BY <1>7, LookUpStep
        <3> QED BY <3>1 DEF WeatherInv, WeatherTypeOK, Doc
    <2>4. seen[p][k] \in Nat
        BY <1>0
    <2> QED BY <1>0, <2>1, <2>2, <2>3, <2>4 DEF GoesBackOneCall
<1>8. ASSUME NEW p \in Procs, Store(p)
      PROVE  NearInv' /\ GoesBackOneCall
    <2> DEFINE doc == http[p]
    <2>1. /\ key[p] \in Keys /\ doc \in Doc /\ doc.at \in Nat /\ begun[p] \in Nat
          /\ doc.at <= now /\ now - begun[p] <= MaxCall /\ begun[p] <= doc.at
        BY <1>8 DEF Store, WeatherInv, WeatherTypeOK, CallsInv, Doc
    <2>2. Set(p, key[p], doc) /\ answer' = doc
        BY <1>8 DEF Store, Return
    <2> HIDE DEF doc
    <2>3. NearInv'
        BY <2>1, <2>2, NearSet
    <2>4. ret'.proc = p /\ ret'.key = key[p]
        BY <2>2 DEF Set, Stored
    <2>5. seen[p][key[p]] \in Nat /\ seen[p][key[p]] <= now
        BY <1>0, <2>1 DEF NearInv, NearAt
    <2>6. doc.at >= seen[p][key[p]] - MaxCall
        BY <1>0, <2>1, <2>5
    <2> QED BY <2>2, <2>3, <2>4, <2>6 DEF GoesBackOneCall
<1> QED BY <1>2, <1>3, <1>4, <1>5, <1>6, <1>7, <1>8 DEF WeatherNext

\* For any number of processes, an answer to a process is older than what it
\* had for that request by at most one call: whatever the others fetched
\* before and store later, and whichever saves fail.
THEOREM AnswersNearlyMonotonic == WeatherSpec => AnswersGoBackOneCall
<1>1. WeatherInit => NearInv
    BY DEF WeatherInit, Init, NearInv, NearAt, Elems
<1>2. WeatherInv /\ NearInv /\ [WeatherNext]_weatherVars
        => NearInv' /\ [GoesBackOneCall]_weatherVars
    BY NextNearInv
<1> QED BY <1>1, <1>2, WeatherInvariance, PTL
        DEF WeatherSpec, AnswersGoBackOneCall, GoesBackOneCall

=============================================================================
