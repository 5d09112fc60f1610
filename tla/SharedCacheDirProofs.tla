------------------------ MODULE SharedCacheDirProofs ------------------------
(***************************************************************************)
(* Proofs about SharedCacheDir: what overlapping calls of any number of    *)
(* processes may do to the cached documents, file call by file call.       *)
(*                                                                         *)
(* The argument: a set that overlaps no other set and no clear is the only *)
(* one that writes, and its document is the newest there is.  The files of *)
(* the others are late from the moment they overlap.                       *)
(***************************************************************************)
EXTENDS SharedCacheDir, ClientCacheProofs

Held(k) == files[k] # None /\ files[k].json # None

\* A process in a call holds a cache; a load has no entry for its key, and a
\* set has one, which holds its document.
CallAt(p) ==
    /\ step[p] # "idle" => p \in up
    /\ step[p] \in Loading => ~Has(entries[p], arg[p].key)
    /\ step[p] \in Setting =>
         /\ Has(entries[p], arg[p].key)
         /\ \A e \in Elems(entries[p]) : e.key = arg[p].key => e.json = arg[p].doc

\* The document of a set is late if another set or a clear is under way.
AloneInv ==
    \A p, q \in Procs :
        p # q /\ step[p] \in Setting /\ step[q] \in Setting \cup Clearing
          => arg[p].doc \in late

\* What is in a file, on its way into one or in a list was fetched since the
\* last clear, or is late.
EraInv ==
    /\ \A k \in Keys : Held(k) => files[k].json.era = clears \/ files[k].json \in late \cup spared
    /\ \A p \in Procs : step[p] \in Setting => arg[p].doc.era = clears \/ arg[p].doc \in late
    /\ \A p \in Procs : \A e \in Elems(entries[p]) :
         e.json.era >= since[p] \/ e.json \in late \cup spared

\* The files that a clear has still to remove.
SweptAt(p) ==
    /\ step[p] = "scan" => entries[p] = <<>>
    /\ step[p] \in Clearing => \A k \in Keys :
         Held(k) /\ (step[p] = "scan" \/ Has(entries[p], k))
           => k \in todo[p] \/ files[k].json \in late

PastInv ==
    /\ \A p \in Procs, k \in Keys : seen[p][k] <= now
    /\ \A k \in Keys : Held(k) => files[k].json.at <= now
    /\ \A p \in Procs : \A e \in Elems(entries[p]) : e.json.at <= now

\* The document of a set that overlaps nothing is the newest there is.
NewestInv ==
    \A p \in Procs : step[p] \in Setting /\ arg[p].doc \notin late =>
        /\ \A q \in Procs, k \in Keys : seen[q][k] <= arg[p].doc.at
        /\ \A k \in Keys : Held(k) => files[k].json.at <= arg[p].doc.at
        /\ \A q \in Procs : \A e \in Elems(entries[q]) : e.json.at <= arg[p].doc.at

\* What p would be given for k next, its entry or without one the file, is
\* as new as all that p has seen, or late.
RecentAt(p) ==
    \A k \in Keys :
        /\ \A e \in Elems(entries[p]) :
             e.key = k => seen[p][k] <= e.json.at \/ e.json \in late
        /\ ~Has(entries[p], k) /\ Held(k)
             => seen[p][k] <= files[k].json.at \/ files[k].json \in late

DirInv ==
    /\ DirTypeOK /\ UniqueKeys /\ DownInv /\ SinceInv
    /\ AloneInv /\ EraInv /\ PastInv /\ NewestInv
    /\ \A p \in Procs : CallAt(p) /\ SweptAt(p) /\ RecentAt(p)
    /\ ClearLeavesOnlyLate

-----------------------------------------------------------------------------
(* Steps seen from the documents, and from the processes that do not act.  *)

Steps == {"idle"} \cup Setting \cup Loading \cup Clearing

\* A file keeps its document, loses it, or gets that of a set under way.
FilesFrom ==
    \A k \in Keys : Held(k)' =>
        \/ Held(k) /\ files'[k].json = files[k].json
        \/ \E p \in Procs : step[p] \in Setting /\ files'[k].json = arg[p].doc

\* The time of a document that is listed or in a file.
TimeKnown(t) ==
    \/ \E p \in Procs : \E e \in Elems(entries[p]) : t = e.json.at
    \/ \E k \in Keys : Held(k) /\ t = files[k].json.at

\* A step that starts no set and no clear and makes no document.
Quiet ==
    /\ now' = now /\ clears' = clears /\ since' = since /\ late' = late
    /\ spared' = spared
    /\ \A q \in Procs :
         /\ step'[q] \in Setting => step[q] \in Setting /\ arg'[q].doc = arg[q].doc
         /\ step'[q] \in Clearing => step[q] \in Clearing
    /\ FilesFrom
    /\ \A q \in Procs : \A e \in Elems(entries'[q]) :
         e \in Elems(entries[q]) \/ (\E k \in Keys : Held(k) /\ e.json = files[k].json)
    /\ \A q \in Procs, k \in Keys :
         \/ seen'[q][k] \in Nat /\ seen'[q][k] <= seen[q][k]
         \/ TimeKnown(seen'[q][k])

\* Only p acts; another process may find its file written or unlinked.
Aside(p) ==
    /\ now' = now
    /\ late \subseteq late'
    /\ FilesFrom
    /\ \A q \in Procs \ {p} :
         /\ entries'[q] = entries[q] /\ seen'[q] = seen[q]
         /\ arg'[q] = arg[q] /\ todo'[q] = todo[q]
         /\ q \in up <=> q \in up'
         /\ \/ step'[q] = step[q]
            \/ step[q] \in Setting /\ step'[q] \in Setting

LEMMA DirTypes ==
    ASSUME DirInv
    PROVE  /\ now \in Nat /\ clears \in Nat /\ None \notin Doc /\ None \notin File
           /\ entries \in [Procs -> Seq(Entry)]
           /\ files \in [Keys -> File \cup {None}]
           /\ seen \in [Procs -> [Keys -> Nat]]
           /\ since \in [Procs -> Nat]
           /\ step \in [Procs -> Steps]
           /\ arg \in [Procs -> [key : Keys \cup {None}, doc : Doc \cup {None}, begun : Nat]]
           /\ todo \in [Procs -> SUBSET Keys]
           /\ late \in SUBSET Doc
           /\ spared \in SUBSET Doc
           /\ \A k \in Keys : Held(k) => /\ files[k].json \in Doc
                                         /\ files[k].json.at \in Nat
                                         /\ files[k].json.era \in Nat
           /\ \A p \in Procs : \A e \in Elems(entries[p]) :
                e \in Entry /\ e.json \in Doc /\ e.json.at \in Nat /\ e.json.era \in Nat
           /\ \A p \in Procs : step[p] \in Setting =>
                /\ arg[p].key \in Keys
                /\ arg[p].doc \in Doc /\ arg[p].doc.at \in Nat /\ arg[p].doc.era \in Nat
           /\ \A p \in Procs : step[p] \in Loading => arg[p].key \in Keys
<1>1. DirTypeOK /\ TypeOK
    BY DEF DirInv, DirTypeOK
<1>2. \A k \in Keys : Held(k) => /\ files[k].json \in Doc
                                 /\ files[k].json.at \in Nat
                                 /\ files[k].json.era \in Nat
    BY <1>1 DEF TypeOK, Held, File, Doc
<1>3. ASSUME NEW p \in Procs, NEW e \in Elems(entries[p])
      PROVE  e \in Entry /\ e.json \in Doc /\ e.json.at \in Nat /\ e.json.era \in Nat
    <2>1. e \in Entry
        BY <1>1, ElemsFacts DEF TypeOK
    <2> QED BY <2>1 DEF Entry, Doc
<1>4. ASSUME NEW p \in Procs, step[p] \in Setting
      PROVE  /\ arg[p].key \in Keys
             /\ arg[p].doc \in Doc /\ arg[p].doc.at \in Nat /\ arg[p].doc.era \in Nat
    <2>1. arg[p].key \in Keys /\ arg[p].doc \in Doc
        BY <1>1, <1>4 DEF DirTypeOK
    <2> QED BY <2>1 DEF Doc
<1> QED BY <1>1, <1>2, <1>3, <1>4, NoneAssumption DEF DirTypeOK, TypeOK, Steps

LEMMA KnownTimes ==
    ASSUME DirInv, NEW t, TimeKnown(t)
    PROVE  /\ t \in Nat /\ t <= now
           /\ \A p \in Procs : step[p] \in Setting /\ arg[p].doc \notin late => t <= arg[p].doc.at
<1>1. CASE \E p \in Procs : \E e \in Elems(entries[p]) : t = e.json.at
    <2>1. PICK p \in Procs : \E e \in Elems(entries[p]) : t = e.json.at
        BY <1>1
    <2>2. PICK e \in Elems(entries[p]) : t = e.json.at
        BY <2>1
    <2>3. e.json.at \in Nat
        BY DirTypes
    <2> QED BY <2>2, <2>3 DEF DirInv, PastInv, NewestInv
<1>2. CASE \E k \in Keys : Held(k) /\ t = files[k].json.at
    <2>1. PICK k \in Keys : Held(k) /\ t = files[k].json.at
        BY <1>2
    <2>2. files[k].json.at \in Nat
        BY <2>1, DirTypes
    <2> QED BY <2>1, <2>2 DEF DirInv, PastInv, NewestInv
<1> QED BY <1>1, <1>2 DEF TimeKnown

\* A set that is under way has listed its document.
LEMMA SetIsListed ==
    ASSUME DirInv, NEW p \in Procs, step[p] \in Setting
    PROVE  /\ TimeKnown(arg[p].doc.at)
           /\ \E e \in Elems(entries[p]) : e.key = arg[p].key /\ e.json = arg[p].doc
<1>1. entries[p] \in Seq(Entry)
    BY DirTypes
<1>2. CallAt(p)
    BY DEF DirInv
<1>3. PICK e \in Elems(entries[p]) : e.key = arg[p].key
    BY <1>1, <1>2, ElemsFacts DEF CallAt
<1>4. e.json = arg[p].doc
    BY <1>2, <1>3 DEF CallAt
<1> QED BY <1>3, <1>4 DEF TimeKnown

LEMMA QuietDocs ==
    ASSUME DirInv, Quiet
    PROVE  AloneInv' /\ EraInv' /\ PastInv' /\ NewestInv'
<1>1. AloneInv'
    BY DEF DirInv, AloneInv, Quiet
<1>2. EraInv'
    <2>1. \A k \in Keys : Held(k)' => files'[k].json.era = clears \/ files'[k].json \in late \cup spared
        BY DEF DirInv, EraInv, Quiet, FilesFrom
    <2>2. ASSUME NEW p \in Procs, NEW e \in Elems(entries'[p])
          PROVE  e.json.era >= since[p] \/ e.json \in late \cup spared
        <3>1. CASE e \in Elems(entries[p])
            BY <3>1 DEF DirInv, EraInv
        <3>2. ASSUME NEW k \in Keys, Held(k), e.json = files[k].json
              PROVE  e.json.era >= since[p] \/ e.json \in late \cup spared
            <4>1. since[p] <= clears /\ since[p] \in Nat /\ clears \in Nat
                BY DirTypes DEF DirInv, SinceInv
            <4> QED BY <3>2, <4>1 DEF DirInv, EraInv
        <3> QED BY <3>1, <3>2 DEF Quiet
    <2>3. \A p \in Procs : step'[p] \in Setting => arg'[p].doc.era = clears \/ arg'[p].doc \in late
        BY DEF DirInv, EraInv, Quiet
    <2>4. late' = late /\ clears' = clears /\ since' = since
          /\ spared' = spared
        BY DEF Quiet
    <2> QED BY <2>1, <2>2, <2>3, <2>4 DEF EraInv, Held, Elems
<1>3. ASSUME NEW k \in Keys, Held(k)' PROVE TimeKnown(files'[k].json.at)
    <2>1. CASE Held(k) /\ files'[k].json = files[k].json
        BY <2>1 DEF TimeKnown
    <2>2. ASSUME NEW p \in Procs, step[p] \in Setting, files'[k].json = arg[p].doc
          PROVE  TimeKnown(files'[k].json.at)
        BY <2>2, SetIsListed
    <2> QED BY <1>3, <2>1, <2>2 DEF Quiet, FilesFrom
<1>4. ASSUME NEW p \in Procs, NEW e \in Elems(entries'[p]) PROVE TimeKnown(e.json.at)
    BY <1>4 DEF Quiet, TimeKnown
<1>5. now' = now /\ late' = late
    BY DEF Quiet
<1>6. PastInv'
    <2>1. \A k \in Keys : Held(k)' => files'[k].json.at <= now
        BY <1>3, KnownTimes
    <2>2. \A p \in Procs : \A e \in Elems(entries'[p]) : e.json.at <= now
        BY <1>4, KnownTimes
    <2>3. ASSUME NEW q \in Procs, NEW k \in Keys PROVE seen'[q][k] <= now
        <3>1. CASE TimeKnown(seen'[q][k])
            BY <3>1, KnownTimes
        <3>2. CASE seen'[q][k] \in Nat /\ seen'[q][k] <= seen[q][k]
            <4>1. seen[q][k] <= now /\ seen[q][k] \in Nat /\ now \in Nat
                BY DirTypes DEF DirInv, PastInv
            <4> QED BY <3>2, <4>1
        <3> QED BY <3>1, <3>2 DEF Quiet
    <2> QED BY <1>5, <2>1, <2>2, <2>3 DEF PastInv, Held, Elems
<1>7. NewestInv'
    <2> SUFFICES ASSUME NEW p \in Procs, step[p] \in Setting, arg[p].doc \notin late
                 PROVE  /\ \A q \in Procs, k \in Keys : seen'[q][k] <= arg[p].doc.at
                        /\ \A k \in Keys : Held(k)' => files'[k].json.at <= arg[p].doc.at
                        /\ \A q \in Procs : \A e \in Elems(entries'[q]) :
                             e.json.at <= arg[p].doc.at
        BY <1>5 DEF NewestInv, Held, Elems, Quiet
    <2>1. \A t : TimeKnown(t) => t <= arg[p].doc.at
        BY KnownTimes
    <2>2. ASSUME NEW q \in Procs, NEW k \in Keys PROVE seen'[q][k] <= arg[p].doc.at
        <3>1. CASE TimeKnown(seen'[q][k])
            BY <3>1, <2>1
        <3>2. CASE seen'[q][k] \in Nat /\ seen'[q][k] <= seen[q][k]
            <4>1. seen[q][k] <= arg[p].doc.at /\ seen[q][k] \in Nat /\ arg[p].doc.at \in Nat
                BY DirTypes DEF DirInv, NewestInv
            <4> QED BY <3>2, <4>1
        <3> QED BY <3>1, <3>2 DEF Quiet
    <2> QED BY <1>3, <1>4, <2>1, <2>2
<1> QED BY <1>1, <1>2, <1>6, <1>7

\* The calls, the clears and the reads of the processes that do not act.
LEMMA OthersKeep ==
    ASSUME DirInv, NEW p \in Procs, Aside(p), NEW q \in Procs, q # p
    PROVE  CallAt(q)' /\ SweptAt(q)' /\ RecentAt(q)'
<1> USE DEF Aside
<1>1. CallAt(q) /\ SweptAt(q) /\ RecentAt(q)
    BY DEF DirInv
<1>2. /\ entries'[q] = entries[q] /\ seen'[q] = seen[q]
      /\ arg'[q] = arg[q] /\ todo'[q] = todo[q]
      /\ (q \in up <=> q \in up')
      /\ step'[q] = step[q] \/ (step[q] \in Setting /\ step'[q] \in Setting)
    OBVIOUS
<1>3. CallAt(q)'
    BY <1>1, <1>2 DEF CallAt, Setting, Loading, InDirectory
<1>4. SweptAt(q)'
    <2>1. ASSUME NEW k \in Keys, Held(k)', step[q] \in Clearing
          PROVE  (Held(k) /\ files'[k].json = files[k].json) \/ files'[k].json \in late
        <3>1. ASSUME NEW r \in Procs, step[r] \in Setting PROVE r # q
            BY <2>1, <3>1 DEF Setting, InDirectory, Clearing
        <3> QED BY <2>1, <3>1 DEF FilesFrom, DirInv, AloneInv
    <2>2. step'[q] \in Clearing => step'[q] = step[q]
        BY <1>2 DEF Setting, InDirectory, Clearing
    <2> QED BY <1>1, <1>2, <2>1, <2>2 DEF SweptAt, Held, Clearing
<1>5. RecentAt(q)'
    <2>1. ASSUME NEW k \in Keys, Held(k)'
          PROVE  \/ Held(k) /\ files'[k].json = files[k].json
                 \/ files'[k].json \in late
                 \/ seen[q][k] <= files'[k].json.at
        BY <2>1 DEF FilesFrom, DirInv, NewestInv
    <2> QED BY <1>1, <1>2, <2>1 DEF RecentAt, Held
<1> QED BY <1>3, <1>4, <1>5

\* A step of p that touches files moves the others between the states of
\* a set at most.
LEMMA GotoFacts ==
    ASSUME step \in [Procs -> Steps], NEW p \in Procs, NEW next \in Steps, NEW ks,
           NEW mark \in InDirectory \cup {"lost"}, Goto(p, next, ks, mark)
    PROVE  /\ step' \in [Procs -> Steps]
           /\ step'[p] = next
           /\ \A q \in Procs \ {p} : \/ step'[q] = step[q]
                                     \/ step[q] \in Setting /\ step'[q] \in Setting
BY DEF Goto, Steps, Setting, InDirectory

\* The types after a step of p between two states of a call.
LEMMA CallTypes ==
    ASSUME DirInv, NEW p \in Procs, Aside(p), TypeOK', late' \in SUBSET Doc,
           step' \in [Procs -> Steps], todo' \in [Procs -> SUBSET Keys],
           arg' \in [Procs -> [key : Keys \cup {None}, doc : Doc \cup {None}, begun : Nat]],
           step'[p] \in Setting => arg'[p].doc # None,
           step'[p] \in Setting \cup Loading => arg'[p].key # None,
           step'[p] \notin Clearing => todo'[p] = {}
    PROVE  DirTypeOK'
<1>1. ASSUME NEW q \in Procs, q # p
      PROVE  /\ step'[q] \in Setting => arg'[q].doc # None
             /\ step'[q] \in Setting \cup Loading => arg'[q].key # None
             /\ step'[q] \notin Clearing => todo'[q] = {}
    BY <1>1 DEF DirInv, DirTypeOK, Aside, Setting, InDirectory, Clearing
<1> QED BY <1>1 DEF DirTypeOK, Steps

\* It is enough to look at the documents, and at the process that acts.
LEMMA DirStep ==
    ASSUME DirInv, NEW p \in Procs, Aside(p), DirTypeOK', UniqueKeys', DownInv', SinceInv',
           AloneInv' /\ EraInv' /\ PastInv' /\ NewestInv',
           CallAt(p)', SweptAt(p)', RecentAt(p)', ClearLeavesOnlyLate'
    PROVE  DirInv'
<1>1. \A q \in Procs : CallAt(q)' /\ SweptAt(q)' /\ RecentAt(q)'
    BY OthersKeep
<1> QED BY <1>1 DEF DirInv

-----------------------------------------------------------------------------
(* client_cache_set.                                                       *)

LEMMA SetOpensStep ==
    ASSUME DirInv, NEW p \in Procs, SetOpens(p)
    PROVE  DirInv'
<1> DEFINE k == arg[p].key
<1>1. /\ k \in Keys /\ step[p] \in Setting /\ Goto(p, "write", {k}, "write")
      /\ files' = [files EXCEPT ![k] = [json |-> None, mtime |-> now]]
      /\ UNCHANGED <<now, clears, up, entries, seen, since, spared, ret, arg, todo, late>>
    BY DirTypes DEF SetOpens, Truncate, Torn, Setting
<1>2. /\ step' \in [Procs -> Steps] /\ step'[p] = "write"
      /\ \A q \in Procs \ {p} : \/ step'[q] = step[q]
                                \/ step[q] \in Setting /\ step'[q] \in Setting
    BY <1>1, GotoFacts, DirTypes DEF Steps, Setting, InDirectory
<1>3. \A j \in Keys : Held(j)' => Held(j) /\ files'[j] = files[j]
    BY <1>1, DirTypes DEF Held
<1>4. Aside(p)
    BY <1>1, <1>2, <1>3 DEF Aside, FilesFrom
<1>5. Quiet
    BY <1>1, <1>2, <1>3, DirTypes, SMTT(30) DEF Quiet, FilesFrom, Setting, Clearing, InDirectory
<1>6. DirTypeOK'
    <2>1. files' \in [Keys -> File \cup {None}]
        BY <1>1, DirTypes DEF File
    <2>2. TypeOK'
        BY <1>1, <2>1 DEF DirInv, DirTypeOK, TypeOK
    <2> QED BY <1>1, <1>2, <1>4, <2>2, CallTypes DEF DirInv, DirTypeOK, Clearing, Setting, InDirectory
<1>7. UniqueKeys' /\ DownInv' /\ SinceInv' /\ ClearLeavesOnlyLate'
    BY <1>1 DEF DirInv, UniqueKeys, DownInv, SinceInv, ClearLeavesOnlyLate, Hit
<1>8. CallAt(p)' /\ SweptAt(p)'
    BY <1>1, <1>2 DEF DirInv, CallAt, SweptAt, Has, Matching, Elems, Setting, Loading, Clearing, InDirectory
<1>9. RecentAt(p)'
    BY <1>1, <1>3 DEF DirInv, RecentAt, Has, Matching, Elems, Held
<1> QED BY <1>4, <1>5, <1>6, <1>7, <1>8, <1>9, QuietDocs, DirStep

LEMMA SetReturnsStep ==
    ASSUME DirInv, NEW p \in Procs, SetReturns(p)
    PROVE  DirInv'
<1> DEFINE k   == arg[p].key
           doc == arg[p].doc
<1>1. /\ step[p] \in Setting
      /\ \E ks : \E mark \in {"lost", "overwrite"} : Goto(p, "idle", ks, mark)
      /\ \/ files' = files
         \/ \E json \in {doc, None} : files' = [files EXCEPT ![k] = [json |-> json, mtime |-> now]]
      /\ seen' = [seen EXCEPT ![p][k] = doc.at]
      /\ ret' = Stored(p, k, TRUE)
      /\ arg' = [arg EXCEPT ![p] = NoArg]
      /\ UNCHANGED <<now, clears, up, entries, since, spared, todo, late>>
    <2>1. Written(p) \subseteq {doc, None}
        BY DEF Written
    <2>2. \/ /\ step[p] \in InDirectory
             /\ \E json \in Written(p) : files' = [files EXCEPT ![k] = [json |-> json, mtime |-> now]]
             /\ Goto(p, "idle", {k}, "overwrite")
          \/ /\ step[p] \in {"lost", "save"}
             /\ Goto(p, "idle", {}, "lost")
             /\ files' = files
        BY DEF SetReturns, Write
    <2>3. /\ step[p] \in Setting
          /\ \E ks : \E mark \in {"lost", "overwrite"} : Goto(p, "idle", ks, mark)
        BY <2>2 DEF Setting
    <2> HIDE DEF k, doc
    <2>4. \/ files' = files
          \/ \E json \in {doc, None} : files' = [files EXCEPT ![k] = [json |-> json, mtime |-> now]]
        BY <2>1, <2>2
    <2> QED BY <2>3, <2>4 DEF SetReturns, Return, k, doc
<1>2. /\ k \in Keys /\ doc \in Doc /\ doc.at \in Nat /\ TimeKnown(doc.at)
      /\ Has(entries[p], k)
      /\ \A e \in Elems(entries[p]) : e.key = k => e.json = doc
    BY <1>1, DirTypes, SetIsListed DEF DirInv, CallAt
<1>3. /\ step' \in [Procs -> Steps] /\ step'[p] = "idle"
      /\ \A q \in Procs \ {p} : \/ step'[q] = step[q]
                                \/ step[q] \in Setting /\ step'[q] \in Setting
    BY <1>1, GotoFacts, DirTypes DEF Steps, Setting, InDirectory
<1>4. /\ files' \in [Keys -> File \cup {None}]
      /\ \A j \in Keys : Held(j)' => \/ Held(j) /\ files'[j].json = files[j].json
                                     \/ j = k /\ files'[j].json = doc
    <2> HIDE DEF k, doc
    <2>1. CASE files' = files
        BY <2>1, DirTypes DEF Held
    <2>2. ASSUME NEW json \in {doc, None}, files' = [files EXCEPT ![k] = [json |-> json, mtime |-> now]]
          PROVE  /\ files' \in [Keys -> File \cup {None}]
                 /\ \A j \in Keys : Held(j)' => \/ Held(j) /\ files'[j].json = files[j].json
                                                \/ j = k /\ files'[j].json = doc
        <3>1. [json |-> json, mtime |-> now] \in File
            BY <1>2, <2>2, DirTypes DEF File
        <3>2. \A j \in Keys : files'[j] = IF j = k THEN [json |-> json, mtime |-> now] ELSE files[j]
            BY <2>2, DirTypes
        <3>3. files' \in [Keys -> File \cup {None}]
            BY <1>2, <2>2, <3>1, DirTypes
        <3> QED BY <2>2, <3>2, <3>3 DEF Held
    <2> QED BY <1>1, <2>1, <2>2
<1>5. FilesFrom
    BY <1>1, <1>4 DEF FilesFrom
<1>6. Aside(p)
    BY <1>1, <1>2, <1>3, <1>5, DirTypes DEF Aside
<1>7. /\ seen' \in [Procs -> [Keys -> Nat]]
      /\ \A q \in Procs, j \in Keys :
           seen'[q][j] = IF q = p /\ j = k THEN doc.at ELSE seen[q][j]
    BY <1>1, <1>2, DirTypes
<1>8. Quiet
    <2>1. \A q \in Procs, j \in Keys :
            \/ seen'[q][j] \in Nat /\ seen'[q][j] <= seen[q][j]
            \/ TimeKnown(seen'[q][j])
        <3> HIDE DEF doc
        <3>1. \A q \in Procs, j \in Keys : seen[q][j] \in Nat /\ seen[q][j] <= seen[q][j]
            BY DirTypes
        <3> QED BY <1>2, <1>7, <3>1
    <2>2. \A q \in Procs : /\ step'[q] \in Setting => step[q] \in Setting /\ arg'[q].doc = arg[q].doc
                           /\ step'[q] \in Clearing => step[q] \in Clearing
        BY <1>1, <1>3, DirTypes DEF Setting, Clearing, InDirectory
    <2> QED BY <1>1, <1>5, <2>1, <2>2 DEF Quiet
<1>9. DirTypeOK'
    <2>1. TypeOK'
        BY <1>1, <1>2, <1>4, <1>7 DEF DirInv, DirTypeOK, TypeOK, Stored, Returns
    <2>2. arg' \in [Procs -> [key : Keys \cup {None}, doc : Doc \cup {None}, begun : Nat]]
        BY <1>1, DirTypes DEF NoArg
    <2>3. todo[p] = {}
        BY <1>1 DEF DirInv, DirTypeOK, Setting, Clearing, InDirectory
    <2> QED BY <1>1, <1>3, <1>6, <2>1, <2>2, <2>3, CallTypes
            DEF DirInv, DirTypeOK, Setting, Loading, InDirectory
<1>10. UniqueKeys' /\ DownInv' /\ SinceInv' /\ ClearLeavesOnlyLate'
    BY <1>1 DEF DirInv, UniqueKeys, DownInv, SinceInv, ClearLeavesOnlyLate, Hit, Stored
<1>11. CallAt(p)' /\ SweptAt(p)'
    BY <1>3 DEF CallAt, SweptAt, Setting, Loading, Clearing, InDirectory
<1>12. RecentAt(p)'
    BY <1>1, <1>2, <1>4, <1>7 DEF DirInv, RecentAt, Held, Has, Matching, Elems
<1> QED BY <1>6, <1>8, <1>9, <1>10, <1>11, <1>12, QuietDocs, DirStep

-----------------------------------------------------------------------------
(* client_cache_get.                                                       *)

LEMMA LoadStatStep ==
    ASSUME DirInv, NEW p \in Procs, NEW k \in Keys, LoadStat(p, k)
    PROVE  DirInv'
<1>1. /\ p \in up /\ step[p] = "idle" /\ ~Has(entries[p], k)
      /\ arg' = [arg EXCEPT ![p] = [key |-> k, doc |-> None, begun |-> now]]
      /\ UNCHANGED <<now, clears, up, entries, files, seen, since, spared, ret, todo, late>>
    BY DEF LoadStat, MayStart, Start, vars
<1>2. /\ step' \in [Procs -> Steps] /\ step'[p] \in Loading
      /\ \A q \in Procs \ {p} : \/ step'[q] = step[q]
                                \/ step[q] \in Setting /\ step'[q] \in Setting
    <2>1. PICK next \in Loading : Goto(p, next, {}, "lost")
        BY DEF LoadStat, Loading
    <2>2. next \in Steps
        BY DEF Steps
    <2> QED BY <2>1, <2>2, GotoFacts, DirTypes
<1>3. Aside(p)
    BY <1>1, <1>2, DirTypes DEF Aside, FilesFrom, Held
<1>4. Quiet
    BY <1>1, <1>2, DirTypes, SMTT(30)
       DEF Quiet, FilesFrom, Held, Elems, Setting, Loading, Clearing, InDirectory
<1>5. DirTypeOK'
    <2>1. TypeOK'
        BY <1>1 DEF DirInv, DirTypeOK, TypeOK
    <2>2. arg' \in [Procs -> [key : Keys \cup {None}, doc : Doc \cup {None}, begun : Nat]]
        BY <1>1, DirTypes
    <2>3. arg'[p].key # None
        BY <1>1, NoneAssumption, DirTypes
    <2>4. todo[p] = {}
        BY <1>1 DEF DirInv, DirTypeOK, Clearing
    <2> QED BY <1>1, <1>2, <1>3, <2>1, <2>2, <2>3, <2>4, CallTypes
            DEF DirInv, DirTypeOK, Setting, Loading, InDirectory
<1>6. UniqueKeys' /\ DownInv' /\ SinceInv' /\ ClearLeavesOnlyLate'
    BY <1>1 DEF DirInv, UniqueKeys, DownInv, SinceInv, ClearLeavesOnlyLate, Hit
<1>7. CallAt(p)' /\ SweptAt(p)'
    <2>1. arg'[p].key = k
        BY <1>1, DirTypes
    <2> QED BY <1>1, <1>2, <2>1 DEF CallAt, SweptAt, Has, Matching, Setting, Loading, Clearing, InDirectory
<1>8. RecentAt(p)'
    BY <1>1 DEF DirInv, RecentAt, Held, Has, Matching, Elems
<1> QED BY <1>3, <1>4, <1>5, <1>6, <1>7, <1>8, QuietDocs, DirStep

LEMMA LoadUnlinksStep ==
    ASSUME DirInv, NEW p \in Procs, LoadUnlinks(p)
    PROVE  DirInv'
<1> DEFINE k == arg[p].key
<1>1. /\ step[p] = "unlink" /\ Goto(p, "idle", {k}, "lost")
      /\ files' = [j \in Keys |-> IF j = k THEN None ELSE files[j]]
      /\ ret' = Got(p, k, None)
      /\ arg' = [arg EXCEPT ![p] = NoArg]
      /\ UNCHANGED <<now, clears, up, entries, seen, since, spared, todo, late>>
    BY DEF LoadUnlinks, Unlink, Miss, Return
<1>2. /\ step' \in [Procs -> Steps] /\ step'[p] = "idle"
      /\ \A q \in Procs \ {p} : \/ step'[q] = step[q]
                                \/ step[q] \in Setting /\ step'[q] \in Setting
    BY <1>1, GotoFacts, DirTypes DEF Steps
<1>3. \A j \in Keys : Held(j)' => Held(j) /\ files'[j] = files[j]
    BY <1>1 DEF Held
<1>4. Aside(p)
    BY <1>1, <1>2, <1>3, DirTypes DEF Aside, FilesFrom
<1>5. Quiet
    BY <1>1, <1>2, <1>3, DirTypes, SMTT(30)
       DEF Quiet, FilesFrom, Elems, Setting, Loading, Clearing, InDirectory
<1>6. DirTypeOK'
    <2>1. k \in Keys
        BY <1>1, DirTypes DEF Loading
    <2>2. TypeOK'
        BY <1>1, <2>1, DirTypes DEF DirInv, DirTypeOK, TypeOK, Got, Returns
    <2>3. arg' \in [Procs -> [key : Keys \cup {None}, doc : Doc \cup {None}, begun : Nat]]
        BY <1>1, DirTypes DEF NoArg
    <2>4. todo[p] = {}
        BY <1>1 DEF DirInv, DirTypeOK, Clearing
    <2> QED BY <1>1, <1>2, <1>4, <2>2, <2>3, <2>4, CallTypes
            DEF DirInv, DirTypeOK, Setting, Loading, InDirectory
<1>7. UniqueKeys' /\ DownInv' /\ SinceInv' /\ ClearLeavesOnlyLate'
    BY <1>1 DEF DirInv, UniqueKeys, DownInv, SinceInv, ClearLeavesOnlyLate, Hit, Got
<1>8. CallAt(p)' /\ SweptAt(p)'
    BY <1>2 DEF CallAt, SweptAt, Setting, Loading, Clearing, InDirectory
<1>9. RecentAt(p)'
    BY <1>1, <1>3 DEF DirInv, RecentAt, Held, Has, Matching, Elems
<1> QED BY <1>4, <1>5, <1>6, <1>7, <1>8, <1>9, QuietDocs, DirStep

\* What a get must not return: the body of GoesBackOnlyToLate.
NoOlderAnswer ==
    \A p \in Procs, k \in Keys :
        ret' # ret /\ ret'.call = "get" /\ ret'.proc = p /\ ret'.key = k /\ ret'.json # None
          => ret'.json.at >= seen[p][k] \/ ret'.json \in late

\* The history of what p was given, after it is given json for k.
LEMMA ServeFacts ==
    ASSUME DirInv, NEW p \in Procs, NEW k \in Keys, NEW json \in Doc, Serve(p, k, json)
    PROVE  /\ ret' = Got(p, k, json) /\ ret' \in Returns
           /\ seen' \in [Procs -> [Keys -> Nat]]
           /\ \A q \in Procs, j \in Keys :
                q # p \/ j # k => seen'[q][j] = seen[q][j]
           /\ seen'[p][k] = seen[p][k] \/ seen'[p][k] = json.at
           /\ seen[p][k] <= json.at => seen'[p][k] = json.at
           /\ \A q \in Procs : q # p => seen'[q] = seen[q]
<1>1. json.at \in Nat
    BY DEF Doc
<1>2. seen' = [seen EXCEPT ![p][k] = Newest(seen[p][k], json.at)]
    BY DEF Serve
<1>3. seen[p][k] \in Nat /\ seen \in [Procs -> [Keys -> Nat]]
    BY DirTypes
<1>4. /\ Newest(seen[p][k], json.at) \in Nat
      /\ Newest(seen[p][k], json.at) \in {seen[p][k], json.at}
      /\ seen[p][k] <= json.at => Newest(seen[p][k], json.at) = json.at
    BY <1>1, <1>3, SMTT(30) DEF Newest
<1> HIDE DEF Newest
<1>5. ret' = Got(p, k, json) /\ ret' \in Returns
    BY DEF Serve, Got, Returns
<1> QED BY <1>2, <1>3, <1>4, <1>5

\* A get that returns a document, from an entry or from the file, and has an
\* entry for it afterwards.
LEMMA DirServeStep ==
    ASSUME DirInv, NEW p \in Procs, NEW k \in Keys, NEW json \in Doc, Serve(p, k, json),
           Aside(p), UNCHANGED <<now, clears, up, files, since, spared, late>>,
           step'[p] = "idle", step' \in [Procs -> Steps], todo' = todo, todo[p] = {},
           arg' \in [Procs -> [key : Keys \cup {None}, doc : Doc \cup {None}, begun : Nat]],
           p \in up,
           entries' \in [Procs -> Seq(Entry)], UniqueKeys',
           seen[p][k] <= json.at \/ json \in late,
           json.era >= since[p] \/ json \in late \cup spared,
           \/ \E e \in Elems(entries[p]) : e.json = json
           \/ Held(k) /\ files[k].json = json,
           \A e \in Elems(entries'[p]) : e.key = k => e.json = json,
           \A e \in Elems(entries'[p]) :
              e \in Elems(entries[p]) \/ (Held(k) /\ e.key = k /\ e.json = files[k].json),
           \A j \in Keys : Has(entries[p], j) => Has(entries'[p], j),
           Has(entries'[p], k)
    PROVE  DirInv'
<1>1. /\ ret' = Got(p, k, json) /\ ret' \in Returns
      /\ seen' \in [Procs -> [Keys -> Nat]]
      /\ \A q \in Procs, j \in Keys : q # p \/ j # k => seen'[q][j] = seen[q][j]
      /\ seen'[p][k] = seen[p][k] \/ seen'[p][k] = json.at
      /\ seen[p][k] <= json.at => seen'[p][k] = json.at
      /\ \A q \in Procs : q # p => seen'[q] = seen[q]
    BY ServeFacts
<1>2. \A q \in Procs : /\ step'[q] \in Setting => step[q] \in Setting /\ arg'[q].doc = arg[q].doc
                       /\ step'[q] \in Clearing => step[q] \in Clearing
    BY DirTypes DEF Aside, Setting, Clearing, InDirectory
<1>3. Quiet
    <2>1. FilesFrom
        BY DEF Aside
    <2>2. TimeKnown(json.at)
        BY DEF TimeKnown
    <2>3. \A q \in Procs, j \in Keys :
            \/ seen'[q][j] \in Nat /\ seen'[q][j] <= seen[q][j]
            \/ TimeKnown(seen'[q][j])
        <3>1. \A q \in Procs, j \in Keys : seen[q][j] \in Nat /\ seen[q][j] <= seen[q][j]
            BY DirTypes
        <3> QED BY <1>1, <2>2, <3>1
    <2>4. ASSUME NEW q \in Procs, NEW e \in Elems(entries'[q])
          PROVE  e \in Elems(entries[q]) \/ (\E j \in Keys : Held(j) /\ e.json = files[j].json)
        <3>1. CASE q # p
            BY <2>4, <3>1 DEF Aside
        <3>2. CASE q = p
            BY <2>4, <3>2
        <3> QED BY <3>1, <3>2
    <2> QED BY <1>2, <2>1, <2>3, <2>4 DEF Quiet
<1>4. DirTypeOK'
    <2>1. TypeOK'
        BY <1>1 DEF DirInv, DirTypeOK, TypeOK
    <2> QED BY <2>1, CallTypes DEF DirInv, DirTypeOK, Setting, Loading, InDirectory
<1>5. DownInv' /\ SinceInv'
    BY DEF DirInv, DownInv, SinceInv, Aside
<1>6. ClearLeavesOnlyLate'
    BY <1>1 DEF ClearLeavesOnlyLate, Hit, Got
<1>7. CallAt(p)' /\ SweptAt(p)'
    BY DEF CallAt, SweptAt, Setting, Loading, Clearing, InDirectory
<1>8. RecentAt(p)'
    <2>1. RecentAt(p)
        BY DEF DirInv
    <2>2. ASSUME NEW e \in Elems(entries'[p])
          PROVE  seen'[p][e.key] <= e.json.at \/ e.json \in late
        <3>1. CASE e.key = k
            BY <1>1, <2>2, <3>1, DirTypes DEF Doc
        <3>2. CASE e.key # k
            <4>1. e \in Elems(entries[p])
                BY <2>2, <3>2
            <4>2. e.key \in Keys
                BY <4>1, DirTypes DEF Entry
            <4> QED BY <1>1, <2>1, <3>2, <4>1, <4>2 DEF RecentAt
        <3> QED BY <3>1, <3>2
    <2>3. ASSUME NEW j \in Keys, ~Has(entries'[p], j), Held(j)
          PROVE  seen'[p][j] <= files[j].json.at \/ files[j].json \in late
        <3>1. j # k /\ ~Has(entries[p], j)
            BY <2>3
        <3> QED BY <1>1, <2>1, <2>3, <3>1 DEF RecentAt
    <2> QED BY <2>2, <2>3 DEF RecentAt, Held, Has, Matching, Elems
<1> QED BY <1>3, <1>4, <1>5, <1>6, <1>7, <1>8, QuietDocs, DirStep

LEMMA LoadReadsStep ==
    ASSUME DirInv, NEW p \in Procs, LoadReads(p)
    PROVE  DirInv' /\ NoOlderAnswer
<1> DEFINE k    == arg[p].key
           json == files[k].json
           e    == [key |-> k, json |-> json, created |-> now]
<1>1. /\ step[p] = "read" /\ Goto(p, "idle", {}, "lost")
      /\ arg' = [arg EXCEPT ![p] = NoArg]
      /\ UNCHANGED <<now, clears, up, files, since, spared, todo, late>>
    BY DEF LoadReads, Return
<1>2. /\ step' \in [Procs -> Steps] /\ step'[p] = "idle"
      /\ \A q \in Procs \ {p} : \/ step'[q] = step[q]
                                \/ step[q] \in Setting /\ step'[q] \in Setting
    BY <1>1, GotoFacts, DirTypes DEF Steps
<1>3. /\ k \in Keys /\ p \in up /\ ~Has(entries[p], k) /\ todo[p] = {}
      /\ arg' \in [Procs -> [key : Keys \cup {None}, doc : Doc \cup {None}, begun : Nat]]
    BY <1>1, DirTypes DEF DirInv, CallAt, DirTypeOK, Loading, Clearing, NoArg
<1>4. TypeOK /\ UniqueKeys /\ entries[p] \in Seq(Entry) /\ Unique(entries[p])
    BY DEF DirInv, DirTypeOK, TypeOK, UniqueKeys, Unique
<1>5. CASE Held(k)
    <2>1. /\ entries' = [entries EXCEPT ![p] = Append(entries[p], e)]
          /\ Serve(p, k, json)
        BY <1>5 DEF LoadReads, Held
    <2>2. json \in Doc /\ e \in Entry /\ e.key = k
        BY <1>3, <1>5, DirTypes DEF Entry
    <2>3. /\ Append(entries[p], e) \in Seq(Entry) /\ Unique(Append(entries[p], e))
          /\ Elems(Append(entries[p], e)) = Elems(entries[p]) \cup {e}
        BY <1>3, <1>4, <2>2, AppendFacts
    <2>4. /\ entries' \in [Procs -> Seq(Entry)] /\ UniqueKeys'
          /\ Elems(entries'[p]) = Elems(entries[p]) \cup {e}
          /\ entries'[p] \in Seq(Entry)
          /\ \A q \in Procs : q # p => entries'[q] = entries[q]
        BY <1>4, <2>1, <2>3, ListUpdate
    <2>5. \A q \in Procs : q # p => seen'[q] = seen[q]
        BY <1>3, <2>1, <2>2, ServeFacts
    <2>6. Aside(p)
        BY <1>1, <1>2, <2>4, <2>5, DirTypes DEF Aside, FilesFrom, Held
    <2>7. \A j : Has(entries'[p], j) <=> (Has(entries[p], j) \/ j = k)
        BY <1>4, <2>2, <2>4, ElemsFacts
    <2>8. \A x \in Elems(entries[p]) : x.key # k
        BY <1>3, <1>4, ElemsFacts
    <2>9. seen[p][k] <= json.at \/ json \in late
        BY <1>3, <1>5 DEF DirInv, RecentAt
    <2>10. json.era >= since[p] \/ json \in late \cup spared
        <3>1. since[p] <= clears /\ since[p] \in Nat /\ clears \in Nat /\ json.era \in Nat
            BY <1>3, <1>5, DirTypes DEF DirInv, SinceInv
        <3> QED BY <1>3, <1>5, <3>1 DEF DirInv, EraInv
    <2>11. DirInv'
        <3> HIDE DEF k, json
        <3>1. e.key = k /\ e.json = json
            OBVIOUS
        <3>2. json = files[k].json
            BY DEF json
        <3> HIDE DEF e
        <3>3. \A x \in Elems(entries'[p]) : x.key = k => x.json = json
            BY <2>4, <2>8, <3>1
        <3>4. \A x \in Elems(entries'[p]) :
                x \in Elems(entries[p]) \/ (Held(k) /\ x.key = k /\ x.json = files[k].json)
            BY <1>5, <2>4, <3>1, <3>2
        <3>5. /\ \A j \in Keys : Has(entries[p], j) => Has(entries'[p], j)
              /\ Has(entries'[p], k)
            BY <2>7
        <3>6. UNCHANGED <<now, clears, up, files, since, spared, late>> /\ todo' = todo
            BY <1>1
        <3>7. /\ \/ \E x \in Elems(entries[p]) : x.json = json
                 \/ Held(k) /\ files[k].json = json
              /\ entries' \in [Procs -> Seq(Entry)] /\ UniqueKeys'
              /\ step' \in [Procs -> Steps] /\ step'[p] = "idle"
            BY <1>2, <1>5, <2>4, <3>2
        <3> QED BY <1>3, <2>1, <2>2, <2>6, <2>9, <2>10, <3>3, <3>4, <3>5, <3>6, <3>7, DirServeStep
    <2>12. NoOlderAnswer
        BY <1>3, <2>1, <2>2, <2>9, ServeFacts DEF NoOlderAnswer, Got
    <2> QED BY <2>11, <2>12
<1>6. CASE ~Held(k)
    <2>1. UNCHANGED <<entries, seen>> /\ ret' = Got(p, k, None)
        BY <1>6 DEF LoadReads, Held, Miss
    <2>2. Aside(p)
        BY <1>1, <1>2, <2>1, DirTypes DEF Aside, FilesFrom, Held
    <2>3. Quiet
        BY <1>1, <1>2, <2>1, DirTypes, SMTT(30)
       DEF Quiet, FilesFrom, Held, Elems, Setting, Loading, Clearing, InDirectory
    <2>4. DirTypeOK'
        <3>1. TypeOK'
            BY <1>1, <1>3, <2>1, DirTypes DEF DirInv, DirTypeOK, TypeOK, Got, Returns
        <3> QED BY <1>1, <1>2, <1>3, <2>2, <3>1, CallTypes
                DEF DirInv, DirTypeOK, Setting, Loading, InDirectory
    <2>5. UniqueKeys' /\ DownInv' /\ SinceInv' /\ ClearLeavesOnlyLate'
        BY <1>1, <2>1 DEF DirInv, UniqueKeys, DownInv, SinceInv, ClearLeavesOnlyLate, Hit, Got
    <2>6. CallAt(p)' /\ SweptAt(p)'
        BY <1>2 DEF CallAt, SweptAt, Setting, Loading, Clearing, InDirectory
    <2>7. RecentAt(p)'
        BY <1>1, <2>1 DEF DirInv, RecentAt, Held, Has, Matching, Elems
    <2>8. NoOlderAnswer
        BY <2>1 DEF NoOlderAnswer, Got
    <2> QED BY <2>2, <2>3, <2>4, <2>5, <2>6, <2>7, <2>8, QuietDocs, DirStep
<1> QED BY <1>5, <1>6

\* A get from an entry is a single step; one of an expired entry unlinks
\* the file.
LEMMA GetHitStep ==
    ASSUME DirInv, NEW p \in Procs, NEW k \in Keys, MayStart(p), GetHit(p, k),
           UNCHANGED <<now, clears, up, since, spared, callVars>>
    PROVE  DirInv' /\ NoOlderAnswer
<1> DEFINE e == entries[p][Find(entries[p], k)]
<1>1. /\ p \in up /\ step[p] = "idle" /\ Has(entries[p], k)
      /\ UNCHANGED <<now, clears, up, since, spared, step, arg, todo, late, entries, files>>
      /\ Serve(p, k, e.json)
    BY DEF MayStart, GetHit, callVars
<1>2. UniqueKeys /\ entries[p] \in Seq(Entry) /\ Unique(entries[p]) /\ RecentAt(p)
    BY DirTypes DEF DirInv, DirTypeOK, TypeOK, UniqueKeys, Unique
<1>3. e \in Elems(entries[p]) /\ e.key = k
    BY <1>1, <1>2, FindFacts
<1>4. \A x \in Elems(entries[p]) : x.key = k => x = e
    BY <1>2, <1>3 DEF Unique, Elems
<1> HIDE DEF e
<1>5. e.json \in Doc
    BY <1>3, DirTypes
<1>6. seen[p][k] <= e.json.at \/ e.json \in late
    BY <1>2, <1>3 DEF RecentAt
<1>7. e.json.era >= since[p] \/ e.json \in late \cup spared
    BY <1>3 DEF DirInv, EraInv
<1>8. \A q \in Procs : q # p => seen'[q] = seen[q]
    BY <1>1, <1>5, ServeFacts
<1>9. Aside(p)
    BY <1>1, <1>8 DEF Aside, FilesFrom, Held
<1>10. DirInv'
    <2>1. entries' = entries /\ Elems(entries'[p]) = Elems(entries[p])
        BY <1>1
    <2>2. /\ \A x \in Elems(entries'[p]) : x.key = k => x.json = e.json
          /\ \A x \in Elems(entries'[p]) :
               x \in Elems(entries[p]) \/ (Held(k) /\ x.key = k /\ x.json = files[k].json)
        BY <1>4, <2>1
    <2>3. /\ \A j \in Keys : Has(entries[p], j) => Has(entries'[p], j)
          /\ Has(entries'[p], k)
        BY <1>1
    <2>4. /\ UNCHANGED <<now, clears, up, files, since, spared, late>> /\ todo' = todo
          /\ entries' \in [Procs -> Seq(Entry)]
          /\ step' \in [Procs -> Steps] /\ step'[p] = "idle"
          /\ arg' \in [Procs -> [key : Keys \cup {None}, doc : Doc \cup {None}, begun : Nat]]
        BY <1>1, DirTypes
    <2>5. todo[p] = {}
        BY <1>1 DEF DirInv, DirTypeOK, Clearing
    <2>6. UniqueKeys'
        BY <1>1, <1>2 DEF UniqueKeys
    <2>7. \/ \E x \in Elems(entries[p]) : x.json = e.json
          \/ Held(k) /\ files[k].json = e.json
        BY <1>3
    <2> QED BY <1>1, <1>5, <1>6, <1>7, <1>9, <2>2, <2>3, <2>4, <2>5, <2>6, <2>7, DirServeStep
<1>11. NoOlderAnswer
    BY <1>1, <1>5, <1>6, ServeFacts DEF NoOlderAnswer, Got
<1> QED BY <1>10, <1>11

LEMMA GetDropStep ==
    ASSUME DirInv, NEW p \in Procs, NEW k \in Keys, MayStart(p), Miss(p, k),
           entries' = [entries EXCEPT ![p] = Without(@, k)],
           files' \in [Keys -> File \cup {None}], files'[k] = None,
           \A j \in Keys : j # k => files'[j] = files[j],
           step' = step \/ Goto(p, "idle", {k}, "lost"),
           UNCHANGED <<now, clears, up, since, spared, arg, todo, late>>
    PROVE  DirInv' /\ NoOlderAnswer
<1>1. p \in up /\ step[p] = "idle" /\ seen' = seen /\ ret' = Got(p, k, None)
    BY DEF MayStart, Miss
<1>2. /\ step' \in [Procs -> Steps] /\ step'[p] = "idle"
      /\ \A q \in Procs \ {p} : \/ step'[q] = step[q]
                                \/ step[q] \in Setting /\ step'[q] \in Setting
    <2>1. CASE step' = step
        BY <1>1, <2>1, DirTypes
    <2>2. CASE Goto(p, "idle", {k}, "lost")
        BY <2>2, GotoFacts, DirTypes DEF Steps
    <2> QED BY <2>1, <2>2
<1>3. TypeOK /\ UniqueKeys /\ entries[p] \in Seq(Entry)
    BY DirTypes DEF DirInv, DirTypeOK
<1>4. /\ Without(entries[p], k) \in Seq(Entry) /\ Unique(Without(entries[p], k))
      /\ Elems(Without(entries[p], k)) = {e \in Elems(entries[p]) : e.key # k}
    BY <1>3, DropFacts
<1>5. /\ entries' \in [Procs -> Seq(Entry)] /\ UniqueKeys'
      /\ Elems(entries'[p]) = {e \in Elems(entries[p]) : e.key # k}
      /\ entries'[p] \in Seq(Entry)
      /\ \A q \in Procs : q # p => entries'[q] = entries[q]
    BY <1>3, <1>4, ListUpdate
<1>6. \A j : Has(entries'[p], j) <=> (Has(entries[p], j) /\ j # k)
    <2>1. \A j : Has(entries[p], j) <=> \E e \in Elems(entries[p]) : e.key = j
        BY <1>3, ElemsFacts
    <2>2. \A j : Has(entries'[p], j) <=> \E e \in Elems(entries'[p]) : e.key = j
        BY <1>5, ElemsFacts
    <2> QED BY <1>5, <2>1, <2>2
<1>7. \A j \in Keys : Held(j)' => j # k /\ Held(j) /\ files'[j] = files[j]
    BY DEF Held
<1>8. Aside(p)
    BY <1>1, <1>2, <1>5, <1>7 DEF Aside, FilesFrom
<1>9. Quiet
    <2>1. \A q \in Procs : /\ step'[q] \in Setting => step[q] \in Setting /\ arg'[q].doc = arg[q].doc
                           /\ step'[q] \in Clearing => step[q] \in Clearing
        BY <1>1, <1>2 DEF Setting, Clearing, InDirectory
    <2>2. \A q \in Procs, j \in Keys : seen'[q][j] \in Nat /\ seen'[q][j] <= seen[q][j]
        BY <1>1, DirTypes
    <2>3. \A q \in Procs : \A e \in Elems(entries'[q]) : e \in Elems(entries[q])
        BY <1>5
    <2> QED BY <1>7, <2>1, <2>2, <2>3 DEF Quiet, FilesFrom
<1>10. DirTypeOK'
    <2>1. TypeOK'
        BY <1>1, <1>5, DirTypes DEF DirInv, DirTypeOK, TypeOK, Got, Returns
    <2>2. todo[p] = {}
        BY <1>1 DEF DirInv, DirTypeOK, Clearing
    <2> QED BY <1>1, <1>2, <1>8, <2>1, <2>2, CallTypes
            DEF DirInv, DirTypeOK, Setting, Loading, InDirectory
<1>11. DownInv' /\ SinceInv' /\ ClearLeavesOnlyLate'
    BY <1>1, <1>5 DEF DirInv, DownInv, SinceInv, ClearLeavesOnlyLate, Hit, Got
<1>12. CallAt(p)' /\ SweptAt(p)'
    BY <1>2 DEF CallAt, SweptAt, Setting, Loading, Clearing, InDirectory
<1>13. RecentAt(p)'
    <2>1. RecentAt(p)
        BY DEF DirInv
    <2>2. \A e \in Elems(entries'[p]) : e \in Elems(entries[p])
        BY <1>5
    <2>3. \A j \in Keys : ~Has(entries'[p], j) /\ Held(j)' =>
            ~Has(entries[p], j) /\ Held(j) /\ files'[j] = files[j]
        BY <1>6, <1>7
    <2> QED BY <1>1, <2>1, <2>2, <2>3 DEF RecentAt, Held, Has, Matching, Elems
<1>14. NoOlderAnswer
    BY <1>1 DEF NoOlderAnswer, Got
<1> QED BY <1>5, <1>8, <1>9, <1>10, <1>11, <1>12, <1>13, <1>14, QuietDocs, DirStep

LEMMA GetListedStep ==
    ASSUME DirInv, NEW p \in Procs, NEW k \in Keys, GetListed(p, k)
    PROVE  DirInv' /\ NoOlderAnswer
<1>1. MayStart(p) /\ UNCHANGED <<now, clears, up, since, spared, arg, todo, late>>
    BY DEF GetListed
<1>2. CASE GetHit(p, k) /\ UNCHANGED step
    BY <1>1, <1>2, GetHitStep DEF callVars
<1>3. CASE GetFileGone(p, k) /\ UNCHANGED step
    BY <1>1, <1>3, GetDropStep, DirTypes DEF GetFileGone
<1>4. CASE GetExpired(p, k) /\ Goto(p, "idle", {k}, "lost")
    <2>1. /\ files' = [j \in Keys |-> IF j \in {k} THEN None ELSE files[j]]
          /\ entries' = [entries EXCEPT ![p] = Without(@, k)]
          /\ Miss(p, k)
        BY <1>4, FileCallsAssumption DEF GetExpired, Deletions, Unlinks
    <2>2. /\ files' \in [Keys -> File \cup {None}] /\ files'[k] = None
          /\ \A j \in Keys : j # k => files'[j] = files[j]
        BY <2>1, DirTypes
    <2> QED BY <1>1, <1>4, <2>1, <2>2, GetDropStep
<1> QED BY <1>2, <1>3, <1>4 DEF GetListed

-----------------------------------------------------------------------------
(* client_cache_clear.                                                     *)

\* The unlinks of a clear.
LEMMA ClearUnlinksStep ==
    ASSUME DirInv, NEW p \in Procs, NEW k \in Keys, ClearOwn(p, k) \/ ClearFile(p, k)
    PROVE  DirInv'
<1>1. /\ step[p] \in Clearing /\ Goto(p, step[p], {k}, "lost")
      /\ files' = [j \in Keys |-> IF j = k THEN None ELSE files[j]]
      /\ todo' = [todo EXCEPT ![p] = @ \ {k}]
      /\ UNCHANGED <<now, clears, up, entries, seen, since, spared, ret, arg, late>>
    BY DEF ClearOwn, ClearFile, Unlink, Clearing
<1>2. /\ step' \in [Procs -> Steps] /\ step'[p] = step[p]
      /\ \A q \in Procs \ {p} : \/ step'[q] = step[q]
                                \/ step[q] \in Setting /\ step'[q] \in Setting
    BY <1>1, GotoFacts, DirTypes DEF Steps
<1>3. \A j \in Keys : Held(j)' => j # k /\ Held(j) /\ files'[j] = files[j]
    BY <1>1 DEF Held
<1>4. todo' \in [Procs -> SUBSET Keys] /\ todo'[p] = todo[p] \ {k}
    BY <1>1, DirTypes
<1>5. Aside(p)
    BY <1>1, <1>2, <1>3, DirTypes DEF Aside, FilesFrom
<1>6. Quiet
    BY <1>1, <1>2, <1>3, DirTypes, SMTT(30)
       DEF Quiet, FilesFrom, Elems, Setting, Loading, Clearing, InDirectory
<1>7. DirTypeOK'
    <2>1. TypeOK'
        BY <1>1, DirTypes DEF DirInv, DirTypeOK, TypeOK
    <2> QED BY <1>1, <1>2, <1>4, <1>5, <2>1, CallTypes
            DEF DirInv, DirTypeOK, Setting, Loading, Clearing, InDirectory
<1>8. UniqueKeys' /\ DownInv' /\ SinceInv' /\ ClearLeavesOnlyLate'
    BY <1>1 DEF DirInv, UniqueKeys, DownInv, SinceInv, ClearLeavesOnlyLate, Hit
<1>9. CallAt(p)'
    BY <1>1, <1>2 DEF DirInv, CallAt, Setting, Loading, Clearing, InDirectory
<1>10. SweptAt(p)'
    BY <1>1, <1>2, <1>3, <1>4 DEF DirInv, SweptAt, Held, Has, Matching
<1>11. RecentAt(p)'
    BY <1>1, <1>3 DEF DirInv, RecentAt, Held, Has, Matching, Elems
<1> QED BY <1>5, <1>6, <1>7, <1>8, <1>9, <1>10, <1>11, QuietDocs, DirStep

\* An empty list.
LEMMA NoEntries ==
    ASSUME DirInv, NEW p \in Procs, entries' = [entries EXCEPT ![p] = <<>>]
    PROVE  /\ entries' \in [Procs -> Seq(Entry)] /\ UniqueKeys'
           /\ entries'[p] = <<>> /\ Elems(entries'[p]) = {} /\ \A k : ~Has(entries'[p], k)
           /\ \A q \in Procs : q # p => entries'[q] = entries[q]
<1>1. entries \in [Procs -> Seq(Entry)] /\ UniqueKeys
    BY DirTypes DEF DirInv
<1> QED BY <1>1 DEF UniqueKeys, Elems, Has, Matching

LEMMA ClearScansStep ==
    ASSUME DirInv, NEW p \in Procs, ClearScans(p)
    PROVE  DirInv'
<1>1. /\ step[p] = "own" /\ todo[p] = {} /\ Goto(p, "scan", {}, "lost")
      /\ todo' = [todo EXCEPT ![p] = {k \in Keys : files[k] # None}]
      /\ UNCHANGED <<now, clears, up, files, seen, since, spared, ret, arg, late>>
    BY DEF ClearScans
<1>2. /\ step' \in [Procs -> Steps] /\ step'[p] = "scan"
      /\ \A q \in Procs \ {p} : \/ step'[q] = step[q]
                                \/ step[q] \in Setting /\ step'[q] \in Setting
    BY <1>1, GotoFacts, DirTypes DEF Steps, Clearing
<1>3. /\ entries' \in [Procs -> Seq(Entry)] /\ UniqueKeys'
      /\ entries'[p] = <<>> /\ Elems(entries'[p]) = {} /\ \A k : ~Has(entries'[p], k)
      /\ \A q \in Procs : q # p => entries'[q] = entries[q]
    BY NoEntries DEF ClearScans
<1>4. todo' \in [Procs -> SUBSET Keys] /\ todo'[p] = {k \in Keys : files[k] # None}
    BY <1>1, DirTypes
<1>5. Aside(p)
    BY <1>1, <1>2, <1>3, DirTypes DEF Aside, FilesFrom, Held
<1>6. Quiet
    <2>1. \A q \in Procs : \A e \in Elems(entries'[q]) : e \in Elems(entries[q])
        BY <1>3
    <2> QED BY <1>1, <1>2, <2>1, DirTypes
            DEF Quiet, FilesFrom, Held, Setting, Loading, Clearing, InDirectory
<1>7. DirTypeOK'
    <2>1. TypeOK'
        BY <1>1, <1>3, DirTypes DEF DirInv, DirTypeOK, TypeOK
    <2> QED BY <1>1, <1>2, <1>4, <1>5, <2>1, CallTypes
            DEF DirInv, DirTypeOK, Setting, Loading, Clearing, InDirectory
<1>8. DownInv' /\ SinceInv' /\ ClearLeavesOnlyLate'
    BY <1>1, <1>3 DEF DirInv, DownInv, SinceInv, ClearLeavesOnlyLate, Hit
<1>9. CallAt(p)'
    BY <1>1, <1>2 DEF DirInv, CallAt, Setting, Loading, Clearing, InDirectory
<1>10. SweptAt(p)'
    BY <1>1, <1>3, <1>4 DEF SweptAt, Held
<1>11. RecentAt(p)'
    <2>1. RecentAt(p)
        BY DEF DirInv
    <2>2. SweptAt(p)
        BY DEF DirInv
    <2>3. \A k \in Keys : Held(k) =>
            seen[p][k] <= files[k].json.at \/ files[k].json \in late
        BY <1>1, <2>1, <2>2 DEF RecentAt, SweptAt, Clearing
    <2> QED BY <1>1, <1>3, <2>3 DEF RecentAt, Held, Has, Matching, Elems
<1> QED BY <1>3, <1>5, <1>6, <1>7, <1>8, <1>9, <1>10, <1>11, QuietDocs, DirStep

-----------------------------------------------------------------------------
(* The end of a process, in a call or between two.                         *)

LEMMA EndsStep ==
    ASSUME DirInv, NEW p \in Procs, Ends(p)
    PROVE  DirInv'
<1>1. /\ Goto(p, "idle", {}, "lost")
      /\ up' = up \ {p}
      /\ seen' = [seen EXCEPT ![p] = [k \in Keys |-> 0]]
      /\ ret' = Idle
      /\ arg' = [arg EXCEPT ![p] = NoArg]
      /\ todo' = [todo EXCEPT ![p] = {}]
      /\ UNCHANGED <<now, clears, since, spared, files, late>>
    BY DEF Ends, Gone, Return
<1>2. /\ step' \in [Procs -> Steps] /\ step'[p] = "idle"
      /\ \A q \in Procs \ {p} : \/ step'[q] = step[q]
                                \/ step[q] \in Setting /\ step'[q] \in Setting
    BY <1>1, GotoFacts, DirTypes DEF Steps
<1>3. /\ entries' \in [Procs -> Seq(Entry)] /\ UniqueKeys'
      /\ entries'[p] = <<>> /\ Elems(entries'[p]) = {} /\ \A k : ~Has(entries'[p], k)
      /\ \A q \in Procs : q # p => entries'[q] = entries[q]
    BY NoEntries DEF Ends, Gone
<1>4. /\ seen' \in [Procs -> [Keys -> Nat]]
      /\ \A k \in Keys : seen'[p][k] = 0
      /\ \A q \in Procs : q # p => seen'[q] = seen[q]
    BY <1>1, DirTypes
<1>5. /\ todo' \in [Procs -> SUBSET Keys] /\ todo'[p] = {}
      /\ arg' \in [Procs -> [key : Keys \cup {None}, doc : Doc \cup {None}, begun : Nat]]
      /\ \A q \in Procs : q # p => todo'[q] = todo[q] /\ arg'[q] = arg[q]
    BY <1>1, DirTypes DEF NoArg
<1>6. Aside(p)
    BY <1>1, <1>2, <1>3, <1>4, <1>5 DEF Aside, FilesFrom, Held
<1>7. Quiet
    <2>1. \A q \in Procs : \A e \in Elems(entries'[q]) : e \in Elems(entries[q])
        BY <1>3
    <2>2. ASSUME NEW q \in Procs, NEW k \in Keys
          PROVE  seen'[q][k] \in Nat /\ seen'[q][k] <= seen[q][k]
        <3>1. seen[q][k] \in Nat
            BY DirTypes
        <3>2. seen'[q][k] = 0 \/ seen'[q][k] = seen[q][k]
            BY <1>4
        <3> QED BY <3>1, <3>2
    <2>3. \A q \in Procs : /\ step'[q] \in Setting => step[q] \in Setting /\ arg'[q].doc = arg[q].doc
                           /\ step'[q] \in Clearing => step[q] \in Clearing
        BY <1>2, <1>5 DEF Setting, Clearing, InDirectory
    <2> QED BY <1>1, <2>1, <2>2, <2>3 DEF Quiet, FilesFrom, Held
<1>8. DirTypeOK'
    <2>1. TypeOK'
        BY <1>1, <1>3, <1>4, DirTypes DEF DirInv, DirTypeOK, TypeOK, Returns
    <2> QED BY <1>1, <1>2, <1>5, <1>6, <2>1, CallTypes
            DEF DirInv, DirTypeOK, Setting, Loading, Clearing, InDirectory
<1>9. DownInv' /\ SinceInv' /\ ClearLeavesOnlyLate'
    BY <1>1, <1>3 DEF DirInv, DownInv, SinceInv, ClearLeavesOnlyLate, Hit, Idle
<1>10. CallAt(p)' /\ SweptAt(p)'
    BY <1>2 DEF CallAt, SweptAt, Setting, Loading, Clearing, InDirectory
<1>11. RecentAt(p)'
    <2>1. \A k \in Keys : Held(k) => files[k].json.at \in Nat
        BY DirTypes
    <2> QED BY <1>1, <1>3, <1>4, <2>1 DEF RecentAt, Held, Has, Matching, Elems
<1> QED BY <1>3, <1>6, <1>7, <1>8, <1>9, <1>10, <1>11, QuietDocs, DirStep

-----------------------------------------------------------------------------
(* The steps that start a set or a clear, or end a clear.                  *)

LEMMA OverlapFacts ==
    ASSUME DirInv, NEW p \in Procs, NEW docs \in SUBSET Doc
    PROVE  /\ Overlapping(p, docs) \in SUBSET Doc
           /\ \A q \in Procs : q # p /\ step[q] \in Setting =>
                arg[q].doc \in Overlapping(p, docs)
           /\ \A q \in Procs : q # p /\ step[q] \in Setting \cup Clearing =>
                docs \subseteq Overlapping(p, docs)
<1>1. \A q \in Procs : step[q] \in Setting => arg[q].doc \in Doc
    BY DirTypes
<1> QED BY <1>1 DEF Overlapping

LEMMA SetStartStep ==
    ASSUME DirInv, NEW p \in Procs, NEW k \in Keys, NEW doc \in Fresh, SetStart(p, k, doc)
    PROVE  DirInv'
<1> DEFINE rest    == Without(entries[p], k)
           e       == [key |-> k, json |-> doc, created |-> now]
           es      == Append(Evicted(rest), e)
           victims == Victims(rest)
           more    == Overlapping(p, {doc})
<1>1. /\ p \in up /\ step[p] = "idle" /\ Goto(p, "save", victims, "lost")
      /\ entries' = [entries EXCEPT ![p] = es]
      /\ files' = [j \in Keys |-> IF j \in victims THEN None ELSE files[j]]
      /\ arg' = [arg EXCEPT ![p] = [key |-> k, doc |-> doc, begun |-> now]]
      /\ late' = late \cup more
      /\ UNCHANGED <<now, clears, up, seen, since, spared, ret, todo>>
    BY DEF SetStart, MayStart, Unlink, Start
<1>2. /\ doc \in Doc /\ doc.at = now /\ doc.era = clears
      /\ e \in Entry /\ e.key = k /\ e.json = doc
    BY DirTypes DEF Fresh, Doc, Entry
<1>3. TypeOK /\ UniqueKeys /\ entries[p] \in Seq(Entry) /\ RecentAt(p)
    BY DirTypes DEF DirInv, DirTypeOK
<1>4. /\ es \in Seq(Entry) /\ Unique(es)
      /\ Elems(es) = {e} \cup {x \in Elems(entries[p]) : x.key # k /\ x.key \notin victims}
    BY <1>2, <1>3, StoreFacts
<1>5. /\ more \in SUBSET Doc
      /\ \A q \in Procs : q # p /\ step[q] \in Setting => arg[q].doc \in more
      /\ \A q \in Procs : q # p /\ step[q] \in Setting \cup Clearing => doc \in more
    BY <1>2, OverlapFacts
<1> HIDE DEF es, e, rest, victims, more
<1>6. /\ entries' \in [Procs -> Seq(Entry)] /\ UniqueKeys' /\ entries'[p] \in Seq(Entry)
      /\ Elems(entries'[p]) = {e} \cup {x \in Elems(entries[p]) : x.key # k /\ x.key \notin victims}
      /\ \A q \in Procs : q # p => entries'[q] = entries[q]
    BY <1>1, <1>3, <1>4, ListUpdate
<1>7. /\ step' \in [Procs -> Steps] /\ step'[p] = "save"
      /\ \A q \in Procs \ {p} : \/ step'[q] = step[q]
                                \/ step[q] \in Setting /\ step'[q] \in Setting
    BY <1>1, GotoFacts, DirTypes DEF Steps, Setting
<1>8. /\ arg' \in [Procs -> [key : Keys \cup {None}, doc : Doc \cup {None}, begun : Nat]]
      /\ arg'[p].key = k /\ arg'[p].doc = doc
      /\ \A q \in Procs : q # p => arg'[q] = arg[q]
    BY <1>1, <1>2, DirTypes
<1>9. /\ files' \in [Keys -> File \cup {None}]
      /\ \A j \in Keys : Held(j)' => j \notin victims /\ Held(j) /\ files'[j] = files[j]
    BY <1>1, DirTypes DEF Held
<1>10. Aside(p)
    BY <1>1, <1>6, <1>7, <1>8, <1>9 DEF Aside, FilesFrom
<1>11. DirTypeOK'
    <2>1. TypeOK'
        BY <1>1, <1>6, <1>9, DirTypes DEF DirInv, DirTypeOK, TypeOK
    <2>2. doc # None /\ k # None
        BY <1>2, NoneAssumption
    <2>3. todo[p] = {} /\ late' \in SUBSET Doc
        BY <1>1, <1>5 DEF DirInv, DirTypeOK, Clearing
    <2> QED BY <1>1, <1>7, <1>8, <1>10, <2>1, <2>2, <2>3, CallTypes DEF DirInv, DirTypeOK
<1>12. DownInv' /\ SinceInv' /\ ClearLeavesOnlyLate'
    BY <1>1, <1>6 DEF DirInv, DownInv, SinceInv, ClearLeavesOnlyLate, Hit
<1>13. \A q \in Procs \ {p} : /\ step'[q] \in Setting <=> step[q] \in Setting
                              /\ step'[q] \in Clearing <=> step[q] \in Clearing
    BY <1>7, DirTypes DEF Setting, Clearing, InDirectory
<1>14. AloneInv'
    <2> SUFFICES ASSUME NEW q \in Procs, NEW r \in Procs, q # r,
                        step'[q] \in Setting, step'[r] \in Setting \cup Clearing
                 PROVE  arg'[q].doc \in late'
        BY DEF AloneInv
    <2>1. CASE q = p
        BY <1>1, <1>5, <1>8, <1>13, <2>1
    <2>2. CASE q # p
        BY <1>1, <1>5, <1>8, <1>13, <2>2
    <2> QED BY <2>1, <2>2
<1>15. EraInv'
    <2>1. \A j \in Keys : Held(j)' => files'[j].json.era = clears \/ files'[j].json \in late' \cup spared'
        BY <1>1, <1>9 DEF DirInv, EraInv
    <2>2. \A q \in Procs : step'[q] \in Setting =>
            arg'[q].doc.era = clears \/ arg'[q].doc \in late'
        BY <1>1, <1>2, <1>8, <1>13 DEF DirInv, EraInv
    <2>3. ASSUME NEW q \in Procs, NEW x \in Elems(entries'[q])
          PROVE  x.json.era >= since[q] \/ x.json \in late' \cup spared'
        <3>1. CASE x \in Elems(entries[q])
            BY <1>1, <3>1 DEF DirInv, EraInv
        <3>2. CASE q = p /\ x = e
            <4>1. since[p] <= clears /\ since[p] \in Nat /\ clears \in Nat
                BY DirTypes DEF DirInv, SinceInv
            <4> QED BY <1>2, <3>2, <4>1
        <3> QED BY <1>6, <3>1, <3>2
    <2> QED BY <1>1, <2>1, <2>2, <2>3 DEF EraInv, Held, Elems
<1>16. /\ \A q \in Procs, j \in Keys : seen'[q][j] <= now
       /\ \A j \in Keys : Held(j)' => files'[j].json.at <= now
       /\ \A q \in Procs : \A x \in Elems(entries'[q]) : x.json.at <= now
    <2>1. now <= now
        BY DirTypes
    <2> QED BY <1>1, <1>2, <1>6, <1>9, <2>1 DEF DirInv, PastInv
<1>17. PastInv'
    BY <1>1, <1>16 DEF PastInv, Held, Elems
<1>18. NewestInv'
    <2> SUFFICES ASSUME NEW q \in Procs, step'[q] \in Setting, arg'[q].doc \notin late'
                 PROVE  /\ \A r \in Procs, j \in Keys : seen'[r][j] <= arg'[q].doc.at
                        /\ \A j \in Keys : Held(j)' => files'[j].json.at <= arg'[q].doc.at
                        /\ \A r \in Procs : \A x \in Elems(entries'[r]) :
                             x.json.at <= arg'[q].doc.at
        BY DEF NewestInv, Held, Elems
    <2>1. q = p
        BY <1>1, <1>5, <1>8, <1>13
    <2> QED BY <1>2, <1>8, <1>16, <2>1
<1>19. CallAt(p)'
    <2>1. Has(entries'[p], k)
        <3>1. e \in Elems(entries'[p])
            BY <1>6
        <3> QED BY <1>2, <1>6, <3>1, ElemsFacts
    <2> QED BY <1>1, <1>2, <1>6, <1>7, <1>8, <2>1, ZenonT(60)
           DEF CallAt, Has, Matching, Elems, Setting, Loading, InDirectory
<1>20. SweptAt(p)'
    BY <1>7 DEF SweptAt, Clearing
<1>21. RecentAt(p)'
    <2>1. ASSUME NEW x \in Elems(entries'[p])
          PROVE  seen[p][x.key] <= x.json.at \/ x.json \in late
        <3>1. CASE x = e
            BY <1>2, <3>1 DEF DirInv, PastInv
        <3>2. CASE x \in Elems(entries[p])
            <4>1. x.key \in Keys
                BY <3>2, DirTypes DEF Entry
            <4> QED BY <1>3, <3>2, <4>1 DEF RecentAt
        <3> QED BY <1>6, <2>1, <3>1, <3>2
    <2>2. ASSUME NEW j \in Keys, ~Has(entries'[p], j), Held(j)'
          PROVE  seen[p][j] <= files'[j].json.at \/ files'[j].json \in late
        <3>1. j \notin victims /\ Held(j) /\ files'[j] = files[j]
            BY <1>9, <2>2
        <3>2. \A x \in Elems(entries'[p]) : x.key # j
            BY <1>6, <2>2, ElemsFacts
        <3>3. j # k
            BY <1>2, <1>6, <3>2
        <3>4. \A x \in Elems(entries[p]) : x.key # j
            BY <1>6, <3>1, <3>2, <3>3
        <3>5. ~Has(entries[p], j)
            BY <1>3, <3>4, ElemsFacts
        <3> QED BY <1>3, <3>1, <3>5 DEF RecentAt
    <2> QED BY <1>1, <2>1, <2>2 DEF RecentAt, Held, Has, Matching, Elems
<1> QED BY <1>6, <1>10, <1>11, <1>12, <1>14, <1>15, <1>17, <1>18, <1>19, <1>20, <1>21, DirStep

LEMMA ClearStartStep ==
    ASSUME DirInv, NEW p \in Procs, ClearStart(p)
    PROVE  DirInv'
<1> DEFINE more == Overlapping(p, {})
<1>1. /\ p \in up /\ step[p] = "idle" /\ Goto(p, "own", {}, "lost")
      /\ todo' = [todo EXCEPT ![p] = {k \in Keys : Has(entries[p], k)}]
      /\ arg' = [arg EXCEPT ![p] = [key |-> None, doc |-> None, begun |-> now]]
      /\ late' = late \cup more
      /\ UNCHANGED <<now, clears, up, entries, files, seen, since, spared, ret>>
    BY DEF ClearStart, Listed, MayStart, Start, vars
<1>2. /\ step' \in [Procs -> Steps] /\ step'[p] = "own"
      /\ \A q \in Procs \ {p} : \/ step'[q] = step[q]
                                \/ step[q] \in Setting /\ step'[q] \in Setting
    BY <1>1, GotoFacts, DirTypes DEF Steps, Clearing
<1>3. /\ more \in SUBSET Doc
      /\ \A q \in Procs : q # p /\ step[q] \in Setting => arg[q].doc \in more
    BY OverlapFacts
<1> HIDE DEF more
<1>4. /\ todo' \in [Procs -> SUBSET Keys] /\ todo'[p] = {k \in Keys : Has(entries[p], k)}
      /\ arg' \in [Procs -> [key : Keys \cup {None}, doc : Doc \cup {None}, begun : Nat]]
      /\ \A q \in Procs : q # p => todo'[q] = todo[q] /\ arg'[q] = arg[q]
    BY <1>1, DirTypes
<1>5. Aside(p)
    BY <1>1, <1>2, <1>4 DEF Aside, FilesFrom, Held
<1>6. DirTypeOK'
    <2>1. TypeOK'
        BY <1>1 DEF DirInv, DirTypeOK, TypeOK
    <2>2. late' \in SUBSET Doc
        BY <1>1, <1>3, DirTypes
    <2> QED BY <1>2, <1>4, <1>5, <2>1, <2>2, CallTypes
            DEF Setting, Loading, Clearing, InDirectory
\* A set that is still under way is late now.
<1>7. ASSUME NEW q \in Procs, step'[q] \in Setting
      PROVE  step[q] \in Setting /\ arg'[q].doc \in late'
    BY <1>1, <1>2, <1>3, <1>4, <1>7 DEF Setting, InDirectory
<1>8. AloneInv' /\ NewestInv'
    BY <1>7 DEF AloneInv, NewestInv
<1>9. EraInv' /\ PastInv'
    BY <1>1, <1>7 DEF DirInv, EraInv, PastInv, Held, Elems
<1>10. UniqueKeys' /\ DownInv' /\ SinceInv' /\ ClearLeavesOnlyLate'
    BY <1>1 DEF DirInv, UniqueKeys, DownInv, SinceInv, ClearLeavesOnlyLate, Hit
<1>11. CallAt(p)' /\ SweptAt(p)'
    BY <1>1, <1>2, <1>4 DEF CallAt, SweptAt, Has, Matching, Held, Setting, Loading, InDirectory
<1>12. RecentAt(p)'
    BY <1>1 DEF DirInv, RecentAt, Held, Has, Matching, Elems
<1> QED BY <1>5, <1>6, <1>8, <1>9, <1>10, <1>11, <1>12, DirStep

LEMMA ClearReturnsStep ==
    ASSUME DirInv, NEW p \in Procs, ClearReturns(p)
    PROVE  DirInv'
<1>1. /\ step[p] = "scan" /\ todo[p] = {} /\ Goto(p, "idle", {}, "lost")
      /\ clears' = clears + 1
      /\ since' = [since EXCEPT ![p] = clears + 1]
      /\ ret' = [call |-> "clear", proc |-> p]
      /\ arg' = [arg EXCEPT ![p] = NoArg]
      /\ UNCHANGED <<now, up, entries, files, seen, spared, todo, late>>
    BY DEF ClearReturns, ClearDone, Return
<1>2. /\ step' \in [Procs -> Steps] /\ step'[p] = "idle"
      /\ \A q \in Procs \ {p} : \/ step'[q] = step[q]
                                \/ step[q] \in Setting /\ step'[q] \in Setting
    BY <1>1, GotoFacts, DirTypes DEF Steps
<1>3. /\ arg' \in [Procs -> [key : Keys \cup {None}, doc : Doc \cup {None}, begun : Nat]]
      /\ \A q \in Procs : q # p => arg'[q] = arg[q]
    BY <1>1, DirTypes DEF NoArg
<1>4. /\ since' \in [Procs -> Nat] /\ since'[p] = clears + 1
      /\ \A q \in Procs : q # p => since'[q] = since[q]
    BY <1>1, DirTypes
<1>5. Aside(p)
    BY <1>1, <1>2, <1>3 DEF Aside, FilesFrom, Held
<1>6. DirTypeOK'
    <2>1. TypeOK'
        BY <1>1, <1>4, DirTypes DEF DirInv, DirTypeOK, TypeOK, Returns
    <2> QED BY <1>1, <1>2, <1>3, <1>5, <2>1, CallTypes
            DEF DirInv, DirTypeOK, Setting, Loading, InDirectory
<1>7. \A q \in Procs : step'[q] \in Setting \cup Clearing =>
        q # p /\ arg'[q] = arg[q] /\ (step'[q] \in Setting <=> step[q] \in Setting)
              /\ step[q] \in Setting \cup Clearing
    BY <1>2, <1>3 DEF Setting, Clearing, InDirectory
<1>8. AloneInv' /\ PastInv' /\ NewestInv'
    <2>1. AloneInv'
        BY <1>1, <1>7 DEF DirInv, AloneInv
    <2>2. PastInv'
        BY <1>1 DEF DirInv, PastInv, Held, Elems
    <2>3. NewestInv'
        BY <1>1, <1>7 DEF DirInv, NewestInv, Held, Elems
    <2> QED BY <2>1, <2>2, <2>3
<1>9. EraInv'
    <2>1. entries[p] = <<>> /\ \A k \in Keys : Held(k) => files[k].json \in late
        BY <1>1 DEF DirInv, SweptAt, Clearing
    <2>2. \A q \in Procs : step'[q] \in Setting => arg'[q].doc \in late
        BY <1>1, <1>7 DEF DirInv, AloneInv, Clearing
    <2>3. ASSUME NEW q \in Procs, NEW e \in Elems(entries[q])
          PROVE  e.json.era >= since'[q] \/ e.json \in late \cup spared
        <3>1. q # p
            BY <2>1, <2>3 DEF Elems
        <3> QED BY <1>4, <2>3, <3>1 DEF DirInv, EraInv
    <2> QED BY <1>1, <2>1, <2>2, <2>3 DEF EraInv, Held, Elems
<1>10. UniqueKeys' /\ DownInv' /\ SinceInv' /\ ClearLeavesOnlyLate'
    <2>1. \A q \in Procs : since[q] <= clears /\ since[q] \in Nat /\ clears \in Nat
        BY DirTypes DEF DirInv, SinceInv
    <2>2. SinceInv'
        BY <1>1, <1>4, <2>1 DEF SinceInv
    <2> QED BY <1>1, <2>2 DEF DirInv, UniqueKeys, DownInv, ClearLeavesOnlyLate, Hit
<1>11. CallAt(p)' /\ SweptAt(p)'
    BY <1>2 DEF CallAt, SweptAt, Setting, Loading, Clearing, InDirectory
<1>12. RecentAt(p)'
    BY <1>1 DEF DirInv, RecentAt, Held, Has, Matching, Elems
<1> QED BY <1>5, <1>6, <1>8, <1>9, <1>10, <1>11, <1>12, DirStep

\* A clear that cannot scan the directory spares what is in it.
LEMMA ClearCannotScanStep ==
    ASSUME DirInv, NEW p \in Procs, ClearCannotScan(p)
    PROVE  DirInv'
<1>1. /\ step[p] = "own" /\ todo[p] = {} /\ Goto(p, "idle", {}, "lost")
      /\ clears' = clears + 1
      /\ since' = [since EXCEPT ![p] = clears + 1]
      /\ ret' = [call |-> "clear", proc |-> p]
      /\ arg' = [arg EXCEPT ![p] = NoArg]
      /\ spared' = spared \cup Documents(files)
      /\ UNCHANGED <<now, up, files, seen, todo, late>>
    BY DEF ClearCannotScan, ClearDone, Return
<1>2. /\ step' \in [Procs -> Steps] /\ step'[p] = "idle"
      /\ \A q \in Procs \ {p} : \/ step'[q] = step[q]
                                \/ step[q] \in Setting /\ step'[q] \in Setting
    BY <1>1, GotoFacts, DirTypes DEF Steps
<1>3. /\ arg' \in [Procs -> [key : Keys \cup {None}, doc : Doc \cup {None}, begun : Nat]]
      /\ \A q \in Procs : q # p => arg'[q] = arg[q]
    BY <1>1, DirTypes DEF NoArg
<1>4. /\ since' \in [Procs -> Nat] /\ since'[p] = clears + 1
      /\ \A q \in Procs : q # p => since'[q] = since[q]
    BY <1>1, DirTypes
<1>5. /\ entries' \in [Procs -> Seq(Entry)] /\ UniqueKeys'
      /\ entries'[p] = <<>> /\ Elems(entries'[p]) = {} /\ \A k : ~Has(entries'[p], k)
      /\ \A q \in Procs : q # p => entries'[q] = entries[q]
    BY NoEntries DEF ClearCannotScan
<1>6. /\ spared \subseteq spared' /\ spared' \in SUBSET Doc
      /\ \A k \in Keys : Held(k) => files[k].json \in spared'
    BY <1>1, DirTypes DEF Documents, Held, File
<1>7. Aside(p)
    BY <1>1, <1>2, <1>3, <1>5 DEF Aside, FilesFrom, Held
<1>8. DirTypeOK'
    <2>1. TypeOK'
        BY <1>1, <1>4, <1>5, <1>6, DirTypes DEF DirInv, DirTypeOK, TypeOK, Returns
    <2> QED BY <1>1, <1>2, <1>3, <1>7, <2>1, CallTypes
            DEF DirInv, DirTypeOK, Setting, Loading, InDirectory
<1>9. \A q \in Procs : step'[q] \in Setting \cup Clearing =>
        q # p /\ arg'[q] = arg[q] /\ (step'[q] \in Setting <=> step[q] \in Setting)
              /\ step[q] \in Setting \cup Clearing
    BY <1>2, <1>3 DEF Setting, Clearing, InDirectory
<1>10. \A q \in Procs : Elems(entries'[q]) \subseteq Elems(entries[q])
    BY <1>5
<1>11. AloneInv' /\ PastInv' /\ NewestInv'
    <2>1. AloneInv'
        BY <1>1, <1>9 DEF DirInv, AloneInv
    <2>2. PastInv'
        BY <1>1, <1>10 DEF DirInv, PastInv, Held, Elems
    <2>3. NewestInv'
        <3>1. ASSUME NEW q \in Procs, step[q] \in Setting, arg[q].doc \notin late,
                     NEW r \in Procs, NEW e \in Elems(entries'[r])
              PROVE  e.json.at <= arg[q].doc.at
            BY <1>10, <3>1 DEF DirInv, NewestInv
        <3>2. \A q \in Procs : step'[q] \in Setting => step[q] \in Setting /\ arg'[q] = arg[q]
            BY <1>9
        <3> QED BY <1>1, <3>1, <3>2 DEF DirInv, NewestInv, Held, Elems
    <2> QED BY <2>1, <2>2, <2>3
<1>12. EraInv'
    <2>1. \A q \in Procs : step'[q] \in Setting => arg'[q].doc \in late
        BY <1>1, <1>9 DEF DirInv, AloneInv, Clearing
    <2>2. ASSUME NEW q \in Procs, NEW e \in Elems(entries'[q])
          PROVE  e.json.era >= since'[q] \/ e.json \in late \cup spared
        <3>1. q # p /\ e \in Elems(entries[q])
            BY <1>5, <1>10, <2>2
        <3> QED BY <1>4, <3>1 DEF DirInv, EraInv
    <2> QED BY <1>1, <1>6, <2>1, <2>2 DEF EraInv, Held, Elems
<1>13. DownInv' /\ SinceInv' /\ ClearLeavesOnlyLate'
    <2>1. \A q \in Procs : since[q] <= clears /\ since[q] \in Nat /\ clears \in Nat
        BY DirTypes DEF DirInv, SinceInv
    <2>2. SinceInv'
        BY <1>1, <1>4, <2>1 DEF SinceInv
    <2> QED BY <1>1, <1>5, <2>2 DEF DirInv, DownInv, ClearLeavesOnlyLate, Hit
<1>14. CallAt(p)' /\ SweptAt(p)'
    BY <1>2 DEF CallAt, SweptAt, Setting, Loading, Clearing, InDirectory
<1>15. RecentAt(p)'
    <2>1. RecentAt(p) /\ SweptAt(p)
        BY DEF DirInv
    <2>2. \A k \in Keys : Held(k) =>
            seen[p][k] <= files[k].json.at \/ files[k].json \in late
        BY <1>1, <2>1 DEF RecentAt, SweptAt, Clearing
    <2> QED BY <1>1, <1>5, <2>2 DEF RecentAt, Held, Has, Matching, Elems
<1> QED BY <1>5, <1>7, <1>8, <1>11, <1>12, <1>13, <1>14, <1>15, DirStep

-----------------------------------------------------------------------------
LEMMA DirCreateStep ==
    ASSUME DirInv, NEW p \in Procs, DirCreate(p)
    PROVE  DirInv'
<1>1. /\ p \notin up /\ up' = up \cup {p}
      /\ since' = [since EXCEPT ![p] = clears] /\ ret' = Idle
      /\ UNCHANGED <<now, clears, entries, files, seen, spared, step, arg, todo, late>>
    BY DEF DirCreate, Create, callVars
<1>2. step[p] = "idle" /\ entries[p] = <<>>
    BY <1>1 DEF DirInv, CallAt, DownInv
<1>3. /\ since' \in [Procs -> Nat] /\ since'[p] = clears
      /\ \A q \in Procs : q # p => since'[q] = since[q]
    BY <1>1, DirTypes
<1>4. Aside(p)
    BY <1>1 DEF Aside, FilesFrom, Held
<1>5. DirTypeOK'
    <2>1. TypeOK'
        BY <1>1, <1>3, DirTypes DEF DirInv, DirTypeOK, TypeOK, Returns
    <2> QED BY <1>1, <2>1 DEF DirInv, DirTypeOK
<1>6. AloneInv' /\ PastInv' /\ NewestInv'
    BY <1>1 DEF DirInv, AloneInv, PastInv, NewestInv, Held, Elems
<1>7. EraInv'
    <2>1. ASSUME NEW q \in Procs, NEW e \in Elems(entries[q])
          PROVE  e.json.era >= since'[q] \/ e.json \in late \cup spared
        <3>1. q # p
            BY <1>2, <2>1 DEF Elems
        <3> QED BY <1>3, <2>1, <3>1 DEF DirInv, EraInv
    <2> QED BY <1>1, <2>1 DEF DirInv, EraInv, Held, Elems
<1>8. UniqueKeys' /\ DownInv' /\ SinceInv' /\ ClearLeavesOnlyLate'
    <2>1. \A q \in Procs : since[q] <= clears /\ clears <= clears
        BY DirTypes DEF DirInv, SinceInv
    <2>2. SinceInv'
        BY <1>1, <1>3, <2>1 DEF SinceInv
    <2> QED BY <1>1, <2>2 DEF DirInv, UniqueKeys, DownInv, ClearLeavesOnlyLate, Hit, Idle
<1>9. CallAt(p)' /\ SweptAt(p)' /\ RecentAt(p)'
    BY <1>1, <1>2 DEF DirInv, CallAt, SweptAt, RecentAt, Held, Has, Matching, Elems,
                      Setting, Loading, Clearing, InDirectory
<1> QED BY <1>4, <1>5, <1>6, <1>7, <1>8, <1>9, DirStep

LEMMA DirTickStep ==
    ASSUME DirInv, DirTick
    PROVE  DirInv'
<1>1. /\ now' = now + 1 /\ ret' = Idle
      /\ UNCHANGED <<clears, up, entries, files, seen, since, spared, step, arg, todo, late>>
    BY DEF DirTick, Tick, callVars
<1>2. DirTypeOK'
    <2>1. TypeOK'
        BY <1>1, DirTypes DEF DirInv, DirTypeOK, TypeOK, Returns
    <2> QED BY <1>1, <2>1 DEF DirInv, DirTypeOK
<1>3. PastInv'
    <2>1. /\ \A p \in Procs, k \in Keys : seen[p][k] <= now + 1
          /\ \A k \in Keys : Held(k) => files[k].json.at <= now + 1
          /\ \A p \in Procs : \A e \in Elems(entries[p]) : e.json.at <= now + 1
        BY DirTypes DEF DirInv, PastInv
    <2> QED BY <1>1, <2>1 DEF PastInv, Held, Elems
<1>4. AloneInv' /\ EraInv' /\ NewestInv'
    BY <1>1 DEF DirInv, AloneInv, EraInv, NewestInv, Held, Elems
<1>5. UniqueKeys' /\ DownInv' /\ SinceInv' /\ ClearLeavesOnlyLate'
    BY <1>1 DEF DirInv, UniqueKeys, DownInv, SinceInv, ClearLeavesOnlyLate, Hit, Idle
<1>6. \A p \in Procs : CallAt(p)' /\ SweptAt(p)' /\ RecentAt(p)'
    BY <1>1 DEF DirInv, CallAt, SweptAt, RecentAt, Held, Has, Matching, Elems
<1> QED BY <1>2, <1>3, <1>4, <1>5, <1>6 DEF DirInv

-----------------------------------------------------------------------------
(* The theorems.                                                           *)

LEMMA InitDirInv == DirInit => DirInv
<1> SUFFICES ASSUME DirInit PROVE DirInv
    OBVIOUS
<1>1. TypeOK /\ UniqueKeys /\ DownInv /\ SinceInv
    BY DEF DirInit, Init, TypeOK, UniqueKeys, DownInv, SinceInv, Returns, Idle
<1>2. /\ \A p \in Procs : /\ step[p] = "idle" /\ entries[p] = <<>>
                          /\ Elems(entries[p]) = {} /\ todo[p] = {}
                          /\ \A k \in Keys : seen[p][k] = 0
      /\ \A k \in Keys : ~Held(k)
      /\ now = 0
    BY DEF DirInit, Init, Elems, Held
<1>3. DirTypeOK
    BY <1>1 DEF DirInit, DirTypeOK, NoArg, Setting, Loading, InDirectory
<1>4. AloneInv /\ EraInv /\ PastInv /\ NewestInv
    <2>1. \A p \in Procs : step[p] \notin Setting
        BY <1>2 DEF Setting, InDirectory
    <2>2. AloneInv /\ NewestInv
        BY <2>1 DEF AloneInv, NewestInv
    <2>3. EraInv
        BY <1>2, <2>1 DEF EraInv
    <2>4. PastInv
        BY <1>2 DEF PastInv
    <2> QED BY <2>2, <2>3, <2>4
<1>5. \A p \in Procs : CallAt(p) /\ SweptAt(p) /\ RecentAt(p)
    BY <1>2 DEF CallAt, SweptAt, RecentAt, Setting, Loading, Clearing, InDirectory
<1>6. ClearLeavesOnlyLate
    BY DEF DirInit, Init, ClearLeavesOnlyLate, Hit, Idle
<1> QED BY <1>1, <1>3, <1>4, <1>5, <1>6 DEF DirInv

LEMMA NextDirInv == DirInv /\ [DirNext]_dirVars => DirInv' /\ [NoOlderAnswer]_dirVars
<1> SUFFICES ASSUME DirInv, [DirNext]_dirVars
             PROVE  DirInv' /\ [NoOlderAnswer]_dirVars
    OBVIOUS
<1>1. ASSUME DirTick PROVE DirInv' /\ NoOlderAnswer
    <2>1. DirInv'
        BY <1>1, DirTickStep
    <2> QED BY <1>1, <2>1 DEF DirTick, Tick, Idle, NoOlderAnswer
<1>2. ASSUME NEW p \in Procs,
             DirCreate(p) \/ Ends(p) \/ SetOpens(p) \/ SetReturns(p) \/ LoadUnlinks(p)
               \/ ClearStart(p) \/ ClearScans(p) \/ ClearCannotScan(p) \/ ClearReturns(p)
      PROVE  DirInv' /\ NoOlderAnswer
    <2>1. DirInv'
        BY <1>2, DirCreateStep, EndsStep, SetOpensStep, SetReturnsStep, LoadUnlinksStep,
           ClearStartStep, ClearScansStep, ClearCannotScanStep, ClearReturnsStep
    <2>2. \/ ret' = ret
          \/ ret'.call # "get"
          \/ ret'.json = None
        BY <1>2 DEF DirCreate, Create, Ends, Gone, SetOpens, SetReturns, LoadUnlinks, Miss,
                    ClearStart, ClearScans, ClearCannotScan, ClearReturns, ClearDone, vars, Idle, Stored, Got
    <2> QED BY <2>1, <2>2 DEF NoOlderAnswer
<1>3. ASSUME NEW p \in Procs, LoadReads(p) PROVE DirInv' /\ NoOlderAnswer
    BY <1>3, LoadReadsStep
<1>4. ASSUME NEW p \in Procs, NEW k \in Keys, GetListed(p, k) PROVE DirInv' /\ NoOlderAnswer
    BY <1>4, GetListedStep
<1>5. ASSUME NEW p \in Procs, NEW k \in Keys,
             (\E doc \in Fresh : SetStart(p, k, doc))
               \/ LoadStat(p, k) \/ ClearOwn(p, k) \/ ClearFile(p, k)
      PROVE  DirInv' /\ NoOlderAnswer
    <2>1. DirInv'
        BY <1>5, SetStartStep, LoadStatStep, ClearUnlinksStep
    <2>2. ret' = ret
        BY <1>5 DEF SetStart, LoadStat, ClearOwn, ClearFile, vars
    <2> QED BY <2>1, <2>2 DEF NoOlderAnswer
<1>6. CASE UNCHANGED dirVars
    <2>1. UNCHANGED <<now, clears, up, entries, files, seen, since, spared, ret, step, arg, todo, late>>
        BY <1>6 DEF dirVars, vars, callVars
    <2>2. DirTypeOK' /\ UniqueKeys' /\ DownInv' /\ SinceInv' /\ ClearLeavesOnlyLate'
        BY <2>1 DEF DirInv, DirTypeOK, TypeOK, UniqueKeys, DownInv, SinceInv,
                    ClearLeavesOnlyLate, Hit
    <2>3. AloneInv' /\ EraInv' /\ PastInv' /\ NewestInv'
        BY <2>1 DEF DirInv, AloneInv, EraInv, PastInv, NewestInv, Held, Elems
    <2>4. \A p \in Procs : CallAt(p)' /\ SweptAt(p)' /\ RecentAt(p)'
        BY <2>1 DEF DirInv, CallAt, SweptAt, RecentAt, Held, Has, Matching, Elems
    <2> QED BY <1>6, <2>2, <2>3, <2>4 DEF DirInv
<1> QED BY <1>1, <1>2, <1>3, <1>4, <1>5, <1>6 DEF DirNext

\* Whatever file calls of whatever processes interleave, and whatever ends
\* in the middle, the documents keep to DirInv.
THEOREM DirInvariance == DirSpec => []DirInv
BY InitDirInv, NextDirInv, PTL DEF DirSpec

\* The calls under way have the arguments they need.
THEOREM DirTypeCorrect == DirSpec => []DirTypeOK
<1>1. DirInv => DirTypeOK
    BY DEF DirInv
<1> QED BY <1>1, DirInvariance, PTL

\* No list gets two entries for a key, however the calls of the processes
\* overlap: a load adds one only after it found none, in its own list.
THEOREM DirNoDuplicates == DirSpec => []UniqueKeys
<1>1. DirInv => UniqueKeys
    BY DEF DirInv
<1> QED BY <1>1, DirInvariance, PTL

\* For every number of processes and calls under way: what a clear leaves
\* behind was being set while it, or another call that writes, ran, or is in
\* the directory because the clear could not open it.
THEOREM ClearsAreFinalButForOverlaps == DirSpec => []ClearLeavesOnlyLate
<1>1. DirInv => ClearLeavesOnlyLate
    BY DEF DirInv
<1> QED BY <1>1, DirInvariance, PTL

\* And a process goes back to an older document only if that was so.
THEOREM ReadsGoBackOnlyToOverlaps == DirSpec => GoesBackOnlyToLate
<1>1. DirInv /\ [DirNext]_dirVars => [NoOlderAnswer]_dirVars
    BY NextDirInv
<1> QED BY <1>1, DirInvariance, PTL DEF DirSpec, GoesBackOnlyToLate, NoOlderAnswer

=============================================================================
