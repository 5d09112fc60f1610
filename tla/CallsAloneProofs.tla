-------------------------- MODULE CallsAloneProofs --------------------------
(***************************************************************************)
(* The file calls of one call of the cache at a time implement the one     *)
(* step that ClientCache makes of it, for any processes, keys, contents    *)
(* and limits.                                                             *)
(*                                                                         *)
(* The argument: what the directory and the list of the calling process    *)
(* have become since its call began follows from what they were then and   *)
(* from how far the call is.                                               *)
(***************************************************************************)
EXTENDS CallsAlone, SharedCacheDirProofs, FiniteSetTheorems

-----------------------------------------------------------------------------
(* The operators of ClientCache are the same on both levels.               *)

LEMMA SameOperators ==
    /\ \A es, k : Atomic!Has(es, k) = Has(es, k)
    /\ \A es, k : Atomic!Without(es, k) = Without(es, k)
    /\ \A es, k : Atomic!Find(es, k) = Find(es, k)
    /\ \A es : Atomic!Evicted(es) = Evicted(es)
    /\ \A es : Atomic!Victims(es) = Victims(es)
    /\ \A t : Atomic!Expired(t) = Expired(t)
    /\ \A m, n : Atomic!Newest(m, n) = Newest(m, n)
    /\ Atomic!Fresh = Fresh /\ Atomic!Torn = Torn
    /\ \A fs, ks : Atomic!Deletions(fs, ks) = Deletions(fs, ks)
    /\ \A fs, k, doc : Atomic!Saves(fs, k, doc) = Saves(fs, k, doc)
<1>1. \A S : Atomic!Min(S) = Min(S)
    BY DEF Min, Atomic!Min
<1>2. \A es, k : Atomic!Matching(es, k) = Matching(es, k)
    BY DEF Matching, Atomic!Matching
<1>3. \A es, k : Atomic!Has(es, k) = Has(es, k)
    BY <1>2 DEF Has, Atomic!Has
<1>4. \A es, k : Atomic!Find(es, k) = Find(es, k)
    BY <1>1, <1>2 DEF Find, Atomic!Find
<1>5. \A es, i : Atomic!RemoveAt(es, i) = RemoveAt(es, i)
    BY DEF RemoveAt, Atomic!RemoveAt
<1>6. \A es : Atomic!Full(es) = Full(es)
    BY DEF Full, Atomic!Full
<1>7. \A es : Atomic!Oldest(es) = Oldest(es)
    BY <1>1 DEF Oldest, Atomic!Oldest
<1>8. \A es, k : Atomic!Without(es, k) = Without(es, k)
    BY <1>3, <1>4, <1>5 DEF Without, Atomic!Without
<1>9. \A es : Atomic!Evicted(es) = Evicted(es)
    BY <1>5, <1>6, <1>7 DEF Evicted, Atomic!Evicted
<1>10. \A es : Atomic!Victims(es) = Victims(es)
    BY <1>6, <1>7 DEF Victims, Atomic!Victims
<1>11. \A t : Atomic!Expired(t) = Expired(t)
    BY DEF Expired, Atomic!Expired
<1>12. Atomic!Fresh = Fresh /\ Atomic!Torn = Torn
    BY DEF Fresh, Atomic!Fresh, Torn, Atomic!Torn
<1>13. \A fs, ks : Atomic!Deletions(fs, ks) = Deletions(fs, ks)
    BY DEF Deletions, Unlinks, Atomic!Deletions, Atomic!Unlinks
<1>14. \A fs, k, doc : Atomic!Saves(fs, k, doc) = Saves(fs, k, doc)
    BY <1>12 DEF Saves, Atomic!Saves
<1>15. \A m, n : Atomic!Newest(m, n) = Newest(m, n)
    BY DEF Newest, Atomic!Newest
<1> QED BY <1>3, <1>4, <1>8, <1>9, <1>10, <1>11, <1>12, <1>13, <1>14, <1>15

-----------------------------------------------------------------------------
(* The invariant.                                                          *)

Cleaned(fs, ks) == [k \in Keys |-> IF k \in ks THEN None ELSE fs[k]]

\* The list that p had when its call began, without the key of the call.
Rest(p) == Without(before.entries[p], arg[p].key)

\* A set under way has changed the list and removed the victim's file; it
\* has emptied the file of its key when it is about to write it.
StoreUnderWay(p) ==
    LET k       == arg[p].key
        cleaned == Cleaned(before.files, Victims(Rest(p)))
    IN  /\ k \in Keys
        /\ arg[p].doc \in Fresh
        /\ entries[p] = Append(Evicted(Rest(p)), [key |-> k, json |-> arg[p].doc, created |-> now])
        /\ files = IF step[p] = "save" THEN cleaned ELSE [cleaned EXCEPT ![k] = Torn]

\* A load under way has only looked at the file.
LoadUnderWay(p) ==
    /\ arg[p].key \in Keys
    /\ entries[p] = before.entries[p]
    /\ files = before.files
    /\ ~Has(entries[p], arg[p].key)
    /\ step[p] = "read" <=> Usable(arg[p].key)

\* A clear under way has removed some files; what it has still to remove is
\* known once the list is gone.
ClearUnderWay(p) ==
    /\ clears < MaxClears
    /\ \E ks \in SUBSET Keys : files = Cleaned(before.files, ks)
    /\ step[p] = "own" =>
         /\ entries[p] = before.entries[p]
         /\ todo[p] \subseteq Listed(p)
         /\ files = Cleaned(before.files, Listed(p) \ todo[p])
    /\ step[p] = "scan" =>
         /\ entries[p] = <<>>
         /\ \A k \in Keys : files[k] # None => k \in todo[p]

UnderWay(p) ==
    /\ p \in up
    /\ arg[p].begun = now
    /\ before.entries \in [Procs -> Seq(Entry)]
    /\ before.files \in [Keys -> File \cup {None}]
    /\ step[p] \in {"save", "write"} \cup Loading \cup Clearing
    /\ step[p] \in {"save", "write"} => StoreUnderWay(p)
    /\ step[p] \in Loading => LoadUnderWay(p)
    /\ step[p] \in Clearing => ClearUnderWay(p)

\* There is one call at most, and it is where it is.
CallInv ==
    /\ Busy = {} \/ \E p \in Procs : Busy = {p}
    /\ \A p \in Busy : UnderWay(p)


-----------------------------------------------------------------------------
(* What the mapping shows.                                                 *)

LEMMA CallTypesAlone ==
    ASSUME DirTypeOK
    PROVE  /\ now \in Nat /\ clears \in Nat /\ up \in SUBSET Procs
           /\ entries \in [Procs -> Seq(Entry)]
           /\ files \in [Keys -> File \cup {None}]
           /\ step \in [Procs -> Steps]
           /\ arg \in [Procs -> [key : Keys \cup {None}, doc : Doc \cup {None}, begun : Nat]]
           /\ todo \in [Procs -> SUBSET Keys]
BY DEF DirTypeOK, TypeOK, Steps

\* No call begins while another one is under way.
LEMMA MayStartAlone ==
    ASSUME CallInv, NEW p \in Procs, MayStart(p)
    PROVE  Busy = {}
<1>1. Cardinality(Busy) < 1
    BY OneCallAssumption DEF MayStart
<1>2. ASSUME NEW q \in Procs, Busy = {q} PROVE FALSE
    BY <1>1, <1>2, FS_Singleton
<1> QED BY <1>2 DEF CallInv

LEMMA BusyAlone ==
    ASSUME CallInv, NEW p \in Procs, step[p] # "idle"
    PROVE  Busy = {p} /\ UnderWay(p)
BY DEF CallInv, Busy

\* Nobody else has a file open.
LEMMA GotoAlone ==
    ASSUME step \in [Procs -> Steps], NEW p \in Procs, Busy \subseteq {p},
           NEW next, NEW ks, NEW mark, Goto(p, next, ks, mark)
    PROVE  /\ step' = [step EXCEPT ![p] = next]
           /\ Busy' = IF next = "idle" THEN {} ELSE {p}
<1>1. \A q \in Procs \ {p} : step[q] = "idle" /\ step[q] \notin InDirectory
    BY DEF Busy, InDirectory
<1>2. step' = [q \in Procs |-> IF q = p THEN next ELSE step[q]]
    BY <1>1 DEF Goto
<1>3. step' = [step EXCEPT ![p] = next]
    BY <1>2
<1>4. Busy' = IF next = "idle" THEN {} ELSE {p}
    BY <1>1, <1>2 DEF Busy
<1> QED BY <1>3, <1>4

LEMMA ShownIdle ==
    ASSUME DirTypeOK, Busy = {}
    PROVE  AbsEntries = entries /\ AbsFiles = files
BY CallTypesAlone DEF AbsEntries, AbsFiles

LEMMA ShownBusy ==
    ASSUME DirTypeOK, NEW p \in Procs, Busy = {p}
    PROVE  AbsEntries = [entries EXCEPT ![p] = before.entries[p]] /\ AbsFiles = before.files
BY CallTypesAlone DEF AbsEntries, AbsFiles

\* A call begins: the mapping shows what is there.
LEMMA Begins ==
    ASSUME DirTypeOK, DirTypeOK', Busy = {}, NEW p \in Procs, Busy' = {p},
           before' = [entries |-> entries, files |-> files],
           \A q \in Procs \ {p} : entries'[q] = entries[q]
    PROVE  AbsEntries' = AbsEntries /\ AbsFiles' = AbsFiles
<1>1. entries \in [Procs -> Seq(Entry)] /\ entries' \in [Procs -> Seq(Entry)]
    BY DEF DirTypeOK, TypeOK
<1>2. AbsEntries = entries /\ AbsFiles = files
    BY ShownIdle
<1>3. AbsFiles' = files
    BY DEF AbsFiles
<1>4. AbsEntries' = [q \in Procs |-> IF q = p THEN entries[p] ELSE entries'[q]]
    BY DEF AbsEntries
<1>5. AbsEntries' = entries
    BY <1>1, <1>4
<1> QED BY <1>2, <1>3, <1>5

\* It goes on: the mapping still shows what was there.
LEMMA GoesOn ==
    ASSUME NEW p \in Procs, Busy = {p}, Busy' = {p}, before' = before,
           \A q \in Procs \ {p} : entries'[q] = entries[q]
    PROVE  AbsEntries' = AbsEntries /\ AbsFiles' = AbsFiles
<1>1. AbsFiles' = AbsFiles
    BY DEF AbsFiles
<1>2. AbsEntries' = AbsEntries
    BY DEF AbsEntries
<1> QED BY <1>1, <1>2

\* It returns: the mapping shows what it has done.
LEMMA ShownAfter ==
    ASSUME DirTypeOK', Busy' = {}
    PROVE  AbsEntries' = entries' /\ AbsFiles' = files'
<1>1. entries' \in [Procs -> Seq(Entry)]
    BY DEF DirTypeOK, TypeOK
<1> QED BY <1>1 DEF AbsEntries, AbsFiles

LEMMA NothingShown ==
    ASSUME AbsEntries' = AbsEntries, AbsFiles' = AbsFiles,
           UNCHANGED <<now, clears, up, seen, since, spared, ret>>
    PROVE  [Atomic!Next]_(Atomic!vars)
BY DEF Atomic!vars

\* A call under way that a step of another process leaves alone.
LEMMA CallKept ==
    ASSUME CallInv, now' = now, clears' = clears, files' = files,
           Busy # {} => before' = before, Busy' = Busy,
           \A p \in Busy :
             /\ step'[p] = step[p] /\ arg'[p] = arg[p] /\ todo'[p] = todo[p]
             /\ entries'[p] = entries[p] /\ p \in up'
    PROVE  CallInv'
<1>1. Busy' = {} \/ \E p \in Procs : Busy' = {p}
    BY DEF CallInv
<1>2. ASSUME NEW p \in Busy PROVE UnderWay(p)'
    <2>1. UnderWay(p) /\ before' = before
        BY <1>2 DEF CallInv
    <2>2. StoreUnderWay(p) => StoreUnderWay(p)'
        BY <1>2, <2>1 DEF StoreUnderWay, Fresh, Rest, Torn
    <2>3. LoadUnderWay(p) => LoadUnderWay(p)'
        BY <1>2, <2>1 DEF LoadUnderWay, Usable, Expired
    <2>4. ClearUnderWay(p) => ClearUnderWay(p)'
        BY <1>2, <2>1 DEF ClearUnderWay, Listed
    <2> QED BY <1>2, <2>1, <2>2, <2>3, <2>4 DEF UnderWay
<1> QED BY <1>1, <1>2 DEF CallInv

\* What a step of a call shows: nothing, or a step of ClientCache.
Implements == CallInv' /\ [Atomic!Next]_(Atomic!vars)

\* Without a call under way.
LEMMA IdleInv == Busy' = {} => CallInv'
BY DEF CallInv


-----------------------------------------------------------------------------
(* The clock and the processes.                                            *)

\* How the history follows the calls.
Remembers ==
    before' = IF Busy' = {} THEN None
              ELSE IF Busy = {} THEN [entries |-> entries, files |-> files]
              ELSE before

LEMMA TickAlone ==
    ASSUME DirTypeOK, DirTypeOK', CallInv, Remembers, DirTick
    PROVE  Implements
<1>1. Busy = {}
    <2>1. SUFFICES ASSUME NEW p \in Busy PROVE FALSE
        OBVIOUS
    <2>2. arg[p].begun = now /\ now < arg[p].begun + MaxCall
        BY DEF CallInv, UnderWay, DirTick
    <2> QED BY <2>2, OneCallAssumption DEF DirTypeOK, TypeOK
<1>2. Busy' = {}
    BY <1>1 DEF DirTick, callVars, Busy
<1>3. AbsEntries = entries /\ AbsFiles = files /\ AbsEntries' = entries' /\ AbsFiles' = files'
    BY <1>1, <1>2, ShownIdle, ShownAfter
<1>4. Atomic!Tick
    BY <1>3 DEF DirTick, Tick, Idle, Atomic!Tick, Atomic!Idle
<1> QED BY <1>2, <1>4, IdleInv DEF Implements, Atomic!Next

LEMMA CreateAlone ==
    ASSUME DirTypeOK, CallInv, Remembers, NEW p \in Procs, DirCreate(p)
    PROVE  Implements
<1>1. /\ UNCHANGED <<now, clears, entries, files, seen, spared, step, arg, todo>>
      /\ p \notin up /\ up' = up \cup {p}
      /\ since' = [since EXCEPT ![p] = clears] /\ ret' = Idle
    BY DEF DirCreate, Create, callVars
<1>2. Busy' = Busy
    BY <1>1 DEF Busy
<1>3. Busy # {} => before' = before
    BY <1>2 DEF Remembers
<1>4. CallInv'
    <2>1. \A q \in Busy : q \in up'
        BY <1>1 DEF CallInv, UnderWay
    <2> QED BY <1>1, <1>2, <1>3, <2>1, CallKept
<1>5. AbsEntries' = AbsEntries /\ AbsFiles' = AbsFiles
    BY <1>1, <1>2, <1>3 DEF AbsEntries, AbsFiles
<1>6. Atomic!Create(p)
    BY <1>1, <1>5 DEF Atomic!Create, Atomic!Idle, Idle
<1> QED BY <1>4, <1>6 DEF Implements, Atomic!Next

\* A process ends between two calls; another one may be in a call.
LEMMA EndsBetween ==
    ASSUME DirTypeOK, DirTypeOK', CallInv, Remembers, NEW p \in Procs, p \notin Busy, Ends(p)
    PROVE  Implements
<1>1. /\ UNCHANGED <<now, clears, files, since, spared>>
      /\ p \in up /\ up' = up \ {p} /\ ret' = Idle
      /\ entries' = [entries EXCEPT ![p] = <<>>]
      /\ seen' = [seen EXCEPT ![p] = [k \in Keys |-> 0]]
      /\ arg' = [arg EXCEPT ![p] = NoArg] /\ todo' = [todo EXCEPT ![p] = {}]
    BY DEF Ends, Gone, Return
<1>2. \A q \in Procs : step'[q] = step[q]
    BY DEF Ends, Goto, Busy
<1>3. Busy' = Busy
    BY <1>2 DEF Busy
<1>4. Busy # {} => before' = before
    BY <1>3 DEF Remembers
<1>5. CallInv'
    <2>1. \A q \in Busy : q # p /\ q \in Procs /\ q \in up'
        BY <1>1 DEF CallInv, UnderWay, Busy
    <2>2. \A q \in Busy : /\ step'[q] = step[q] /\ arg'[q] = arg[q] /\ todo'[q] = todo[q]
                          /\ entries'[q] = entries[q] /\ q \in up'
        BY <1>1, <1>2, <2>1, CallTypesAlone
    <2> QED BY <1>1, <1>3, <1>4, <2>2, CallKept
<1>6. AbsFiles' = AbsFiles
    BY <1>1, <1>3, <1>4 DEF AbsFiles
<1>7. AbsEntries' = [AbsEntries EXCEPT ![p] = <<>>]
    <2>1. \A q \in Procs : entries'[q] = IF q = p THEN <<>> ELSE entries[q]
        BY <1>1, CallTypesAlone
    <2> QED BY <1>3, <1>4, <2>1 DEF AbsEntries
<1>8. Atomic!Destroy(p)
    BY <1>1, <1>6, <1>7 DEF Atomic!Destroy, Atomic!Gone, Atomic!Idle, Idle
<1> QED BY <1>5, <1>8 DEF Implements, Atomic!Next

\* A process is killed in the middle of its call.
LEMMA EndsInCall ==
    ASSUME DirTypeOK, DirTypeOK', CallInv, Remembers, NEW p \in Procs, p \in Busy, Ends(p)
    PROVE  Implements
<1>1. Busy = {p} /\ UnderWay(p)
    BY BusyAlone DEF Busy
<1>2. Busy' = {}
    BY <1>1, CallTypesAlone, GotoAlone DEF Ends
<1>3. /\ AbsEntries = [entries EXCEPT ![p] = before.entries[p]] /\ AbsFiles = before.files
      /\ AbsEntries' = entries' /\ AbsFiles' = files'
    BY <1>1, <1>2, ShownBusy, ShownAfter
<1>4. /\ UNCHANGED <<now, clears, files, since, spared>>
      /\ p \in up /\ up' = up \ {p} /\ ret' = Idle
      /\ entries' = [entries EXCEPT ![p] = <<>>]
      /\ seen' = [seen EXCEPT ![p] = [k \in Keys |-> 0]]
    BY DEF Ends, Gone
<1>5. AbsEntries' = [AbsEntries EXCEPT ![p] = <<>>] /\ AbsEntries[p] = before.entries[p]
    BY <1>3, <1>4, CallTypesAlone
<1>6. Atomic!Gone(p)
    BY <1>4, <1>5 DEF Atomic!Gone, Atomic!Idle, Idle
<1>7. CASE step[p] \in {"save", "write"}
    <2> DEFINE k  == arg[p].key
               fs == Cleaned(before.files, Victims(Rest(p)))
    <2>1. k \in Keys /\ files = IF step[p] = "save" THEN fs ELSE [fs EXCEPT ![k] = Torn]
        BY <1>1, <1>7 DEF UnderWay, StoreUnderWay
    <2>2. fs \in Deletions(before.files, Victims(Rest(p)))
        BY DEF Deletions, Unlinks, Cleaned
    <2> HIDE DEF fs
    <2>3. AbsFiles' \in {fs} \cup (IF "torn" \in Faults THEN {[fs EXCEPT ![k] = Torn]} ELSE {})
        BY <1>3, <1>4, <2>1, KilledAssumption
    <2>4. Victims(Rest(p)) = Atomic!Victims(Atomic!Without(AbsEntries[p], k))
        BY <1>5, SameOperators DEF Rest
    <2>5. fs \in Atomic!Deletions(AbsFiles, Victims(Rest(p))) /\ Atomic!Torn = Torn
        BY <1>3, <2>2, SameOperators
    <2>6. Atomic!KilledInSet(p, k)
        BY <1>4, <1>6, <2>3, <2>4, <2>5 DEF Atomic!KilledInSet
    <2>7. Atomic!Next
        BY <2>1, <2>6 DEF Atomic!Next
    <2> QED BY <1>2, <2>7, IdleInv DEF Implements
<1>8. CASE step[p] \in Loading
    <2>1. files = before.files
        BY <1>1, <1>8 DEF UnderWay, LoadUnderWay
    <2>2. Atomic!Destroy(p)
        BY <1>3, <1>4, <1>6, <2>1 DEF Atomic!Destroy
    <2> QED BY <1>2, <2>2, IdleInv DEF Implements, Atomic!Next
<1>9. CASE step[p] \in Clearing
    <2>1. PICK ks \in SUBSET Keys : files = Cleaned(before.files, ks)
        BY <1>1, <1>9 DEF UnderWay, ClearUnderWay
    <2>2. AbsFiles' = [k \in Keys |-> IF k \in ks THEN None ELSE AbsFiles[k]]
        BY <1>3, <1>4, <2>1 DEF Cleaned
    <2>3. Atomic!KilledInClear(p)
        BY <1>4, <1>6, <2>2 DEF Atomic!KilledInClear
    <2> QED BY <1>2, <2>3, IdleInv DEF Implements, Atomic!Next
<1> QED BY <1>1, <1>7, <1>8, <1>9 DEF UnderWay


-----------------------------------------------------------------------------
(* client_cache_set.                                                       *)

LEMMA SetStartAlone ==
    ASSUME DirTypeOK, DirTypeOK', CallInv, Remembers,
           NEW p \in Procs, NEW k \in Keys, NEW doc \in Fresh, SetStart(p, k, doc)
    PROVE  Implements
<1> DEFINE rest == Without(entries[p], k)
<1>1. /\ MayStart(p)
      /\ entries' = [entries EXCEPT ![p] =
             Append(Evicted(rest), [key |-> k, json |-> doc, created |-> now])]
      /\ Unlink(p, "save", Victims(rest))
      /\ Start(p, k, doc)
      /\ UNCHANGED <<now, clears, up, seen, since, spared, ret, todo>>
    BY DEF SetStart
<1> HIDE DEF rest
<1>2. Busy = {} /\ p \in up
    BY <1>1, MayStartAlone DEF MayStart
<1>3. step' = [step EXCEPT ![p] = "save"] /\ Busy' = {p}
    BY <1>1, <1>2, CallTypesAlone, GotoAlone DEF Unlink
<1>4. before' = [entries |-> entries, files |-> files]
    BY <1>2, <1>3 DEF Remembers
<1>5. /\ \A q \in Procs \ {p} : entries'[q] = entries[q]
      /\ entries'[p] = Append(Evicted(rest), [key |-> k, json |-> doc, created |-> now])
    BY <1>1, CallTypesAlone
<1>6. AbsEntries' = AbsEntries /\ AbsFiles' = AbsFiles
    BY <1>2, <1>3, <1>4, <1>5, Begins
<1>7. arg'[p] = [key |-> k, doc |-> doc, begun |-> now]
    BY <1>1, CallTypesAlone DEF Start
<1>8. step'[p] = "save"
    BY <1>3, CallTypesAlone
<1>9. StoreUnderWay(p)'
    <2>1. Rest(p)' = rest
        BY <1>4, <1>7 DEF Rest, rest
    <2>2. files' = Cleaned(files, Victims(rest))
        BY <1>1 DEF Unlink, Cleaned
    <2>3. Fresh' = Fresh
        BY <1>1 DEF Fresh
    <2> QED BY <1>1, <1>4, <1>5, <1>7, <1>8, <2>1, <2>2, <2>3 DEF StoreUnderWay
<1>10. UnderWay(p)'
    BY <1>1, <1>2, <1>4, <1>7, <1>8, <1>9, CallTypesAlone DEF UnderWay, Loading, Clearing
<1>11. CallInv'
    BY <1>3, <1>10 DEF CallInv
<1> QED BY <1>1, <1>6, <1>11, NothingShown DEF Implements

LEMMA SetOpensAlone ==
    ASSUME DirTypeOK, DirTypeOK', CallInv, Remembers, NEW p \in Procs, SetOpens(p)
    PROVE  Implements
<1>1. /\ step[p] = "save" /\ Truncate(p, "write", arg[p].key)
      /\ UNCHANGED <<now, clears, up, entries, seen, since, spared, ret, arg, todo>>
    BY DEF SetOpens
<1>2. Busy = {p} /\ UnderWay(p)
    BY <1>1, BusyAlone
<1>3. step' = [step EXCEPT ![p] = "write"] /\ Busy' = {p}
    <2>1. Goto(p, "write", {arg[p].key}, "write")
        BY <1>1 DEF Truncate
    <2>2. step \in [Procs -> Steps] /\ Busy \subseteq {p}
        BY <1>2, CallTypesAlone
    <2> QED BY <2>1, <2>2, GotoAlone
<1>4. before' = before
    BY <1>2, <1>3 DEF Remembers
<1>5. AbsEntries' = AbsEntries /\ AbsFiles' = AbsFiles
    BY <1>1, <1>2, <1>3, <1>4, GoesOn
<1>6. step'[p] = "write"
    BY <1>3, CallTypesAlone
<1>7. StoreUnderWay(p)'
    <2>1. StoreUnderWay(p)
        BY <1>1, <1>2 DEF UnderWay
    <2>2. Rest(p)' = Rest(p) /\ Fresh' = Fresh /\ Torn' = Torn
        BY <1>1, <1>4 DEF Rest, Fresh, Torn
    <2>3. files' = [files EXCEPT ![arg[p].key] = Torn]
        BY <1>1 DEF Truncate
    <2> QED BY <1>1, <1>4, <1>6, <2>1, <2>2, <2>3 DEF StoreUnderWay
<1>8. UnderWay(p)'
    BY <1>1, <1>2, <1>4, <1>6, <1>7 DEF UnderWay, Loading, Clearing
<1>9. CallInv'
    BY <1>3, <1>8 DEF CallInv
<1> QED BY <1>1, <1>5, <1>9, NothingShown DEF Implements

LEMMA SetReturnsAlone ==
    ASSUME DirTypeOK, DirTypeOK', CallInv, Remembers, NEW p \in Procs, SetReturns(p)
    PROVE  Implements
<1> DEFINE k   == arg[p].key
           doc == arg[p].doc
           fs  == Cleaned(before.files, Victims(Rest(p)))
<1>1. /\ \/ Write(p, "idle", k)
         \/ step[p] = "save" /\ "save" \in Faults /\ Goto(p, "idle", {}, "lost") /\ files' = files
      /\ seen' = [seen EXCEPT ![p][k] = doc.at] /\ ret' = Stored(p, k, TRUE)
      /\ UNCHANGED <<now, clears, up, entries, since, spared>>
    BY DEF SetReturns
<1>2. step[p] # "idle"
    BY <1>1 DEF Write, InDirectory
<1>3. Busy = {p} /\ UnderWay(p)
    BY <1>2, BusyAlone
<1>4. step[p] \in {"save", "write"} /\ StoreUnderWay(p)
    BY <1>1, <1>3 DEF Write, InDirectory, UnderWay, Loading, Clearing
<1>5. /\ k \in Keys /\ doc \in Fresh
      /\ entries[p] = Append(Evicted(Rest(p)), [key |-> k, json |-> doc, created |-> now])
      /\ files = IF step[p] = "save" THEN fs ELSE [fs EXCEPT ![k] = Torn]
    BY <1>4 DEF StoreUnderWay
<1>6. fs \in Deletions(before.files, Victims(Rest(p))) /\ fs \in [Keys -> File \cup {None}]
    BY <1>3 DEF Deletions, Unlinks, Cleaned, UnderWay
<1>7. Busy' = {}
    BY <1>1, <1>3, CallTypesAlone, GotoAlone DEF Write
<1>8. /\ AbsEntries = [entries EXCEPT ![p] = before.entries[p]] /\ AbsFiles = before.files
      /\ AbsEntries' = entries' /\ AbsFiles' = files'
    BY <1>3, <1>7, ShownBusy, ShownAfter
<1> HIDE DEF fs
<1>9. files' \in Saves(fs, k, doc)
    <2>1. CASE step[p] = "save"
        BY <1>1, <1>5, <2>1 DEF Write, InDirectory, Saves
    <2>2. CASE step[p] = "write"
        <3>1. PICK json \in Written(p) : files' = [files EXCEPT ![k] = [json |-> json, mtime |-> now]]
            BY <1>1, <2>2 DEF Write, InDirectory
        <3>2. files' = [fs EXCEPT ![k] = [json |-> json, mtime |-> now]]
            BY <1>5, <1>6, <2>2, <3>1
        <3>3. json = doc \/ json = None
            BY <3>1 DEF Written
        <3> QED BY <3>2, <3>3, KilledAssumption DEF Saves, Torn
    <2> QED BY <1>4, <2>1, <2>2
<1>10. AbsEntries[p] = before.entries[p] /\
       AbsEntries' = [AbsEntries EXCEPT ![p] =
            Append(Evicted(Rest(p)), [key |-> k, json |-> doc, created |-> now])]
    BY <1>1, <1>5, <1>8, CallTypesAlone
<1>11. /\ Atomic!Without(AbsEntries[p], k) = Rest(p)
       /\ Atomic!Evicted(Rest(p)) = Evicted(Rest(p)) /\ Atomic!Victims(Rest(p)) = Victims(Rest(p))
       /\ fs \in Atomic!Deletions(AbsFiles, Victims(Rest(p)))
       /\ files' \in Atomic!Saves(fs, k, doc)
       /\ Atomic!Fresh = Fresh
    BY <1>6, <1>8, <1>9, <1>10, SameOperators DEF Rest
<1>12. p \in up
    BY <1>3 DEF UnderWay
<1>13. Atomic!Stored(p, k, TRUE) = Stored(p, k, TRUE)
    BY DEF Stored, Atomic!Stored
<1>14. Atomic!Set(p, k, doc)
    BY <1>1, <1>8, <1>10, <1>11, <1>12, <1>13 DEF Atomic!Set
<1>15. Atomic!Next
    BY <1>5, <1>11, <1>14 DEF Atomic!Next
<1> QED BY <1>7, <1>15, IdleInv DEF Implements


-----------------------------------------------------------------------------
(* client_cache_get.                                                       *)

\* The answers are made alike on both levels.
LEMMA SameAnswers ==
    ASSUME NEW p \in Procs, NEW k \in Keys
    PROVE  /\ Miss(p, k) => Atomic!Miss(p, k)
           /\ \A json : Serve(p, k, json) => Atomic!Serve(p, k, json)
BY SameOperators DEF Miss, Serve, Got, Atomic!Miss, Atomic!Serve, Atomic!Got

LEMMA GetListedAlone ==
    ASSUME DirTypeOK, DirTypeOK', CallInv, NEW p \in Procs, NEW k \in Keys, GetListed(p, k)
    PROVE  Implements
<1>1. /\ MayStart(p)
      /\ \/ GetHit(p, k) /\ UNCHANGED step
         \/ GetFileGone(p, k) /\ UNCHANGED step
         \/ GetExpired(p, k) /\ Goto(p, "idle", {k}, "lost")
      /\ UNCHANGED <<now, clears, up, since, spared>>
    BY DEF GetListed
<1>2. Busy = {} /\ p \in up
    BY <1>1, MayStartAlone DEF MayStart
<1>3. Busy' = {}
    BY <1>1, <1>2, CallTypesAlone, GotoAlone DEF Busy
<1>4. AbsEntries = entries /\ AbsFiles = files /\ AbsEntries' = entries' /\ AbsFiles' = files'
    BY <1>2, <1>3, ShownIdle, ShownAfter
<1>5. CASE GetHit(p, k)
    <2>1. Atomic!GetHit(p, k)
        BY <1>4, <1>5, SameOperators, SameAnswers DEF GetHit, Atomic!GetHit
    <2>2. Atomic!Get(p, k)
        BY <1>1, <1>2, <2>1 DEF Atomic!Get
    <2> QED BY <1>3, <2>2, IdleInv DEF Implements, Atomic!Next
<1>6. CASE GetFileGone(p, k)
    <2>1. Atomic!GetFileGone(p, k)
        BY <1>4, <1>6, SameOperators, SameAnswers DEF GetFileGone, Atomic!GetFileGone
    <2>2. Atomic!Get(p, k)
        BY <1>1, <1>2, <2>1 DEF Atomic!Get
    <2> QED BY <1>3, <2>2, IdleInv DEF Implements, Atomic!Next
<1>7. CASE GetExpired(p, k)
    <2>1. Atomic!GetExpired(p, k)
        BY <1>4, <1>7, SameOperators, SameAnswers DEF GetExpired, Atomic!GetExpired
    <2>2. Atomic!Get(p, k)
        BY <1>1, <1>2, <2>1 DEF Atomic!Get
    <2> QED BY <1>3, <2>2, IdleInv DEF Implements, Atomic!Next
<1> QED BY <1>1, <1>5, <1>6, <1>7

LEMMA LoadStatAlone ==
    ASSUME DirTypeOK, DirTypeOK', CallInv, Remembers,
           NEW p \in Procs, NEW k \in Keys, LoadStat(p, k)
    PROVE  Implements
<1> DEFINE next == IF Usable(k) THEN "read" ELSE "unlink"
<1>1. /\ MayStart(p) /\ ~Has(entries[p], k)
      /\ Goto(p, next, {}, "lost")
      /\ Start(p, k, None)
      /\ UNCHANGED <<now, clears, up, entries, files, seen, since, spared, ret>>
    BY DEF LoadStat, vars
<1>2. next \in Loading /\ next # "idle" /\ (next = "read" <=> Usable(k))
    BY DEF Loading
<1> HIDE DEF next
<1>3. Busy = {} /\ p \in up
    BY <1>1, MayStartAlone DEF MayStart
<1>4. step' = [step EXCEPT ![p] = next] /\ Busy' = {p}
    BY <1>1, <1>2, <1>3, CallTypesAlone, GotoAlone
<1>5. before' = [entries |-> entries, files |-> files]
    BY <1>3, <1>4 DEF Remembers
<1>6. AbsEntries' = AbsEntries /\ AbsFiles' = AbsFiles
    BY <1>1, <1>3, <1>4, <1>5, Begins
<1>7. arg'[p] = [key |-> k, doc |-> None, begun |-> now] /\ step'[p] = next
    BY <1>1, <1>4, CallTypesAlone DEF Start
<1>8. LoadUnderWay(p)'
    BY <1>1, <1>2, <1>5, <1>7 DEF LoadUnderWay, Usable, Expired
<1>9. UnderWay(p)'
    BY <1>1, <1>2, <1>3, <1>5, <1>7, <1>8, CallTypesAlone DEF UnderWay, Loading, Clearing
<1>10. CallInv'
    BY <1>4, <1>9 DEF CallInv
<1> QED BY <1>1, <1>6, <1>10, NothingShown DEF Implements

\* A load is about to return.
LEMMA LoadReturns ==
    ASSUME DirTypeOK, DirTypeOK', CallInv, NEW p \in Procs, step[p] \in Loading,
           NEW ks, Goto(p, "idle", ks, "lost")
    PROVE  /\ p \in up /\ LoadUnderWay(p) /\ Busy' = {}
           /\ AbsEntries = entries /\ AbsFiles = files
           /\ AbsEntries' = entries' /\ AbsFiles' = files'
<1>1. step[p] # "idle"
    BY DEF Loading
<1>2. Busy = {p} /\ UnderWay(p)
    BY <1>1, BusyAlone
<1>3. Busy' = {}
    BY <1>2, CallTypesAlone, GotoAlone
<1>4. LoadUnderWay(p) /\ p \in up
    BY <1>2 DEF UnderWay
<1>5. AbsEntries = [entries EXCEPT ![p] = before.entries[p]] /\ AbsFiles = before.files
    BY <1>2, ShownBusy
<1>6. AbsEntries = entries /\ AbsFiles = files
    BY <1>4, <1>5, CallTypesAlone DEF LoadUnderWay
<1> QED BY <1>3, <1>4, <1>6, ShownAfter

LEMMA LoadUnlinksAlone ==
    ASSUME DirTypeOK, DirTypeOK', CallInv, NEW p \in Procs, LoadUnlinks(p)
    PROVE  Implements
<1> DEFINE k == arg[p].key
<1>1. /\ step[p] = "unlink" /\ Unlink(p, "idle", {k}) /\ Miss(p, k)
      /\ UNCHANGED <<now, clears, up, entries, since, spared>>
    BY DEF LoadUnlinks
<1>2. step[p] \in Loading /\ Goto(p, "idle", {k}, "lost")
    BY <1>1 DEF Loading, Unlink
<1>3. /\ p \in up /\ LoadUnderWay(p) /\ Busy' = {}
      /\ AbsEntries = entries /\ AbsFiles = files
      /\ AbsEntries' = entries' /\ AbsFiles' = files'
    BY <1>2, LoadReturns
<1>4. k \in Keys /\ ~Has(entries[p], k) /\ ~Usable(k)
    BY <1>1, <1>3 DEF LoadUnderWay
<1>5. files' = [j \in Keys |-> IF j \in {k} THEN None ELSE files[j]]
    BY <1>1 DEF Unlink
<1>6. files' \in Deletions(files, {k}) /\ (files[k] = None => files' = files)
    BY <1>4, <1>5, CallTypesAlone DEF Deletions, Unlinks
<1>7. Atomic!GetMiss(p, k)
    BY <1>1, <1>3, <1>4, <1>6, SameOperators, SameAnswers DEF Usable, Atomic!GetMiss
<1>8. Atomic!Get(p, k)
    BY <1>1, <1>3, <1>7 DEF Atomic!Get
<1> QED BY <1>3, <1>4, <1>8, IdleInv DEF Implements, Atomic!Next

LEMMA LoadReadsAlone ==
    ASSUME DirTypeOK, DirTypeOK', CallInv, NEW p \in Procs, LoadReads(p)
    PROVE  Implements
<1> DEFINE k == arg[p].key
<1>1. /\ step[p] = "read" /\ Goto(p, "idle", {}, "lost")
      /\ IF files[k] # None /\ files[k].json # None
           THEN /\ entries' = [entries EXCEPT ![p] =
                      Append(@, [key |-> k, json |-> files[k].json, created |-> now])]
                /\ Serve(p, k, files[k].json)
           ELSE Miss(p, k) /\ UNCHANGED entries
      /\ UNCHANGED <<now, clears, up, files, since, spared>>
    BY DEF LoadReads
<1>2. step[p] \in Loading
    BY <1>1 DEF Loading
<1>3. /\ p \in up /\ LoadUnderWay(p) /\ Busy' = {}
      /\ AbsEntries = entries /\ AbsFiles = files
      /\ AbsEntries' = entries' /\ AbsFiles' = files'
    BY <1>1, <1>2, LoadReturns
<1>4. k \in Keys /\ ~Has(entries[p], k) /\ files[k] # None /\ ~Expired(files[k].mtime)
    BY <1>1, <1>3 DEF LoadUnderWay, Usable
<1>5. CASE files[k].json # None
    <2>1. /\ entries' = [entries EXCEPT ![p] =
                Append(entries[p], [key |-> k, json |-> files[k].json, created |-> now])]
          /\ Serve(p, k, files[k].json)
        BY <1>1, <1>4, <1>5
    <2>2. Atomic!GetFromDisk(p, k)
        BY <1>1, <1>3, <1>4, <1>5, <2>1, SameOperators, SameAnswers DEF Atomic!GetFromDisk
    <2>3. Atomic!Get(p, k)
        BY <1>1, <1>3, <2>2 DEF Atomic!Get
    <2> QED BY <1>3, <1>4, <2>3, IdleInv DEF Implements, Atomic!Next
<1>6. CASE files[k].json = None
    <2>1. Atomic!GetMiss(p, k)
        BY <1>1, <1>3, <1>4, <1>6, SameOperators, SameAnswers DEF Atomic!GetMiss
    <2>2. Atomic!Get(p, k)
        BY <1>1, <1>3, <2>1 DEF Atomic!Get
    <2> QED BY <1>3, <1>4, <2>2, IdleInv DEF Implements, Atomic!Next
<1> QED BY <1>5, <1>6


-----------------------------------------------------------------------------
(* client_cache_clear.                                                     *)

LEMMA CleanedMore ==
    ASSUME NEW fs \in [Keys -> File \cup {None}], NEW ks \in SUBSET Keys, NEW more \in SUBSET Keys
    PROVE  /\ \E all \in SUBSET Keys : Cleaned(Cleaned(fs, ks), more) = Cleaned(fs, all)
           /\ fs = Cleaned(fs, {})
<1>1. Cleaned(Cleaned(fs, ks), more) = Cleaned(fs, ks \cup more)
    BY DEF Cleaned
<1> QED BY <1>1 DEF Cleaned

LEMMA ClearStartAlone ==
    ASSUME DirTypeOK, DirTypeOK', CallInv, Remembers, NEW p \in Procs, ClearStart(p)
    PROVE  Implements
<1>1. /\ MayStart(p)
      /\ clears + Cardinality({q \in Procs : step[q] \in Clearing}) < MaxClears
      /\ Goto(p, "own", {}, "lost")
      /\ Start(p, None, None)
      /\ UNCHANGED <<now, clears, up, entries, files, seen, since, spared, ret>>
    BY DEF ClearStart, vars
<1>2. Busy = {} /\ p \in up
    BY <1>1, MayStartAlone DEF MayStart
<1>3. step' = [step EXCEPT ![p] = "own"] /\ Busy' = {p}
    BY <1>1, <1>2, CallTypesAlone, GotoAlone
<1>4. before' = [entries |-> entries, files |-> files]
    BY <1>2, <1>3 DEF Remembers
<1>5. AbsEntries' = AbsEntries /\ AbsFiles' = AbsFiles
    BY <1>1, <1>2, <1>3, <1>4, Begins
<1>6. arg'[p] = [key |-> None, doc |-> None, begun |-> now] /\ step'[p] = "own"
    BY <1>1, <1>3, CallTypesAlone DEF Start
<1>7. clears < MaxClears
    <2>1. {q \in Procs : step[q] \in Clearing} = {}
        BY <1>2 DEF Busy, Clearing
    <2>2. Cardinality({}) = 0
        BY FS_EmptySet
    <2>3. Cardinality({q \in Procs : step[q] \in Clearing}) = 0
        BY <2>1, <2>2, Zenon
    <2>4. clears + 0 < MaxClears
        BY <1>1, <2>3, Zenon
    <2> QED BY <2>4, CallTypesAlone
<1>8. ClearUnderWay(p)'
    <2>1. files' = Cleaned(files, {})
        BY <1>1, CallTypesAlone, CleanedMore
    <2>2. Listed(p)' = Listed(p) /\ todo'[p] = Listed(p) /\ Listed(p) \ todo'[p] = {}
        BY <1>1, CallTypesAlone DEF ClearStart, Listed
    <2> QED BY <1>1, <1>4, <1>6, <1>7, <2>1, <2>2 DEF ClearUnderWay
<1>9. UnderWay(p)'
    BY <1>1, <1>2, <1>4, <1>6, <1>8, CallTypesAlone DEF UnderWay, Loading, Clearing
<1>10. CallInv'
    BY <1>3, <1>9 DEF CallInv
<1> QED BY <1>1, <1>5, <1>10, NothingShown DEF Implements

\* Every file call of a clear but the last step leaves it under way.
LEMMA ClearGoesOn ==
    ASSUME DirTypeOK, DirTypeOK', CallInv, Remembers, NEW p \in Procs, step[p] \in Clearing,
           NEW next \in Clearing, NEW ks, Goto(p, next, ks, "lost"),
           UNCHANGED <<now, clears, up, seen, since, spared, ret, arg>>,
           \A q \in Procs \ {p} : entries'[q] = entries[q],
           \E js \in SUBSET Keys : files' = Cleaned(files, js),
           next = "own" => /\ step[p] = "own" /\ entries'[p] = entries[p]
                           /\ todo'[p] \subseteq Listed(p)
                           /\ files' = Cleaned(before.files, Listed(p) \ todo'[p]),
           next = "scan" => /\ entries'[p] = <<>>
                            /\ \A k \in Keys : files'[k] # None => k \in todo'[p]
    PROVE  Implements
<1>1. Busy = {p} /\ UnderWay(p)
    BY BusyAlone DEF Clearing
<1>2. step' = [step EXCEPT ![p] = next] /\ Busy' = {p}
    BY <1>1, CallTypesAlone, GotoAlone DEF Clearing
<1>3. before' = before
    BY <1>1, <1>2 DEF Remembers
<1>4. AbsEntries' = AbsEntries /\ AbsFiles' = AbsFiles
    BY <1>1, <1>2, <1>3, GoesOn
<1>5. step'[p] = next
    BY <1>2, CallTypesAlone
<1>6. ClearUnderWay(p) /\ before.files \in [Keys -> File \cup {None}]
    BY <1>1 DEF UnderWay
<1>7. \E ks1 \in SUBSET Keys : files' = Cleaned(before.files, ks1)
    BY <1>6, CleanedMore DEF ClearUnderWay
<1>8. ClearUnderWay(p)'
    <2>1. entries'[p] = entries[p] => Listed(p)' = Listed(p)
        BY DEF Listed
    <2> QED BY <1>3, <1>5, <1>6, <1>7, <2>1 DEF ClearUnderWay
<1>9. UnderWay(p)'
    BY <1>1, <1>3, <1>5, <1>8 DEF UnderWay, Loading, Clearing
<1>10. CallInv'
    BY <1>2, <1>9 DEF CallInv
<1> QED BY <1>4, <1>10, NothingShown DEF Implements

LEMMA ClearUnlinksAlone ==
    ASSUME DirTypeOK, DirTypeOK', CallInv, Remembers,
           NEW p \in Procs, NEW k \in Keys, ClearOwn(p, k) \/ ClearFile(p, k)
    PROVE  Implements
<1>1. /\ step[p] \in Clearing /\ Unlink(p, step[p], {k})
      /\ todo' = [todo EXCEPT ![p] = @ \ {k}]
      /\ UNCHANGED <<now, clears, up, entries, seen, since, spared, ret, arg>>
    BY DEF ClearOwn, ClearFile, Clearing
<1>2. Goto(p, step[p], {k}, "lost") /\ files' = Cleaned(files, {k})
    BY <1>1 DEF Unlink, Cleaned
<1>3. UnderWay(p)
    BY <1>1, BusyAlone DEF Clearing
<1>4. step[p] = "scan" => /\ entries'[p] = <<>>
                          /\ \A j \in Keys : files'[j] # None => j \in todo'[p]
    <2>1. ClearUnderWay(p)
        BY <1>1, <1>3 DEF UnderWay
    <2>2. \A j \in Keys : files'[j] # None => j # k /\ files[j] # None
        BY <1>2 DEF Cleaned
    <2>3. todo'[p] = todo[p] \ {k}
        BY <1>1, CallTypesAlone
    <2> QED BY <1>1, <2>1, <2>2, <2>3 DEF ClearUnderWay
<1>5. {k} \in SUBSET Keys
    OBVIOUS
<1>6. step[p] = "own" => /\ todo'[p] \subseteq Listed(p)
                         /\ files' = Cleaned(before.files, Listed(p) \ todo'[p])
    <2>1. SUFFICES ASSUME step[p] = "own"
                   PROVE  /\ todo'[p] \subseteq Listed(p)
                          /\ files' = Cleaned(before.files, Listed(p) \ todo'[p])
        OBVIOUS
    <2>2. k \in todo[p] /\ todo[p] \subseteq Listed(p)
        BY <1>1, <1>3, <2>1 DEF ClearOwn, ClearFile, UnderWay, ClearUnderWay
    <2>3. files = Cleaned(before.files, Listed(p) \ todo[p])
        BY <1>1, <1>3, <2>1 DEF UnderWay, ClearUnderWay
    <2>4. /\ todo'[p] \subseteq Listed(p)
          /\ Listed(p) \ todo'[p] = (Listed(p) \ todo[p]) \cup {k}
        BY <1>1, <2>2, CallTypesAlone
    <2> QED BY <1>2, <2>3, <2>4 DEF Cleaned
<1> QED BY <1>1, <1>2, <1>4, <1>5, <1>6, ClearGoesOn

LEMMA ClearScansAlone ==
    ASSUME DirTypeOK, DirTypeOK', CallInv, Remembers, NEW p \in Procs, ClearScans(p)
    PROVE  Implements
<1>1. /\ step[p] = "own" /\ Goto(p, "scan", {}, "lost")
      /\ entries' = [entries EXCEPT ![p] = <<>>]
      /\ todo' = [todo EXCEPT ![p] = {k \in Keys : files[k] # None}]
      /\ UNCHANGED <<now, clears, up, files, seen, since, spared, ret, arg>>
    BY DEF ClearScans
<1>2. /\ entries'[p] = <<>> /\ todo'[p] = {k \in Keys : files[k] # None}
      /\ \A q \in Procs \ {p} : entries'[q] = entries[q]
    BY <1>1, CallTypesAlone
<1>3. files' = Cleaned(files, {}) /\ {} \in SUBSET Keys
    BY <1>1, CallTypesAlone, CleanedMore
<1>4. \A k \in Keys : files'[k] # None => k \in todo'[p]
    BY <1>1, <1>2
<1>5. step[p] \in Clearing /\ "scan" \in Clearing /\ "scan" # "own"
    BY <1>1 DEF Clearing
<1> QED BY <1>1, <1>2, <1>3, <1>4, <1>5, ClearGoesOn

LEMMA ClearReturnsAlone ==
    ASSUME DirTypeOK, DirTypeOK', CallInv, NEW p \in Procs, ClearReturns(p)
    PROVE  Implements
<1>1. /\ step[p] = "scan" /\ todo[p] = {} /\ Goto(p, "idle", {}, "lost")
      /\ clears' = clears + 1 /\ since' = [since EXCEPT ![p] = clears + 1]
      /\ ret' = [call |-> "clear", proc |-> p]
      /\ UNCHANGED <<now, up, entries, files, seen, spared>>
    BY DEF ClearReturns, ClearDone
<1>2. Busy = {p} /\ UnderWay(p)
    BY <1>1, BusyAlone
<1>3. Busy' = {}
    BY <1>1, <1>2, CallTypesAlone, GotoAlone
<1>4. /\ AbsEntries = [entries EXCEPT ![p] = before.entries[p]] /\ AbsFiles = before.files
      /\ AbsEntries' = entries' /\ AbsFiles' = files'
    BY <1>2, <1>3, ShownBusy, ShownAfter
<1>5. p \in up /\ ClearUnderWay(p)
    BY <1>1, <1>2 DEF UnderWay, Clearing
<1>6. AbsEntries' = [AbsEntries EXCEPT ![p] = <<>>]
    BY <1>1, <1>4, <1>5, CallTypesAlone DEF ClearUnderWay
<1>7. AbsFiles' = [k \in Keys |-> None]
    BY <1>1, <1>4, <1>5, CallTypesAlone DEF ClearUnderWay
<1>8. Atomic!Clear(p)
    BY <1>1, <1>5, <1>6, <1>7 DEF ClearUnderWay, Atomic!Clear, Atomic!Cleared
<1> QED BY <1>3, <1>8, IdleInv DEF Implements, Atomic!Next

\* A clear that cannot scan has removed the files of its list, and spares
\* the others.
LEMMA ClearCannotScanAlone ==
    ASSUME DirTypeOK, DirTypeOK', CallInv, NEW p \in Procs, ClearCannotScan(p)
    PROVE  Implements
<1>1. /\ "scan" \in Faults
      /\ step[p] = "own" /\ todo[p] = {} /\ Goto(p, "idle", {}, "lost")
      /\ clears' = clears + 1 /\ since' = [since EXCEPT ![p] = clears + 1]
      /\ ret' = [call |-> "clear", proc |-> p]
      /\ entries' = [entries EXCEPT ![p] = <<>>]
      /\ spared' = spared \cup Documents(files)
      /\ UNCHANGED <<now, up, files, seen>>
    BY DEF ClearCannotScan, ClearDone
<1>2. Busy = {p} /\ UnderWay(p)
    BY <1>1, BusyAlone
<1>3. Busy' = {}
    BY <1>1, <1>2, CallTypesAlone, GotoAlone
<1>4. /\ AbsEntries = [entries EXCEPT ![p] = before.entries[p]] /\ AbsFiles = before.files
      /\ AbsEntries' = entries' /\ AbsFiles' = files'
    BY <1>2, <1>3, ShownBusy, ShownAfter
<1>5. /\ p \in up /\ clears < MaxClears
      /\ entries[p] = before.entries[p] /\ files = Cleaned(before.files, Listed(p))
    BY <1>1, <1>2 DEF UnderWay, ClearUnderWay, Clearing
<1>6. AbsEntries' = [AbsEntries EXCEPT ![p] = <<>>]
    BY <1>1, <1>4, CallTypesAlone
<1>7. AbsEntries[p] = entries[p]
    BY <1>4, <1>5, CallTypesAlone
<1>8. Atomic!Listed(p) = Listed(p)
    BY <1>7, SameOperators DEF Listed, Atomic!Listed
<1>9. AbsFiles' \in Atomic!Deletions(AbsFiles, Atomic!Listed(p))
    <2>1. files \in Deletions(before.files, Listed(p))
        BY <1>5 DEF Cleaned, Deletions, Unlinks
    <2> QED BY <1>1, <1>4, <1>8, <2>1, SameOperators
<1>10. Atomic!Documents(AbsFiles') = Documents(files)
    BY <1>1, <1>4 DEF Documents, Atomic!Documents
<1>11. Atomic!Cleared(p)
    BY <1>1, <1>5, <1>6 DEF Atomic!Cleared
<1>12. Atomic!ClearFails(p)
    BY <1>1, <1>9, <1>10, <1>11 DEF Atomic!ClearFails
<1> QED BY <1>3, <1>12, IdleInv DEF Implements, Atomic!Next

-----------------------------------------------------------------------------
LEMMA StepsAlone ==
    ASSUME DirTypeOK, DirTypeOK', CallInv, [AloneNext]_aloneVars
    PROVE  Implements
<1>1. CASE UNCHANGED aloneVars
    <2>1. /\ UNCHANGED <<now, clears, up, entries, files, seen, since, spared, ret, step, arg, todo, before>>
          /\ Busy' = Busy
        BY <1>1 DEF aloneVars, dirVars, vars, callVars, Busy
    <2>2. AbsEntries' = AbsEntries /\ AbsFiles' = AbsFiles
        BY <2>1 DEF AbsEntries, AbsFiles
    <2>3. \A p \in Busy : p \in up
        BY DEF CallInv, UnderWay
    <2>4. CallInv'
        BY <2>1, <2>3, CallKept
    <2> QED BY <2>1, <2>2, <2>4, NothingShown DEF Implements
<1>2. CASE AloneNext
    <2>1. Remembers /\ DirNext
        BY <1>2 DEF AloneNext, Remembers
    <2>2. CASE DirTick
        BY <2>1, <2>2, TickAlone
    <2>3. ASSUME NEW p \in Procs, DirCreate(p) PROVE Implements
        BY <2>1, <2>3, CreateAlone
    <2>4. ASSUME NEW p \in Procs, Ends(p) PROVE Implements
        BY <2>1, <2>4, EndsBetween, EndsInCall
    <2>5. ASSUME NEW p \in Procs, NEW k \in Keys, NEW doc \in Fresh, SetStart(p, k, doc)
          PROVE  Implements
        BY <2>1, <2>5, SetStartAlone
    <2>6. ASSUME NEW p \in Procs, SetOpens(p) PROVE Implements
        BY <2>1, <2>6, SetOpensAlone
    <2>7. ASSUME NEW p \in Procs, SetReturns(p) PROVE Implements
        BY <2>1, <2>7, SetReturnsAlone
    <2>8. ASSUME NEW p \in Procs, NEW k \in Keys, GetListed(p, k) PROVE Implements
        BY <2>8, GetListedAlone
    <2>9. ASSUME NEW p \in Procs, NEW k \in Keys, LoadStat(p, k) PROVE Implements
        BY <2>1, <2>9, LoadStatAlone
    <2>10. ASSUME NEW p \in Procs, LoadUnlinks(p) PROVE Implements
        BY <2>10, LoadUnlinksAlone
    <2>11. ASSUME NEW p \in Procs, LoadReads(p) PROVE Implements
        BY <2>11, LoadReadsAlone
    <2>12. ASSUME NEW p \in Procs, ClearStart(p) PROVE Implements
        BY <2>1, <2>12, ClearStartAlone
    <2>13. ASSUME NEW p \in Procs, NEW k \in Keys, ClearOwn(p, k) \/ ClearFile(p, k) PROVE Implements
        BY <2>1, <2>13, ClearUnlinksAlone
    <2>14. ASSUME NEW p \in Procs, ClearScans(p) PROVE Implements
        BY <2>1, <2>14, ClearScansAlone
    <2>15. ASSUME NEW p \in Procs, ClearReturns(p) PROVE Implements
        BY <2>15, ClearReturnsAlone
    <2>16. ASSUME NEW p \in Procs, ClearCannotScan(p) PROVE Implements
        BY <2>16, ClearCannotScanAlone
    <2> QED BY <2>1, <2>2, <2>3, <2>4, <2>5, <2>6, <2>7, <2>8, <2>9, <2>10, <2>11, <2>12, <2>13,
               <2>14, <2>15, <2>16 DEF DirNext
<1> QED BY <1>1, <1>2

\* A call that nothing interrupts does in its file calls, whichever of them
\* fails and wherever it is killed, what the one step of ClientCache does.
\* What ClientCacheProofs proves of whole calls is therefore proved of the
\* file calls of client_cache.c, one call at a time.
THEOREM CallsAreSteps == AloneSpec => ImplementsCache
<1>1. AloneInit => Busy = {}
    BY DEF AloneInit, DirInit, Busy
<1>2. AloneInit => CallInv /\ Atomic!Init
    <2> SUFFICES ASSUME AloneInit PROVE CallInv /\ Atomic!Init
        OBVIOUS
    <2>1. AbsEntries = entries /\ AbsFiles = files
        BY <1>1 DEF AloneInit, DirInit, Init, AbsEntries, AbsFiles
    <2>2. Atomic!Init
        BY <2>1 DEF AloneInit, DirInit, Init, Idle, Atomic!Init, Atomic!Idle
    <2> QED BY <1>1, <2>2 DEF CallInv
<1>3. AloneInit => DirInit
    BY DEF AloneInit
<1>4. [AloneNext]_aloneVars => [DirNext]_dirVars
    BY DEF AloneNext, aloneVars
<1>5. DirTypeOK /\ DirTypeOK' /\ CallInv /\ [AloneNext]_aloneVars
        => CallInv' /\ [Atomic!Next]_(Atomic!vars)
    BY StepsAlone DEF Implements
<1>6. AloneSpec => []DirTypeOK
    BY <1>3, <1>4, DirTypeCorrect, PTL DEF AloneSpec, DirSpec
<1> QED BY <1>2, <1>5, <1>6, PTL DEF AloneSpec, ImplementsCache, Atomic!Spec

=============================================================================
