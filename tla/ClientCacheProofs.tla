-------------------------- MODULE ClientCacheProofs --------------------------
(***************************************************************************)
(* Proofs about ClientCache, for any processes, keys, limit and TTL.       *)
(*                                                                         *)
(* The first part is about the lists alone: what Without, Evicted and      *)
(* Append do to the set of a list's entries.  The invariants speak of that *)
(* set, so that the second part, one step per action, never reasons about  *)
(* positions.  The last part does: it is about the order of the lists.     *)
(***************************************************************************)
EXTENDS ClientCache, SequenceTheorems, WellFoundedInduction, TLAPS

Elems(es)  == {es[i] : i \in DOMAIN es}
Unique(es) == \A i, j \in DOMAIN es : es[i].key = es[j].key => i = j

\* A non-empty set of naturals has a least element, and Min is one.
LEMMA MinOfNats ==
    ASSUME NEW S \in SUBSET Nat, S # {}
    PROVE  Min(S) \in S /\ \A y \in S : Min(S) <= y
<1>1. PICK x \in S : \A y \in S : ~ (<<y, x>> \in OpToRel(<, Nat))
    BY NatLessThanWellFounded, WFMin
<1>2. \A y \in S : x <= y
    <2>1. SUFFICES ASSUME NEW y \in S, y < x PROVE FALSE
        OBVIOUS
    <2>2. <<y, x>> \in OpToRel(<, Nat)
        BY <2>1 DEF OpToRel
    <2> QED BY <1>1, <2>2
<1> QED BY <1>2 DEF Min

\* Taking out position i shifts the rest down by one.
LEMMA RemoveAtFacts ==
    ASSUME NEW S, NEW s \in Seq(S), NEW i \in 1..Len(s)
    PROVE  /\ RemoveAt(s, i) \in Seq(S)
           /\ Len(RemoveAt(s, i)) = Len(s) - 1
           /\ \A j \in 1..(Len(s) - 1) :
                RemoveAt(s, i)[j] = IF j < i THEN s[j] ELSE s[j + 1]
<1> DEFINE a == SubSeq(s, 1, i - 1)
           b == SubSeq(s, i + 1, Len(s))
<1>0. Len(s) \in Nat /\ i \in Int /\ \A j \in 1..Len(s) : s[j] \in S
    BY LenProperties
<1>1. /\ a \in Seq(S)
      /\ Len(a) = i - 1
      /\ \A j \in 1..(i - 1) : a[j] = s[j]
    <2>1. \A j \in 1..(i - 1) : s[j] \in S
        BY <1>0
    <2>2. /\ a \in Seq(S)
          /\ Len(a) = IF 1 <= i - 1 THEN i - 1 - 1 + 1 ELSE 0
          /\ \A j \in 1..(i - 1 - 1 + 1) : a[j] = s[1 + j - 1]
        <3> HIDE DEF a
        <3> QED BY <2>1, <1>0, SubSeqProperties, i - 1 \in Int, 1 \in Int DEF a
    <2> QED BY <2>2, <1>0
<1>2. /\ b \in Seq(S)
      /\ Len(b) = Len(s) - i
      /\ \A j \in 1..(Len(s) - i) : b[j] = s[i + j]
    <2>1. \A j \in (i + 1)..Len(s) : s[j] \in S
        BY <1>0
    <2>2. /\ b \in Seq(S)
          /\ Len(b) = IF i + 1 <= Len(s) THEN Len(s) - (i + 1) + 1 ELSE 0
          /\ \A j \in 1..(Len(s) - (i + 1) + 1) : b[j] = s[i + 1 + j - 1]
        BY <2>1, <1>0, SubSeqProperties, i + 1 \in Int, Len(s) \in Int
    <2> QED BY <2>2, <1>0
<1> HIDE DEF a, b
<1>3. /\ a \o b \in Seq(S)
      /\ Len(a \o b) = Len(a) + Len(b)
      /\ \A j \in 1..(Len(a) + Len(b)) :
           (a \o b)[j] = IF j <= Len(a) THEN a[j] ELSE b[j - Len(a)]
    BY <1>1, <1>2, ConcatProperties
<1>4. RemoveAt(s, i) = a \o b
    BY DEF RemoveAt, a, b
<1>5. ASSUME NEW j \in 1..(Len(s) - 1)
      PROVE  (a \o b)[j] = IF j < i THEN s[j] ELSE s[j + 1]
    <2>1. j \in 1..(Len(a) + Len(b))
        BY <1>0, <1>1, <1>2
    <2>2. CASE j < i
        BY <2>1, <2>2, <1>0, <1>1, <1>3
    <2>3. CASE ~(j < i)
        <3>1. j - (i - 1) \in 1..(Len(s) - i) /\ i + (j - (i - 1)) = j + 1
            BY <2>3, <1>0
        <3>2. (a \o b)[j] = b[j - (i - 1)]
            BY <2>1, <2>3, <1>0, <1>1, <1>3
        <3> QED BY <3>1, <3>2, <1>2, <2>3
    <2> QED BY <2>2, <2>3
<1> QED BY <1>0, <1>1, <1>2, <1>3, <1>4, <1>5

\* The entries of a list are those at its positions, and entries alone.
LEMMA ElemsFacts ==
    ASSUME NEW es \in Seq(Entry)
    PROVE  /\ Elems(es) \in SUBSET Entry
           /\ DOMAIN es = 1..Len(es)
           /\ Len(es) \in Nat
           /\ \A k : Has(es, k) <=> \E e \in Elems(es) : e.key = k
<1>1. DOMAIN es = 1..Len(es) /\ Len(es) \in Nat /\ \A i \in 1..Len(es) : es[i] \in Entry
    BY LenProperties
<1> QED BY <1>1 DEF Elems, Has, Matching

\* The loop that looks for a key stops at an entry of that key.
LEMMA FindFacts ==
    ASSUME NEW es \in Seq(Entry), NEW k, Has(es, k)
    PROVE  /\ Find(es, k) \in 1..Len(es)
           /\ es[Find(es, k)] \in Elems(es)
           /\ es[Find(es, k)].key = k
<1>1. Matching(es, k) \in SUBSET Nat /\ Matching(es, k) # {}
    BY ElemsFacts DEF Matching, Has
<1>2. Find(es, k) \in Matching(es, k)
    BY <1>1, MinOfNats DEF Find
<1> QED BY <1>2, ElemsFacts DEF Matching, Elems

\* A non-empty list has an oldest entry, and the eviction takes one.
LEMMA OldestFacts ==
    ASSUME NEW es \in Seq(Entry), Len(es) # 0
    PROVE  Oldest(es) \in 1..Len(es)
<1> DEFINE stamps == {es[i].created : i \in DOMAIN es}
           firsts == {i \in DOMAIN es : \A j \in DOMAIN es : es[i].created <= es[j].created}
<1>1. DOMAIN es = 1..Len(es) /\ Len(es) \in Nat /\ \A i \in 1..Len(es) : es[i] \in Entry
    BY LenProperties
<1>2. stamps \in SUBSET Nat /\ stamps # {}
    BY <1>1 DEF Entry
<1>3. Min(stamps) \in stamps /\ \A t \in stamps : Min(stamps) <= t
    BY <1>2, MinOfNats
<1>4. PICK i \in DOMAIN es : es[i].created = Min(stamps)
    BY <1>3
<1>5. i \in firsts
    BY <1>3, <1>4
<1>6. firsts \in SUBSET Nat /\ firsts # {}
    BY <1>1, <1>5
<1>7. Min(firsts) \in firsts
    BY <1>6, MinOfNats
<1> QED BY <1>7, <1>1 DEF Oldest

\* Taking an entry out of a list without duplicates takes out its key.
LEMMA RemoveEntry ==
    ASSUME NEW es \in Seq(Entry), Unique(es), NEW i \in 1..Len(es)
    PROVE  /\ RemoveAt(es, i) \in Seq(Entry)
           /\ Len(RemoveAt(es, i)) = Len(es) - 1
           /\ Unique(RemoveAt(es, i))
           /\ Elems(RemoveAt(es, i)) = {e \in Elems(es) : e.key # es[i].key}
<1> DEFINE r == RemoveAt(es, i)
<1>1. /\ r \in Seq(Entry)
      /\ Len(r) = Len(es) - 1
      /\ \A j \in 1..(Len(es) - 1) : r[j] = IF j < i THEN es[j] ELSE es[j + 1]
    BY RemoveAtFacts
<1>2. DOMAIN r = 1..(Len(es) - 1) /\ DOMAIN es = 1..Len(es) /\ Len(es) \in Nat
    BY <1>1, LenProperties
<1> HIDE DEF r
<1>3. Unique(r)
    <2>1. SUFFICES ASSUME NEW j \in DOMAIN r, NEW l \in DOMAIN r, r[j].key = r[l].key
                   PROVE  j = l
        BY DEF Unique
    <2> DEFINE old(n) == IF n < i THEN n ELSE n + 1
    <2>2. old(j) \in DOMAIN es /\ old(l) \in DOMAIN es
        BY <1>2
    <2>3. r[j] = es[old(j)] /\ r[l] = es[old(l)]
        BY <1>1, <1>2
    <2>4. old(j) = old(l)
        BY <2>1, <2>2, <2>3 DEF Unique
    <2> QED BY <2>4, <1>2
<1>4. Elems(r) \subseteq {e \in Elems(es) : e.key # es[i].key}
    <2>1. SUFFICES ASSUME NEW j \in DOMAIN r
                   PROVE  r[j] \in Elems(es) /\ r[j].key # es[i].key
        BY DEF Elems
    <2>2. CASE j < i
        <3>1. r[j] = es[j] /\ j \in DOMAIN es /\ j # i
            BY <2>2, <1>1, <1>2
        <3> QED BY <3>1, <1>2 DEF Elems, Unique
    <2>3. CASE ~(j < i)
        <3>1. r[j] = es[j + 1] /\ j + 1 \in DOMAIN es /\ j + 1 # i
            BY <2>3, <1>1, <1>2
        <3> QED BY <3>1, <1>2 DEF Elems, Unique
    <2> QED BY <2>2, <2>3
<1>5. {e \in Elems(es) : e.key # es[i].key} \subseteq Elems(r)
    <2>1. SUFFICES ASSUME NEW j \in DOMAIN es, es[j].key # es[i].key
                   PROVE  es[j] \in Elems(r)
        BY DEF Elems
    <2>2. CASE j < i
        <3>1. j \in DOMAIN r /\ r[j] = es[j]
            BY <2>2, <1>1, <1>2
        <3> QED BY <3>1 DEF Elems
    <2>3. CASE ~(j < i)
        <3>1. j - 1 \in DOMAIN r /\ r[j - 1] = es[j - 1 + 1] /\ j - 1 + 1 = j
            BY <2>1, <2>3, <1>1, <1>2
        <3> QED BY <3>1 DEF Elems
    <2> QED BY <2>2, <2>3
<1> QED BY <1>1, <1>3, <1>4, <1>5 DEF r

\* What the first loop of set, and the removals of get, leave.
LEMMA WithoutFacts ==
    ASSUME NEW es \in Seq(Entry), Unique(es), NEW k
    PROVE  /\ Without(es, k) \in Seq(Entry)
           /\ Unique(Without(es, k))
           /\ Elems(Without(es, k)) = {e \in Elems(es) : e.key # k}
<1>1. CASE Has(es, k)
    <2>1. Find(es, k) \in 1..Len(es) /\ es[Find(es, k)].key = k
        BY <1>1, FindFacts
    <2>2. Without(es, k) = RemoveAt(es, Find(es, k))
        BY <1>1 DEF Without
    <2> QED BY <2>1, <2>2, RemoveEntry
<1>2. CASE ~Has(es, k)
    BY <1>2, ElemsFacts DEF Without
<1> QED BY <1>1, <1>2

\* What the eviction leaves: everything but the keys whose files it deletes.
LEMMA EvictedFacts ==
    ASSUME NEW es \in Seq(Entry), Unique(es)
    PROVE  /\ Evicted(es) \in Seq(Entry)
           /\ Unique(Evicted(es))
           /\ Elems(Evicted(es)) = {e \in Elems(es) : e.key \notin Victims(es)}
<1>1. CASE Full(es)
    <2>1. Oldest(es) \in 1..Len(es)
        BY <1>1, OldestFacts, ElemsFacts, MaxEntriesAssumption DEF Full
    <2> QED BY <1>1, <2>1, RemoveEntry DEF Evicted, Victims
<1>2. CASE ~Full(es)
    BY <1>2 DEF Evicted, Victims
<1> QED BY <1>1, <1>2

\* Appending an entry whose key is not listed.
LEMMA AppendFacts ==
    ASSUME NEW es \in Seq(Entry), Unique(es), NEW e \in Entry, ~Has(es, e.key)
    PROVE  /\ Append(es, e) \in Seq(Entry)
           /\ Unique(Append(es, e))
           /\ Elems(Append(es, e)) = Elems(es) \cup {e}
<1> DEFINE a == Append(es, e)
<1>1. /\ a \in Seq(Entry)
      /\ Len(a) = Len(es) + 1
      /\ \A i \in 1..Len(es) : a[i] = es[i]
      /\ a[Len(es) + 1] = e
    BY AppendProperties
<1>2. DOMAIN a = 1..(Len(es) + 1) /\ DOMAIN es = 1..Len(es) /\ Len(es) \in Nat
    BY <1>1, LenProperties
<1> HIDE DEF a
<1>3. DOMAIN a = DOMAIN es \cup {Len(es) + 1} /\ Len(es) + 1 \notin DOMAIN es
    BY <1>2
<1>4. \A i \in DOMAIN es : es[i].key # e.key
    BY DEF Has, Matching
<1>5. Unique(a)
    BY <1>1, <1>2, <1>3, <1>4 DEF Unique
<1>6. Elems(a) = Elems(es) \cup {e}
    BY <1>1, <1>2, <1>3 DEF Elems
<1> QED BY <1>1, <1>5, <1>6 DEF a

-----------------------------------------------------------------------------
(* The parts of the inductive invariant.                                   *)

\* A file was written when its document was fetched, and since the last
\* clear, unless a clear has spared it.
FilesInv ==
    \A k \in Keys : files[k] # None =>
        /\ files[k].mtime <= now
        /\ files[k].json # None =>
             /\ files[k].json.at = files[k].mtime
             /\ files[k].json.era = clears \/ files[k].json \in spared

\* An entry was created within the TTL of its document's fetch, and holds
\* nothing its process should not see any more.
EntriesInv ==
    \A p \in Procs : \A e \in Elems(entries[p]) :
        /\ e.json.at <= e.created
        /\ e.created <= now
        /\ e.created - e.json.at <= TTL
        /\ since[p] <= e.json.era \/ e.json \in spared

SinceInv == \A p \in Procs : since[p] <= clears

\* A process that holds no cache has no list.
DownInv == \A p \in Procs : p \notin up => entries[p] = <<>>

IInv ==
    /\ TypeOK
    /\ UniqueKeys
    /\ FilesInv
    /\ EntriesInv
    /\ SinceInv
    /\ DownInv
    /\ ServedWithinTwoTTL
    /\ ClearIsFinal

\* One list changes: the others keep their entries.
LEMMA ListUpdate ==
    ASSUME TypeOK, UniqueKeys, NEW p \in Procs, NEW es \in Seq(Entry), Unique(es),
           entries' = [entries EXCEPT ![p] = es]
    PROVE  /\ entries' \in [Procs -> Seq(Entry)]
           /\ UniqueKeys'
           /\ entries'[p] = es
           /\ \A q \in Procs : q # p => entries'[q] = entries[q]
BY DEF TypeOK, UniqueKeys, Unique

\* The list that client_cache_set makes room in.
LEMMA RoomFacts ==
    ASSUME TypeOK, UniqueKeys, NEW p \in Procs, NEW k \in Keys
    PROVE  LET rest == Without(entries[p], k)
           IN  /\ Evicted(rest) \in Seq(Entry)
               /\ Unique(Evicted(rest))
               /\ ~Has(Evicted(rest), k)
               /\ Elems(Evicted(rest)) =
                    {e \in Elems(entries[p]) : e.key # k /\ e.key \notin Victims(rest)}
<1> DEFINE rest == Without(entries[p], k)
<1>1. entries[p] \in Seq(Entry) /\ Unique(entries[p])
    BY DEF TypeOK, UniqueKeys, Unique
<1>2. rest \in Seq(Entry) /\ Unique(rest) /\ Elems(rest) = {e \in Elems(entries[p]) : e.key # k}
    BY <1>1, WithoutFacts
<1> HIDE DEF rest
<1>3. /\ Evicted(rest) \in Seq(Entry)
      /\ Unique(Evicted(rest))
      /\ Elems(Evicted(rest)) = {e \in Elems(rest) : e.key \notin Victims(rest)}
    BY <1>2, EvictedFacts
<1>4. ~Has(Evicted(rest), k)
    BY <1>2, <1>3, ElemsFacts
<1> QED BY <1>2, <1>3, <1>4 DEF rest

\* The list after client_cache_set has stored a document.
LEMMA StoreFacts ==
    ASSUME TypeOK, UniqueKeys, NEW p \in Procs, NEW k \in Keys, NEW e \in Entry, e.key = k
    PROVE  LET rest == Without(entries[p], k)
               es   == Append(Evicted(rest), e)
           IN  /\ es \in Seq(Entry)
               /\ Unique(es)
               /\ Elems(es) = {e}
                    \cup {x \in Elems(entries[p]) : x.key # k /\ x.key \notin Victims(rest)}
BY RoomFacts, AppendFacts

\* The removals of client_cache_get.
LEMMA DropFacts ==
    ASSUME TypeOK, UniqueKeys, NEW p \in Procs, NEW k \in Keys
    PROVE  /\ Without(entries[p], k) \in Seq(Entry)
           /\ Unique(Without(entries[p], k))
           /\ Elems(Without(entries[p], k)) = {e \in Elems(entries[p]) : e.key # k}
<1>1. entries[p] \in Seq(Entry) /\ Unique(entries[p])
    BY DEF TypeOK, UniqueKeys, Unique
<1> QED BY <1>1, WithoutFacts

\* Deleting files leaves a file or nothing.
LEMMA DeletionFacts ==
    ASSUME NEW fs \in [Keys -> File \cup {None}], NEW ks, NEW gs \in Deletions(fs, ks)
    PROVE  /\ gs \in [Keys -> File \cup {None}]
           /\ \A k \in Keys : gs[k] # None => gs[k] = fs[k]
           /\ Faults \cap {"alloc", "unlink"} = {} => \A k \in ks \cap Keys : gs[k] = None
BY DEF Deletions, Unlinks

\* Saving a document writes the key's file now, whole or torn, or not at all.
LEMMA SaveFacts ==
    ASSUME NEW fs \in [Keys -> File \cup {None}], NEW k \in Keys, NEW doc \in Doc,
           NEW gs \in Saves(fs, k, doc), now \in Nat
    PROVE  /\ gs \in [Keys -> File \cup {None}]
           /\ \A j \in Keys : j # k => gs[j] = fs[j]
           /\ \/ gs[k] = fs[k]
              \/ gs[k] = [json |-> doc, mtime |-> now]
              \/ gs[k] = [json |-> None, mtime |-> now]
BY DEF Saves, Torn, File

\* What a call may leave of a file keeps FilesInv.
LEMMA FilesStep ==
    ASSUME FilesInv, now \in Nat, now' = now, clears' = clears, spared' = spared,
           \A k \in Keys : \/ files'[k] = None
                           \/ files'[k] = files[k]
                           \/ \E doc \in Fresh : files'[k] = [json |-> doc, mtime |-> now]
                           \/ files'[k] = [json |-> None, mtime |-> now]
    PROVE  FilesInv'
<1> SUFFICES ASSUME NEW k \in Keys, files'[k] # None
             PROVE  /\ files'[k].mtime <= now
                    /\ files'[k].json # None =>
                         /\ files'[k].json.at = files'[k].mtime
                         /\ files'[k].json.era = clears \/ files'[k].json \in spared
    BY DEF FilesInv
<1>1. CASE files'[k] = files[k]
    BY <1>1 DEF FilesInv
<1>2. CASE \E doc \in Fresh : files'[k] = [json |-> doc, mtime |-> now]
    BY <1>2 DEF Fresh
<1>3. CASE files'[k] = [json |-> None, mtime |-> now]
    BY <1>3
<1> QED BY <1>1, <1>2, <1>3

-----------------------------------------------------------------------------
(* One lemma per action.                                                   *)

\* A process ends, having removed or torn files.
LEMMA GoneStep ==
    ASSUME IInv, NEW p \in Procs, Gone(p),
           files' \in [Keys -> File \cup {None}],
           \A k \in Keys : \/ files'[k] = None
                           \/ files'[k] = files[k]
                           \/ files'[k] = [json |-> None, mtime |-> now]
    PROVE  IInv'
<1> USE DEF IInv, Gone
<1>1. <<>> \in Seq(Entry) /\ Unique(<<>>) /\ Elems(<<>>) = {}
    BY EmptySeq DEF Unique, Elems
<1>2. /\ entries' \in [Procs -> Seq(Entry)]
      /\ UniqueKeys'
      /\ entries'[p] = <<>>
      /\ \A q \in Procs : q # p => entries'[q] = entries[q]
    BY <1>1, ListUpdate
<1>3. TypeOK'
    BY <1>2 DEF TypeOK, Returns, Idle
<1>4. FilesInv'
    BY FilesStep DEF TypeOK
<1>5. EntriesInv'
    BY <1>1, <1>2 DEF EntriesInv
<1>6. SinceInv' /\ DownInv' /\ ServedWithinTwoTTL' /\ ClearIsFinal'
    BY <1>2 DEF SinceInv, DownInv, ServedWithinTwoTTL, ClearIsFinal, Hit, Idle
<1> QED BY <1>2, <1>3, <1>4, <1>5, <1>6

\* The part of client_cache_set that both of its outcomes share.
LEMMA SetStep ==
    ASSUME IInv, NEW p \in Procs, NEW k \in Keys,
           NEW doc \in Fresh, Set(p, k, doc)
    PROVE  IInv'
<1> USE DEF IInv
<1> DEFINE rest == Without(entries[p], k)
           e    == [key |-> k, json |-> doc, created |-> now]
           es   == Append(Evicted(rest), e)
<1>0. /\ now \in Nat /\ clears \in Nat
      /\ doc \in Doc /\ doc.at = now /\ doc.era = clears
      /\ e \in Entry /\ e.key = k
    BY DEF TypeOK, Doc, Entry, Fresh
<1>1. /\ es \in Seq(Entry)
      /\ Unique(es)
      /\ Elems(es) = {e} \cup {x \in Elems(entries[p]) : x.key # k /\ x.key \notin Victims(rest)}
    BY <1>0, StoreFacts
<1>2. PICK fs \in Deletions(files, Victims(rest)) : files' \in Saves(fs, k, doc)
    BY DEF Set
<1>3. /\ files' \in [Keys -> File \cup {None}]
      /\ \A j \in Keys : \/ files'[j] = None
                          \/ files'[j] = files[j]
                          \/ files'[j] = [json |-> doc, mtime |-> now]
                          \/ files'[j] = [json |-> None, mtime |-> now]
    <2>1. /\ fs \in [Keys -> File \cup {None}]
          /\ \A j \in Keys : fs[j] # None => fs[j] = files[j]
        BY DeletionFacts DEF TypeOK
    <2> QED BY <2>1, <1>0, <1>2, SaveFacts
<1>4. entries' = [entries EXCEPT ![p] = es]
    BY DEF Set
<1> HIDE DEF es
<1>5. /\ entries' \in [Procs -> Seq(Entry)]
      /\ UniqueKeys'
      /\ entries'[p] = es
      /\ \A q \in Procs : q # p => entries'[q] = entries[q]
    BY <1>1, <1>4, ListUpdate
<1>6. TypeOK'
    BY <1>0, <1>3, <1>5 DEF TypeOK, Set, Returns, Stored
<1>7. FilesInv'
    BY <1>0, <1>3, FilesStep DEF Set
<1>8. EntriesInv'
    <2> SUFFICES ASSUME NEW q \in Procs, NEW x \in Elems(entries'[q])
                 PROVE  /\ x.json.at <= x.created
                        /\ x.created <= now
                        /\ x.created - x.json.at <= TTL
                        /\ since[q] <= x.json.era \/ x.json \in spared
        BY DEF EntriesInv, Set
    <2>1. CASE x \in Elems(entries[q])
        BY <2>1 DEF EntriesInv
    <2>2. CASE x = e
        BY <2>2, <1>0, TTLAssumption, <1>5 DEF SinceInv, TypeOK
    <2>3. x \in Elems(entries[q]) \/ x = e
        BY <1>1, <1>5
    <2> QED BY <2>1, <2>2, <2>3
<1>9. SinceInv' /\ DownInv' /\ ServedWithinTwoTTL' /\ ClearIsFinal'
    BY <1>5 DEF SinceInv, DownInv, ServedWithinTwoTTL, ClearIsFinal, Hit, Stored, Set
<1> QED BY <1>5, <1>6, <1>7, <1>8, <1>9

\* A set that fails has still dropped and evicted.
LEMMA SetOutOfMemoryStep ==
    ASSUME IInv, NEW p \in Procs, NEW k \in Keys, SetOutOfMemory(p, k)
    PROVE  IInv'
<1> USE DEF IInv
<1> DEFINE rest == Without(entries[p], k)
           es   == Evicted(rest)
<1>1. es \in Seq(Entry) /\ Unique(es) /\ Elems(es) \subseteq Elems(entries[p])
    BY RoomFacts
<1>2. /\ files' \in [Keys -> File \cup {None}]
      /\ \A j \in Keys : files'[j] # None => files'[j] = files[j]
    BY DeletionFacts, ZenonT(60) DEF SetOutOfMemory, TypeOK
<1>3. entries' = [entries EXCEPT ![p] = es]
    BY DEF SetOutOfMemory
<1> HIDE DEF es
<1>4. /\ entries' \in [Procs -> Seq(Entry)]
      /\ UniqueKeys'
      /\ entries'[p] = es
      /\ \A q \in Procs : q # p => entries'[q] = entries[q]
    BY <1>1, <1>3, ListUpdate
<1>5. TypeOK'
    BY <1>2, <1>4 DEF TypeOK, SetOutOfMemory, Returns, Stored
<1>6. FilesInv'
    BY <1>2 DEF FilesInv, SetOutOfMemory
<1>7. EntriesInv'
    BY <1>1, <1>4 DEF EntriesInv, SetOutOfMemory
<1>8. SinceInv' /\ DownInv' /\ ServedWithinTwoTTL' /\ ClearIsFinal'
    BY <1>4 DEF SinceInv, DownInv, ServedWithinTwoTTL, ClearIsFinal, Hit, Stored, SetOutOfMemory
<1> QED BY <1>4, <1>5, <1>6, <1>7, <1>8

\* The outcomes of client_cache_get that return nothing.
LEMMA MissStep ==
    ASSUME IInv, NEW p \in Procs, NEW k \in Keys, Miss(p, k), p \in up,
           UNCHANGED <<now, clears, up, since, spared>>,
           entries' \in {entries, [entries EXCEPT ![p] = Without(@, k)]},
           files' \in {files} \cup Deletions(files, {k})
    PROVE  IInv'
<1> USE DEF IInv, Miss
<1>1. /\ Without(entries[p], k) \in Seq(Entry)
      /\ Unique(Without(entries[p], k))
      /\ Elems(Without(entries[p], k)) \subseteq Elems(entries[p])
    BY DropFacts
<1>2. /\ entries' \in [Procs -> Seq(Entry)]
      /\ UniqueKeys'
      /\ \A q \in Procs : Elems(entries'[q]) \subseteq Elems(entries[q])
      /\ \A q \in Procs : q # p => entries'[q] = entries[q]
    <2>1. CASE entries' = entries
        BY <2>1 DEF TypeOK, UniqueKeys
    <2>2. CASE entries' = [entries EXCEPT ![p] = Without(@, k)]
        <3>1. entries' = [entries EXCEPT ![p] = Without(entries[p], k)]
            BY <2>2
        <3> QED BY <1>1, <3>1, ListUpdate
    <2> QED BY <2>1, <2>2
<1>3. /\ files' \in [Keys -> File \cup {None}]
      /\ \A j \in Keys : files'[j] # None => files'[j] = files[j]
    BY DeletionFacts, ZenonT(60) DEF TypeOK
<1>4. TypeOK'
    BY <1>2, <1>3 DEF TypeOK, Returns, Got
<1>5. FilesInv'
    BY <1>3 DEF FilesInv
<1>6. EntriesInv'
    BY <1>2 DEF EntriesInv
<1>7. SinceInv' /\ DownInv' /\ ServedWithinTwoTTL' /\ ClearIsFinal'
    BY <1>2 DEF SinceInv, DownInv, ServedWithinTwoTTL, ClearIsFinal, Hit, Got
<1> QED BY <1>2, <1>4, <1>5, <1>6, <1>7

\* The outcomes that return a document young enough and not cleared.
LEMMA ServeStep ==
    ASSUME IInv, NEW p \in Procs, NEW k \in Keys, NEW json \in Doc, Serve(p, k, json),
           now - json.at <= 2 * TTL, since[p] <= json.era \/ json \in spared,
           UNCHANGED <<now, clears, up, since, spared, files>>,
           entries' \in [Procs -> Seq(Entry)], UniqueKeys', EntriesInv', DownInv'
    PROVE  IInv'
<1> USE DEF IInv, Serve
<1>1. json.at \in Nat
    BY DEF Doc
<1>2. seen' \in [Procs -> [Keys -> Nat]]
    <2>1. seen[p][k] \in Nat
        BY DEF TypeOK
    <2>2. Newest(seen[p][k], json.at) \in Nat
        BY <1>1, <2>1 DEF Newest
    <2> QED BY <2>2 DEF TypeOK
<1>3. TypeOK'
    BY <1>2 DEF TypeOK, Returns, Got
<1>4. FilesInv' /\ SinceInv'
    BY DEF FilesInv, SinceInv
<1>5. ServedWithinTwoTTL' /\ ClearIsFinal'
    BY DEF ServedWithinTwoTTL, ClearIsFinal, Hit, Got
<1> QED BY <1>3, <1>4, <1>5

\* The entry that get finds.
LEMMA FoundFacts ==
    ASSUME IInv, NEW p \in Procs, NEW k \in Keys, Has(entries[p], k)
    PROVE  LET e == entries[p][Find(entries[p], k)]
           IN  /\ e \in Elems(entries[p])
               /\ e \in Entry
               /\ e.key = k
BY FindFacts, ElemsFacts DEF IInv, TypeOK

\* client_cache_get from memory and from disk.
LEMMA GetStep ==
    ASSUME IInv, NEW p \in Procs, NEW k \in Keys, Get(p, k)
    PROVE  IInv'
<1> USE DEF IInv
<1>0. UNCHANGED <<now, clears, up, since, spared>> /\ p \in up /\ now \in Nat /\ TTL \in Nat
    BY TTLAssumption DEF Get, TypeOK
<1>1. CASE GetHit(p, k)
    <2> DEFINE e == entries[p][Find(entries[p], k)]
    <2>1. e \in Elems(entries[p]) /\ e \in Entry
        BY <1>1, FoundFacts DEF GetHit
    <2>2. /\ now - e.created <= TTL
          /\ e.created - e.json.at <= TTL
          /\ since[p] <= e.json.era \/ e.json \in spared
        BY <1>1, <1>0, <2>1 DEF GetHit, Expired, EntriesInv, Entry
    <2>3. e.created \in Nat /\ e.json \in Doc /\ e.json.at \in Nat
        BY <2>1 DEF Entry, Doc
    <2>4. now - e.json.at <= 2 * TTL
        BY <1>0, <2>2, <2>3
    <2>5. /\ Serve(p, k, e.json)
          /\ UNCHANGED <<entries, files>>
        BY <1>1 DEF GetHit
    <2>6. entries' \in [Procs -> Seq(Entry)] /\ UniqueKeys' /\ EntriesInv' /\ DownInv'
        BY <1>0, <2>5 DEF TypeOK, UniqueKeys, EntriesInv, DownInv
    <2> HIDE DEF e
    <2> QED BY <1>0, <2>2, <2>3, <2>4, <2>5, <2>6, ServeStep
<1>2. CASE GetFileGone(p, k)
    BY <1>0, <1>2, MissStep DEF GetFileGone
<1>3. CASE GetExpired(p, k)
    BY <1>0, <1>3, MissStep DEF GetExpired
<1>4. CASE GetFromDisk(p, k)
    <2> DEFINE json == files[k].json
               e    == [key |-> k, json |-> json, created |-> now]
               es   == Append(entries[p], e)
    <2>1. /\ ~Has(entries[p], k)
          /\ files[k] # None
          /\ ~(now - files[k].mtime > TTL)
          /\ json # None
          /\ entries' = [entries EXCEPT ![p] = es] \/ entries' = entries
          /\ Serve(p, k, json)
          /\ UNCHANGED files
        BY <1>4 DEF GetFromDisk, Expired
    <2>2. /\ files[k] \in File
          /\ json \in Doc
          /\ json.at \in Nat
          /\ json.era = clears \/ json \in spared
          /\ json.at <= now
          /\ now - json.at <= TTL
        BY <2>1, <1>0 DEF FilesInv, TypeOK, File, Doc
    <2>3. (since[p] <= json.era \/ json \in spared) /\ now - json.at <= 2 * TTL
        BY <1>0, <2>2 DEF SinceInv
    <2>4. e \in Entry /\ e.key = k /\ entries[p] \in Seq(Entry) /\ Unique(entries[p])
        BY <1>0, <2>2 DEF Entry, TypeOK, UniqueKeys, Unique
    <2>5. es \in Seq(Entry) /\ Unique(es) /\ Elems(es) = Elems(entries[p]) \cup {e}
        BY <2>1, <2>4, AppendFacts
    <2> HIDE DEF es
    <2>6. /\ entries' \in [Procs -> Seq(Entry)]
          /\ UniqueKeys'
          /\ DownInv'
          /\ \A q \in Procs : \A x \in Elems(entries'[q]) :
               x \in Elems(entries[q]) \/ (q = p /\ x = e)
        <3>1. CASE entries' = entries
            BY <3>1, <1>0 DEF TypeOK, UniqueKeys, DownInv
        <3>2. CASE entries' = [entries EXCEPT ![p] = es]
            BY <3>2, <1>0, <2>5, ListUpdate DEF DownInv
        <3> QED BY <2>1, <3>1, <3>2
    <2>7. EntriesInv'
        <3> SUFFICES ASSUME NEW q \in Procs, NEW x \in Elems(entries'[q])
                     PROVE  /\ x.json.at <= x.created
                            /\ x.created <= now
                            /\ x.created - x.json.at <= TTL
                            /\ since[q] <= x.json.era \/ x.json \in spared
            BY <1>0 DEF EntriesInv
        <3>1. CASE x \in Elems(entries[q])
            BY <3>1 DEF EntriesInv
        <3>2. CASE q = p /\ x = e
            BY <3>2, <1>0, <2>2, <2>3
        <3> QED BY <3>1, <3>2, <2>6
    <2> HIDE DEF json
    <2> QED BY <1>0, <2>1, <2>2, <2>3, <2>6, <2>7, ServeStep
<1>5. CASE GetMiss(p, k)
    BY <1>0, <1>5, MissStep DEF GetMiss
<1>6. CASE GetOutOfMemory(p, k)
    BY <1>0, <1>6, MissStep DEF GetOutOfMemory
<1> QED BY <1>1, <1>2, <1>3, <1>4, <1>5, <1>6 DEF Get

\* A clear drops the caller's list and only removes files; what it leaves is
\* spared.
LEMMA ClearFacts ==
    ASSUME TypeOK, NEW p \in Procs, Clear(p) \/ ClearFails(p)
    PROVE  /\ Cleared(p)
           /\ files' \in [Keys -> File \cup {None}]
           /\ \A k \in Keys : files'[k] # None => files'[k] = files[k]
           /\ spared \subseteq spared'
           /\ spared' \in SUBSET Doc
           /\ \A k \in Keys : files'[k] # None /\ files'[k].json # None
                               => files'[k].json \in spared'
<1>1. CASE Clear(p)
    BY <1>1 DEF Clear, TypeOK
<1>2. CASE ClearFails(p)
    <2>1. files' \in Deletions(files, Listed(p)) \/ files' \in Deletions(files, Keys)
        BY <1>2 DEF ClearFails, Deletions
    <2>2. /\ files' \in [Keys -> File \cup {None}]
          /\ \A k \in Keys : files'[k] # None => files'[k] = files[k]
        BY <2>1, DeletionFacts DEF TypeOK
    <2>3. Documents(files') \subseteq Doc
        BY <2>2 DEF Documents, File
    <2>4. spared' = spared \cup Documents(files')
        BY <1>2 DEF ClearFails
    <2> QED BY <1>2, <2>2, <2>3, <2>4 DEF ClearFails, TypeOK, Documents
<1> QED BY <1>1, <1>2

LEMMA ClearStep ==
    ASSUME IInv, NEW p \in Procs, Clear(p) \/ ClearFails(p)
    PROVE  IInv'
<1> USE DEF IInv, Cleared
<1>0. /\ Cleared(p)
      /\ files' \in [Keys -> File \cup {None}]
      /\ \A k \in Keys : files'[k] # None => files'[k] = files[k]
      /\ spared \subseteq spared'
      /\ spared' \in SUBSET Doc
      /\ \A k \in Keys : files'[k] # None /\ files'[k].json # None
                          => files'[k].json \in spared'
    BY ClearFacts
<1>1. <<>> \in Seq(Entry) /\ Unique(<<>>) /\ Elems(<<>>) = {}
    BY EmptySeq DEF Unique, Elems
<1>2. /\ entries' \in [Procs -> Seq(Entry)]
      /\ UniqueKeys'
      /\ entries'[p] = <<>>
      /\ \A q \in Procs : q # p => entries'[q] = entries[q]
    BY <1>0, <1>1, ListUpdate
<1>3. TypeOK'
    BY <1>0, <1>2 DEF TypeOK, Returns
<1>4. FilesInv'
    BY <1>0 DEF FilesInv
<1>5. EntriesInv'
    BY <1>0, <1>1, <1>2 DEF EntriesInv, TypeOK
<1>6. SinceInv' /\ DownInv' /\ ServedWithinTwoTTL' /\ ClearIsFinal'
    BY <1>0, <1>2 DEF SinceInv, DownInv, ServedWithinTwoTTL, ClearIsFinal, Hit, TypeOK
<1> QED BY <1>2, <1>3, <1>4, <1>5, <1>6

\* The clock runs, and a process starts: no copy changes.
LEMMA TickStep ==
    ASSUME IInv, Tick
    PROVE  IInv'
<1> USE DEF IInv, Tick
<1>1. now \in Nat /\ now' = now + 1
    BY DEF TypeOK
<1>2. TypeOK' /\ UniqueKeys'
    BY <1>1 DEF TypeOK, Returns, Idle, UniqueKeys
<1>3. FilesInv'
    BY <1>1 DEF FilesInv, TypeOK, File
<1>4. EntriesInv'
    <2> SUFFICES ASSUME NEW p \in Procs, NEW e \in Elems(entries[p])
                 PROVE  /\ e.json.at <= e.created
                        /\ e.created <= now'
                        /\ e.created - e.json.at <= TTL
                        /\ since[p] <= e.json.era \/ e.json \in spared
        BY DEF EntriesInv
    <2>1. e.created \in Nat
        BY ElemsFacts, entries[p] \in Seq(Entry) DEF TypeOK, Entry
    <2> QED BY <1>1, <2>1 DEF EntriesInv
<1>5. SinceInv' /\ DownInv' /\ ServedWithinTwoTTL' /\ ClearIsFinal'
    BY DEF SinceInv, DownInv, ServedWithinTwoTTL, ClearIsFinal, Hit, Idle
<1> QED BY <1>2, <1>3, <1>4, <1>5

LEMMA CreateStep ==
    ASSUME IInv, NEW p \in Procs, Create(p)
    PROVE  IInv'
<1> USE DEF IInv, Create
<1>1. TypeOK' /\ UniqueKeys' /\ FilesInv'
    BY DEF TypeOK, Returns, Idle, UniqueKeys, FilesInv
<1>2. Elems(<<>>) = {}
    BY DEF Elems
<1>3. EntriesInv'
    BY <1>2 DEF EntriesInv, DownInv, TypeOK
<1>4. SinceInv' /\ DownInv' /\ ServedWithinTwoTTL' /\ ClearIsFinal'
    BY DEF SinceInv, DownInv, ServedWithinTwoTTL, ClearIsFinal, Hit, Idle, TypeOK
<1> QED BY <1>1, <1>3, <1>4

-----------------------------------------------------------------------------
\* The files that a process which ends leaves, between calls or inside one.
LEMMA KilledFiles ==
    ASSUME TypeOK, NEW p \in Procs,
           Destroy(p) \/ KilledInClear(p) \/ \E k \in Keys : KilledInSet(p, k)
    PROVE  /\ Gone(p)
           /\ files' \in [Keys -> File \cup {None}]
           /\ \A k \in Keys : \/ files'[k] = None
                              \/ files'[k] = files[k]
                              \/ files'[k] = [json |-> None, mtime |-> now]
<1>1. CASE Destroy(p)
    BY <1>1 DEF Destroy, TypeOK
<1>2. CASE KilledInClear(p)
    BY <1>2 DEF KilledInClear, TypeOK
<1>3. ASSUME NEW k \in Keys, KilledInSet(p, k)
      PROVE  /\ files' \in [Keys -> File \cup {None}]
             /\ \A j \in Keys : \/ files'[j] = None
                                \/ files'[j] = files[j]
                                \/ files'[j] = [json |-> None, mtime |-> now]
    <2>1. PICK ks : \E fs \in Deletions(files, ks) :
                      files' = fs \/ files' = [fs EXCEPT ![k] = Torn]
        BY <1>3 DEF KilledInSet
    <2>2. PICK fs \in Deletions(files, ks) : files' = fs \/ files' = [fs EXCEPT ![k] = Torn]
        BY <2>1
    <2>3. /\ fs \in [Keys -> File \cup {None}]
          /\ \A j \in Keys : fs[j] # None => fs[j] = files[j]
        BY <2>2, DeletionFacts DEF TypeOK
    <2>4. Torn \in File /\ Torn = [json |-> None, mtime |-> now]
        BY DEF Torn, File, TypeOK
    <2> QED BY <2>2, <2>3, <2>4
<1>4. ASSUME NEW k \in Keys, KilledInSet(p, k) PROVE Gone(p)
    BY <1>4 DEF KilledInSet
<1> QED BY <1>1, <1>2, <1>3, <1>4

LEMMA InitIInv == Init => IInv
<1> SUFFICES ASSUME Init PROVE IInv
    OBVIOUS
<1> USE DEF Init
<1>1. <<>> \in Seq(Entry) /\ Unique(<<>>) /\ Elems(<<>>) = {}
    BY EmptySeq DEF Unique, Elems
<1>2. TypeOK
    BY <1>1 DEF TypeOK, Returns, Idle
<1>3. UniqueKeys
    BY <1>1 DEF UniqueKeys, Unique
<1>4. FilesInv /\ EntriesInv /\ SinceInv /\ DownInv
    BY <1>1 DEF FilesInv, EntriesInv, SinceInv, DownInv
<1>5. ServedWithinTwoTTL /\ ClearIsFinal
    BY DEF ServedWithinTwoTTL, ClearIsFinal, Hit, Idle
<1> QED BY <1>2, <1>3, <1>4, <1>5 DEF IInv

LEMMA NextIInv == IInv /\ [Next]_vars => IInv'
<1> SUFFICES ASSUME IInv, [Next]_vars PROVE IInv'
    OBVIOUS
<1>1. CASE UNCHANGED vars
    BY <1>1 DEF vars, IInv, TypeOK, UniqueKeys, FilesInv, EntriesInv, SinceInv, DownInv,
                ServedWithinTwoTTL, ClearIsFinal, Hit
<1>2. CASE Tick
    BY <1>2, TickStep
<1>3. ASSUME NEW p \in Procs, Create(p) PROVE IInv'
    BY <1>3, CreateStep
<1>4. ASSUME NEW p \in Procs, Clear(p) \/ ClearFails(p) PROVE IInv'
    BY <1>4, ClearStep
<1>5. ASSUME NEW p \in Procs,
             Destroy(p) \/ KilledInClear(p) \/ \E k \in Keys : KilledInSet(p, k)
      PROVE  IInv'
    BY <1>5, KilledFiles, GoneStep DEF IInv
<1>6. ASSUME NEW p \in Procs, NEW k \in Keys, NEW doc \in Fresh, Set(p, k, doc)
      PROVE  IInv'
    BY <1>6, SetStep
<1>7. ASSUME NEW p \in Procs, NEW k \in Keys, SetOutOfMemory(p, k) PROVE IInv'
    BY <1>7, SetOutOfMemoryStep
<1>8. ASSUME NEW p \in Procs, NEW k \in Keys, Get(p, k) PROVE IInv'
    BY <1>8, GetStep
<1> QED BY <1>1, <1>2, <1>3, <1>4, <1>5, <1>6, <1>7, <1>8 DEF Next

\* The inductive invariant holds of every reachable state.
THEOREM Invariance == Spec => []IInv
BY InitIInv, NextIInv, PTL DEF Spec

\* The variables keep their types: the lists are lists of entries, whatever
\* the evictions and loads do to them.
THEOREM TypeCorrect == Spec => []TypeOK
<1>1. IInv => TypeOK
    BY DEF IInv
<1> QED BY <1>1, Invariance, PTL

\* No sequence of calls gives a list two entries for one key.
THEOREM NoDuplicates == Spec => []UniqueKeys
<1>1. IInv => UniqueKeys
    BY DEF IInv
<1> QED BY <1>1, Invariance, PTL

\* For every TTL, limit and set of processes, no get returns a document
\* fetched more than twice the TTL ago, whatever fails.
THEOREM BoundedStaleness == Spec => []ServedWithinTwoTTL
<1>1. IInv => ServedWithinTwoTTL
    BY DEF IInv
<1> QED BY <1>1, Invariance, PTL

\* What a process cleared, or what was cleared before it started, is never
\* served to it again, whatever fails and whoever is killed, except what a
\* failing opendir or unlink of a clear itself left in the directory.
THEOREM NothingFromBeforeClear == Spec => []ClearIsFinal
<1>1. IInv => ClearIsFinal
    BY DEF IInv
<1> QED BY <1>1, Invariance, PTL

ServedSinceClear == Hit => ret.json.era >= since[ret.proc]

\* A clear whose own file calls succeed is final without exception: saves
\* that fail or are torn, kills and other processes bring nothing back.
THEOREM ClearsLeaveNothing ==
    ASSUME Faults \cap {"alloc", "unlink", "scan"} = {}
    PROVE  Spec => []ServedSinceClear
<1> DEFINE Nothing == spared = {}
<1>1. Init => Nothing
    BY DEF Init
<1>2. Nothing /\ [Next]_vars => Nothing'
    BY DEF Next, vars, Tick, Create, Destroy, Gone, Clear, ClearFails, KilledInClear,
           KilledInSet, Set, SetOutOfMemory, Get
<1>3. ClearIsFinal /\ Nothing => ServedSinceClear
    BY DEF ClearIsFinal, ServedSinceClear
<1> HIDE DEF Nothing
<1> QED BY <1>1, <1>2, <1>3, NothingFromBeforeClear, PTL DEF Spec

-----------------------------------------------------------------------------
(* Reads do not go back, as long as memory is not exhausted and an unlink  *)
(* succeeds: then the file of an entry that is dropped goes with it.       *)

\* The copy of k that p would be given next, its entry or without one the
\* file, is as new as all that p has seen.
SeenAt(p, k) ==
    /\ seen[p][k] <= now
    /\ \A e \in Elems(entries[p]) : e.key = k => seen[p][k] <= e.json.at
    /\ ~Has(entries[p], k) /\ files[k] # None /\ files[k].json # None
         => seen[p][k] <= files[k].json.at

SeenInv == \A p \in Procs, k \in Keys : SeenAt(p, k)

NoGoingBack ==
    \A p \in Procs, k \in Keys :
        ret'.call = "get" /\ ret'.proc = p /\ ret'.key = k
          => ret'.json = None \/ ret'.json.at >= seen[p][k]

\* What one process does to the files costs no other process its SeenAt.
LEMMA SeenOthers ==
    ASSUME IInv, SeenInv, NEW p \in Procs, now' = now,
           \A q \in Procs : q # p => entries'[q] = entries[q] /\ seen'[q] = seen[q],
           \A k \in Keys : \/ files'[k] = None
                           \/ files'[k] = files[k]
                           \/ \E doc \in Fresh : files'[k] = [json |-> doc, mtime |-> now]
                           \/ files'[k] = [json |-> None, mtime |-> now]
    PROVE  \A q \in Procs, k \in Keys : q # p => SeenAt(q, k)'
<1> SUFFICES ASSUME NEW q \in Procs, NEW k \in Keys, q # p PROVE SeenAt(q, k)'
    OBVIOUS
<1>1. SeenAt(q, k) /\ entries'[q] = entries[q] /\ seen'[q] = seen[q]
    BY DEF SeenInv
<1>2. CASE files'[k] = None
    BY <1>1, <1>2 DEF SeenAt
<1>3. CASE files'[k] = files[k]
    BY <1>1, <1>3 DEF SeenAt
<1>4. CASE \E doc \in Fresh : files'[k] = [json |-> doc, mtime |-> now]
    BY <1>1, <1>4 DEF SeenAt, Fresh
<1>5. CASE files'[k] = [json |-> None, mtime |-> now]
    BY <1>1, <1>5 DEF SeenAt
<1> QED BY <1>2, <1>3, <1>4, <1>5

\* An ended process starts again having seen nothing.
LEMMA SeenGone ==
    ASSUME IInv, IInv', SeenInv, NEW p \in Procs, Gone(p),
           \A k \in Keys : \/ files'[k] = None
                           \/ files'[k] = files[k]
                           \/ files'[k] = [json |-> None, mtime |-> now]
    PROVE  SeenInv'
<1>1. \A q \in Procs : q # p => entries'[q] = entries[q] /\ seen'[q] = seen[q]
    BY DEF Gone, IInv, TypeOK
<1>2. now' = now
    BY DEF Gone
<1>3. \A q \in Procs, k \in Keys : q # p => SeenAt(q, k)'
    BY <1>1, <1>2, SeenOthers
<1>4. ASSUME NEW k \in Keys PROVE SeenAt(p, k)'
    <2>1. seen'[p][k] = 0 /\ entries'[p] = <<>> /\ now' \in Nat
        BY DEF Gone, IInv, TypeOK
    <2>2. Elems(<<>>) = {}
        BY DEF Elems
    <2>3. files'[k] # None /\ files'[k].json # None => files'[k].json.at \in Nat
        BY DEF IInv, TypeOK, File, Doc
    <2> QED BY <2>1, <2>2, <2>3 DEF SeenAt
<1> QED BY <1>3, <1>4 DEF SeenInv

LEMMA SeenSet ==
    ASSUME IInv, SeenInv, Faults \cap {"alloc", "unlink"} = {}, NEW p \in Procs, NEW k \in Keys,
           NEW doc \in Fresh, Set(p, k, doc)
    PROVE  SeenInv'
<1> USE DEF IInv
<1> DEFINE rest == Without(entries[p], k)
           e    == [key |-> k, json |-> doc, created |-> now]
           es   == Append(Evicted(rest), e)
<1>0. now \in Nat /\ doc \in Doc /\ doc.at = now /\ e \in Entry /\ e.key = k
    BY DEF TypeOK, Doc, Entry, Fresh
<1>1. /\ es \in Seq(Entry)
      /\ Elems(es) = {e} \cup {x \in Elems(entries[p]) : x.key # k /\ x.key \notin Victims(rest)}
    BY <1>0, StoreFacts
<1>2. PICK fs \in Deletions(files, Victims(rest)) : files' \in Saves(fs, k, doc)
    BY DEF Set
<1>3. /\ fs \in [Keys -> File \cup {None}]
      /\ \A j \in Keys : fs[j] # None => fs[j] = files[j]
      /\ \A j \in Victims(rest) \cap Keys : fs[j] = None
    <2>1. files \in [Keys -> File \cup {None}]
        BY DEF TypeOK
    <2> HIDE DEF rest
    <2> QED BY <1>2, <2>1, DeletionFacts
<1>4. /\ \A j \in Keys : j # k => files'[j] = fs[j]
      /\ \A j \in Keys : \/ files'[j] = None
                          \/ files'[j] = files[j]
                          \/ files'[j] = [json |-> doc, mtime |-> now]
                          \/ files'[j] = [json |-> None, mtime |-> now]
    <2> QED BY <1>0, <1>2, <1>3, SaveFacts
<1>5. /\ now' = now
      /\ entries'[p] = es
      /\ seen'[p][k] = now
      /\ \A j \in Keys : j # k => seen'[p][j] = seen[p][j]
      /\ \A q \in Procs : q # p => entries'[q] = entries[q] /\ seen'[q] = seen[q]
    BY <1>0 DEF Set, TypeOK
<1>6. \A q \in Procs, j \in Keys : q # p => SeenAt(q, j)'
    BY <1>0, <1>4, <1>5, SeenOthers
<1> HIDE DEF es
<1>7. Has(es, k)
    BY <1>0, <1>1, ElemsFacts
<1>8. SeenAt(p, k)'
    <2>1. \A x \in Elems(es) : x.key = k => x = e
        BY <1>1
    <2> QED BY <2>1, <1>0, <1>5, <1>7 DEF SeenAt
<1>9. ASSUME NEW j \in Keys, j # k PROVE SeenAt(p, j)'
    <2>0. SeenAt(p, j) /\ seen'[p][j] = seen[p][j]
        BY <1>5, <1>9 DEF SeenInv
    <2>1. \A x \in Elems(es) : x.key = j => x \in Elems(entries[p])
        BY <1>1, <1>0, <1>9
    <2>2. ASSUME ~Has(es, j), files'[j] # None
          PROVE  ~Has(entries[p], j) /\ files'[j] = files[j]
        <3>1. j \notin Victims(rest) /\ files'[j] = files[j]
            BY <2>2, <1>3, <1>4, <1>9
        <3>2. ~ \E x \in Elems(entries[p]) : x.key = j
            BY <2>2, <3>1, <1>1, <1>9, ElemsFacts
        <3> QED BY <3>1, <3>2, ElemsFacts DEF TypeOK
    <2> QED BY <2>0, <2>1, <2>2, <1>5 DEF SeenAt
<1> QED BY <1>6, <1>8, <1>9 DEF SeenInv

\* A get that returns nothing and drops the entry has found or left no file.
LEMMA SeenMiss ==
    ASSUME IInv, SeenInv, NEW p \in Procs, NEW k \in Keys, Miss(p, k), now' = now,
           \A j \in Keys : files'[j] = None \/ files'[j] = files[j],
           \/ entries' = entries
           \/ entries' = [entries EXCEPT ![p] = Without(@, k)] /\ files'[k] = None
    PROVE  SeenInv'
<1> USE DEF IInv
<1>1. /\ entries[p] \in Seq(Entry)
      /\ Without(entries[p], k) \in Seq(Entry)
      /\ Elems(Without(entries[p], k)) = {e \in Elems(entries[p]) : e.key # k}
    BY DropFacts DEF TypeOK
<1>2. /\ seen' = seen
      /\ \A q \in Procs : q # p => entries'[q] = entries[q] /\ seen'[q] = seen[q]
    BY DEF Miss, TypeOK
<1>3. \A q \in Procs, j \in Keys : q # p => SeenAt(q, j)'
    BY <1>2, SeenOthers
<1>4. ASSUME NEW j \in Keys PROVE SeenAt(p, j)'
    <2>0. SeenAt(p, j) /\ seen'[p][j] = seen[p][j]
        BY <1>2 DEF SeenInv
    <2>1. CASE entries' = entries
        BY <2>0, <2>1 DEF SeenAt
    <2>2. CASE entries' = [entries EXCEPT ![p] = Without(@, k)] /\ files'[k] = None
        <3>1. entries'[p] = Without(entries[p], k)
            BY <2>2 DEF TypeOK
        <3>2. CASE j = k
            BY <2>0, <2>2, <3>1, <3>2, <1>1 DEF SeenAt
        <3>3. CASE j # k
            <4>1. Has(entries'[p], j) <=> Has(entries[p], j)
                BY <1>1, <3>1, <3>3, ElemsFacts
            <4> QED BY <2>0, <3>1, <4>1, <1>1 DEF SeenAt
        <3> QED BY <3>2, <3>3
    <2> QED BY <2>1, <2>2
<1> QED BY <1>3, <1>4 DEF SeenInv

\* A get that returns a document as new as all that p has seen, and the
\* entries it leaves for k hold that document.
LEMMA SeenServe ==
    ASSUME IInv, SeenInv, NEW p \in Procs, NEW k \in Keys, NEW json \in Doc,
           Serve(p, k, json), UNCHANGED <<now, files>>,
           json.at <= now, seen[p][k] <= json.at,
           \A q \in Procs : q # p => entries'[q] = entries[q],
           \A e \in Elems(entries'[p]) : e.key = k => e.json = json,
           Has(entries'[p], k),
           \A e \in Elems(entries'[p]) : e.key # k => e \in Elems(entries[p]),
           \A j \in Keys : j # k => (Has(entries'[p], j) <=> Has(entries[p], j))
    PROVE  SeenInv'
<1>1. json.at \in Nat /\ seen[p][k] \in Nat
    BY DEF Doc, IInv, TypeOK
<1>2. Newest(seen[p][k], json.at) = json.at
    BY <1>1 DEF Newest
<1>3. /\ seen'[p][k] = json.at
      /\ \A j \in Keys : j # k => seen'[p][j] = seen[p][j]
      /\ \A q \in Procs : q # p => seen'[q] = seen[q]
    BY <1>2 DEF Serve, IInv, TypeOK
<1>4. \A q \in Procs, j \in Keys : q # p => SeenAt(q, j)'
    BY <1>3, SeenOthers
<1>5. SeenAt(p, k)'
    BY <1>1, <1>3 DEF SeenAt
<1>6. ASSUME NEW j \in Keys, j # k PROVE SeenAt(p, j)'
    <2>1. SeenAt(p, j)
        BY DEF SeenInv
    <2> QED BY <1>3, <1>6, <2>1 DEF SeenAt
<1> QED BY <1>4, <1>5, <1>6 DEF SeenInv

\* The document that a get returns, from memory or from disk.
LEMMA SeenGet ==
    ASSUME IInv, SeenInv, Faults \cap {"alloc", "unlink"} = {}, NEW p \in Procs, NEW k \in Keys, Get(p, k)
    PROVE  SeenInv' /\ NoGoingBack
<1> USE DEF IInv
<1>0. now' = now /\ now \in Nat /\ entries[p] \in Seq(Entry) /\ SeenAt(p, k)
    BY DEF Get, TypeOK, SeenInv
<1>1. ASSUME Miss(p, k) PROVE NoGoingBack
    BY <1>1 DEF Miss, NoGoingBack, Got
<1>2. ASSUME NEW json, Serve(p, k, json), seen[p][k] <= json.at PROVE NoGoingBack
    <2>1. json.at >= seen[p][k]
        BY <1>2
    <2> QED BY <1>2, <2>1 DEF Serve, NoGoingBack, Got
<1>3. CASE GetHit(p, k)
    <2> DEFINE e == entries[p][Find(entries[p], k)]
    <2>1. e \in Elems(entries[p]) /\ e \in Entry /\ e.key = k /\ e.json \in Doc
        BY <1>3, FoundFacts DEF GetHit, Entry
    <2>2. Serve(p, k, e.json) /\ UNCHANGED <<entries, files>>
        BY <1>3 DEF GetHit
    <2>3. seen[p][k] <= e.json.at /\ e.json.at <= now
        BY <1>0, <2>1, SMTT(30) DEF SeenAt, EntriesInv, Entry, Doc
    <2>4. \A x \in Elems(entries[p]) : x.key = k => x = e
        BY <2>1 DEF Elems, UniqueKeys
    <2> HIDE DEF e
    <2>5. Has(entries[p], k)
        BY <1>3 DEF GetHit
    <2>6. SeenInv'
        BY <1>0, <2>1, <2>2, <2>3, <2>4, <2>5, SeenServe
    <2> QED BY <1>2, <2>2, <2>3, <2>6
<1>4. CASE GetFileGone(p, k)
    BY <1>0, <1>1, <1>4, SeenMiss DEF GetFileGone
<1>5. CASE GetExpired(p, k)
    <2>1. /\ Miss(p, k)
          /\ entries' = [entries EXCEPT ![p] = Without(@, k)]
          /\ files' \in Deletions(files, {k})
        BY <1>5 DEF GetExpired
    <2>2. files \in [Keys -> File \cup {None}]
        BY DEF TypeOK
    <2>3. files'[k] = None /\ \A j \in Keys : files'[j] = None \/ files'[j] = files[j]
        BY <2>1, <2>2, DeletionFacts
    <2> QED BY <1>0, <1>1, <2>1, <2>3, SeenMiss
<1>6. CASE GetFromDisk(p, k)
    <2> DEFINE json == files[k].json
               e    == [key |-> k, json |-> json, created |-> now]
               es   == Append(entries[p], e)
    <2>1. /\ ~Has(entries[p], k)
          /\ files[k] # None
          /\ json # None
          /\ entries' = [entries EXCEPT ![p] = es]
          /\ Serve(p, k, json)
          /\ UNCHANGED files
        BY <1>6 DEF GetFromDisk
    <2>2. json \in Doc /\ json.at <= now /\ seen[p][k] <= json.at
        BY <2>1, <1>0 DEF FilesInv, TypeOK, File, SeenAt
    <2>3. e \in Entry /\ e.key = k /\ e.json = json /\ Unique(entries[p])
        BY <1>0, <2>2 DEF Entry, UniqueKeys, Unique
    <2>4. es \in Seq(Entry) /\ Elems(es) = Elems(entries[p]) \cup {e}
        BY <2>1, <2>3, <1>0, AppendFacts
    <2>5. entries'[p] = es /\ \A q \in Procs : q # p => entries'[q] = entries[q]
        BY <2>1 DEF TypeOK
    <2> HIDE DEF es, e, json
    <2>6. \A j \in Keys : j # k => (Has(es, j) <=> Has(entries[p], j))
        BY <1>0, <2>3, <2>4, ElemsFacts
    <2>7. Has(es, k) /\ \A x \in Elems(es) : x.key = k => x = e
        BY <1>0, <2>1, <2>3, <2>4, ElemsFacts
    <2>8. SeenInv'
        BY <1>0, <2>1, <2>2, <2>3, <2>4, <2>5, <2>6, <2>7, SeenServe
    <2> QED BY <1>2, <2>1, <2>2, <2>8
<1>7. CASE GetMiss(p, k)
    <2>1. Miss(p, k) /\ entries' = entries /\ files' \in {files} \cup Deletions(files, {k})
        BY <1>7 DEF GetMiss
    <2>2. \A j \in Keys : files'[j] = None \/ files'[j] = files[j]
        <3>1. files \in [Keys -> File \cup {None}]
            BY DEF TypeOK
        <3> QED BY <2>1, <3>1, DeletionFacts
    <2> QED BY <1>0, <1>1, <2>1, <2>2, SeenMiss
<1>8. CASE GetOutOfMemory(p, k)
    BY <1>8 DEF GetOutOfMemory
<1> QED BY <1>3, <1>4, <1>5, <1>6, <1>7, <1>8 DEF Get

\* SeenInv is inductive, given IInv, and no step goes back.
LEMMA NextSeenInv ==
    ASSUME IInv, IInv', SeenInv, [Next]_vars, Faults \cap {"alloc", "unlink"} = {}
    PROVE  SeenInv' /\ [NoGoingBack]_vars
<1>1. CASE UNCHANGED vars
    BY <1>1 DEF vars, SeenInv, SeenAt
<1>2. CASE Tick
    <2>1. now \in Nat /\ now' = now + 1 /\ seen \in [Procs -> [Keys -> Nat]]
        BY <1>2 DEF Tick, IInv, TypeOK
    <2> QED BY <1>2, <2>1 DEF Tick, SeenInv, SeenAt, NoGoingBack, Idle
<1>3. ASSUME NEW p \in Procs, Create(p) PROVE SeenInv' /\ NoGoingBack
    BY <1>3 DEF Create, SeenInv, SeenAt, NoGoingBack, Idle
<1>4. ASSUME NEW p \in Procs, Clear(p) \/ ClearFails(p) PROVE SeenInv' /\ NoGoingBack
    <2> USE DEF IInv
    <2>1. Cleared(p) /\ \A k \in Keys : files'[k] # None => files'[k] = files[k]
        BY <1>4, ClearFacts
    <2>2. /\ seen' = seen
          /\ now' = now
          /\ entries'[p] = <<>> /\ Elems(<<>>) = {}
          /\ \A q \in Procs : q # p => entries'[q] = entries[q]
        BY <2>1 DEF Cleared, TypeOK, Elems
    <2>3. \A q \in Procs, k \in Keys : q # p => SeenAt(q, k)'
        BY <2>1, <2>2, SeenOthers
    <2>4. ASSUME NEW k \in Keys, files'[k] # None PROVE ~Has(entries[p], k)
        <3>1. files \in [Keys -> File \cup {None}]
            BY DEF TypeOK
        <3>2. CASE Clear(p)
            BY <2>4, <3>2 DEF Clear
        <3>3. CASE ClearFails(p)
            <4>1. files' \in Deletions(files, Listed(p))
                BY <3>3 DEF ClearFails
            <4>2. k \notin Listed(p)
                BY <2>4, <3>1, <4>1, DeletionFacts
            <4> QED BY <4>2 DEF Listed
        <3> QED BY <1>4, <3>2, <3>3
    <2>5. \A k \in Keys : SeenAt(p, k)'
        BY <2>1, <2>2, <2>4 DEF SeenInv, SeenAt
    <2>6. NoGoingBack
        BY <2>1 DEF Cleared, NoGoingBack
    <2> QED BY <2>3, <2>5, <2>6 DEF SeenInv
<1>5. ASSUME NEW p \in Procs,
             Destroy(p) \/ KilledInClear(p) \/ \E k \in Keys : KilledInSet(p, k)
      PROVE  SeenInv' /\ NoGoingBack
    <2>1. Gone(p)
        BY <1>5 DEF Destroy, KilledInClear, KilledInSet
    <2>2. NoGoingBack
        BY <2>1 DEF Gone, NoGoingBack, Idle
    <2>3. \A k \in Keys : \/ files'[k] = None
                          \/ files'[k] = files[k]
                          \/ files'[k] = [json |-> None, mtime |-> now]
        BY <1>5, KilledFiles DEF IInv
    <2> QED BY <2>1, <2>2, <2>3, SeenGone
<1>6. ASSUME NEW p \in Procs, NEW k \in Keys, NEW doc \in Fresh, Set(p, k, doc)
      PROVE  SeenInv' /\ NoGoingBack
    BY <1>6, SeenSet DEF Set, NoGoingBack, Stored
<1>7. ASSUME NEW p \in Procs, NEW k \in Keys, SetOutOfMemory(p, k) PROVE FALSE
    BY <1>7 DEF SetOutOfMemory
<1>8. ASSUME NEW p \in Procs, NEW k \in Keys, Get(p, k) PROVE SeenInv' /\ NoGoingBack
    BY <1>8, SeenGet
<1> QED BY <1>1, <1>2, <1>3, <1>4, <1>5, <1>6, <1>7, <1>8 DEF Next

\* Unless memory is exhausted or an unlink fails, a process never gets an
\* older document for a key than it has stored or been given: whatever other
\* processes do, and whichever saves fail or are torn.
THEOREM MonotonicReads ==
    ASSUME Faults \cap {"alloc", "unlink"} = {}
    PROVE  Spec => NeverGoesBack
<1>1. Init => SeenInv
    BY DEF Init, SeenInv, SeenAt, Elems
<1>2. IInv /\ IInv' /\ SeenInv /\ [Next]_vars => SeenInv' /\ [NoGoingBack]_vars
    BY NextSeenInv
<1> QED BY <1>1, <1>2, Invariance, PTL DEF Spec, NeverGoesBack, NoGoingBack

\* Unless memory is exhausted, a hit means that the key's file exists: a
\* file removed by one process is a miss in the lists of all the others.
THEOREM HitsHaveFiles ==
    ASSUME "alloc" \notin Faults
    PROVE  Spec => []HitNeedsFile
<1>1. Init => HitNeedsFile
    BY DEF Init, HitNeedsFile, Hit, Idle
<1>2. HitNeedsFile /\ [Next]_vars => HitNeedsFile'
    <2> SUFFICES ASSUME HitNeedsFile, [Next]_vars PROVE HitNeedsFile'
        OBVIOUS
    <2> USE DEF HitNeedsFile, Hit
    <2>1. CASE UNCHANGED vars
        BY <2>1 DEF vars
    <2>2. CASE Tick
        BY <2>2 DEF Tick, Idle
    <2>3. ASSUME NEW p \in Procs, Create(p) \/ Gone(p) PROVE HitNeedsFile'
        BY <2>3 DEF Create, Gone, Idle
    <2>4. ASSUME NEW p \in Procs, Clear(p) \/ ClearFails(p) PROVE HitNeedsFile'
        BY <2>4 DEF Clear, ClearFails, Cleared
    <2>5. ASSUME NEW p \in Procs, NEW k \in Keys,
                 (\E doc \in Fresh : Set(p, k, doc)) \/ SetOutOfMemory(p, k)
          PROVE  HitNeedsFile'
        <3>1. \E ok \in BOOLEAN : ret' = Stored(p, k, ok)
            BY <2>5 DEF Set, SetOutOfMemory
        <3> QED BY <3>1 DEF Stored
    <2>6. ASSUME NEW p \in Procs, NEW k \in Keys, Get(p, k) PROVE HitNeedsFile'
        <3>1. CASE Miss(p, k)
            BY <3>1 DEF Miss, Got
        <3>2. CASE GetHit(p, k) \/ GetFromDisk(p, k)
            BY <3>2 DEF GetHit, GetFromDisk, Serve, Got
        <3> QED BY <2>6, <3>1, <3>2 DEF Get, GetFileGone, GetExpired, GetMiss, GetOutOfMemory
    <2>7. ASSUME NEW p \in Procs,
                 Destroy(p) \/ KilledInClear(p) \/ \E k \in Keys : KilledInSet(p, k)
          PROVE  Gone(p)
        BY <2>7 DEF Destroy, KilledInClear, KilledInSet
    <2> QED BY <2>1, <2>2, <2>3, <2>4, <2>5, <2>6, <2>7 DEF Next
<1> QED BY <1>1, <1>2, PTL DEF Spec

-----------------------------------------------------------------------------
(* The order and the length of the lists: they stay in order of creation,  *)
(* a set keeps them within max_entries, it evicts the oldest entry, and    *)
(* only when it has to.                                                    *)

Sorted(es) == \A i, j \in DOMAIN es : i <= j => es[i].created <= es[j].created

\* Taking out an entry keeps the order.
LEMMA RemoveSorted ==
    ASSUME NEW es \in Seq(Entry), Sorted(es), NEW i \in 1..Len(es)
    PROVE  Sorted(RemoveAt(es, i))
<1> DEFINE r == RemoveAt(es, i)
<1>1. /\ r \in Seq(Entry)
      /\ Len(r) = Len(es) - 1
      /\ \A j \in 1..(Len(es) - 1) : r[j] = IF j < i THEN es[j] ELSE es[j + 1]
    BY RemoveAtFacts
<1>2. DOMAIN r = 1..(Len(es) - 1) /\ DOMAIN es = 1..Len(es) /\ Len(es) \in Nat
    BY <1>1, LenProperties
<1> HIDE DEF r
<1>3. SUFFICES ASSUME NEW j \in DOMAIN r, NEW l \in DOMAIN r, j <= l
               PROVE  r[j].created <= r[l].created
    BY DEF Sorted, r
<1> DEFINE old(n) == IF n < i THEN n ELSE n + 1
<1>4. old(j) \in DOMAIN es /\ old(l) \in DOMAIN es /\ old(j) <= old(l)
    BY <1>2, <1>3
<1>5. r[j] = es[old(j)] /\ r[l] = es[old(l)]
    BY <1>1, <1>2
<1> QED BY <1>4, <1>5 DEF Sorted

LEMMA WithoutSorted ==
    ASSUME NEW es \in Seq(Entry), Sorted(es), NEW k
    PROVE  Sorted(Without(es, k))
BY FindFacts, RemoveSorted DEF Without

LEMMA EvictedSorted ==
    ASSUME NEW es \in Seq(Entry), Sorted(es)
    PROVE  Sorted(Evicted(es))
<1>1. CASE Full(es)
    <2>1. Oldest(es) \in 1..Len(es)
        BY <1>1, OldestFacts, ElemsFacts, MaxEntriesAssumption DEF Full
    <2> QED BY <1>1, <2>1, RemoveSorted DEF Evicted
<1>2. CASE ~Full(es)
    BY <1>2 DEF Evicted
<1> QED BY <1>1, <1>2

\* Appending an entry as new as all of the list keeps the order.
LEMMA AppendSorted ==
    ASSUME NEW es \in Seq(Entry), Sorted(es), NEW e \in Entry,
           \A x \in Elems(es) : x.created <= e.created
    PROVE  Sorted(Append(es, e))
<1> DEFINE a == Append(es, e)
<1>1. /\ a \in Seq(Entry)
      /\ Len(a) = Len(es) + 1
      /\ \A i \in 1..Len(es) : a[i] = es[i]
      /\ a[Len(es) + 1] = e
    BY AppendProperties
<1>2. DOMAIN a = 1..(Len(es) + 1) /\ DOMAIN es = 1..Len(es) /\ Len(es) \in Nat
    BY <1>1, LenProperties
<1> HIDE DEF a
<1>3. SUFFICES ASSUME NEW i \in DOMAIN a, NEW j \in DOMAIN a, i <= j
               PROVE  a[i].created <= a[j].created
    BY DEF Sorted, a
<1>4. CASE j <= Len(es)
    BY <1>1, <1>2, <1>3, <1>4 DEF Sorted
<1>5. CASE j = Len(es) + 1 /\ i <= Len(es)
    BY <1>1, <1>2, <1>3, <1>5 DEF Elems
<1>6. CASE j = Len(es) + 1 /\ i = Len(es) + 1
    <2>1. e.created \in Nat
        BY DEF Entry
    <2> QED BY <1>1, <1>6, <2>1
<1> QED BY <1>2, <1>3, <1>4, <1>5, <1>6

\* The entry that the eviction picks is as old as any.
LEMMA OldestIsOldest ==
    ASSUME NEW es \in Seq(Entry), Len(es) # 0, NEW e \in Elems(es)
    PROVE  es[Oldest(es)].created <= e.created
<1> DEFINE stamps == {es[i].created : i \in DOMAIN es}
           firsts == {i \in DOMAIN es : \A j \in DOMAIN es : es[i].created <= es[j].created}
<1>1. DOMAIN es = 1..Len(es) /\ Len(es) \in Nat /\ \A i \in 1..Len(es) : es[i] \in Entry
    BY LenProperties
<1>2. stamps \in SUBSET Nat /\ stamps # {}
    BY <1>1 DEF Entry
<1>3. Min(stamps) \in stamps /\ \A t \in stamps : Min(stamps) <= t
    BY <1>2, MinOfNats
<1>4. PICK i \in DOMAIN es : es[i].created = Min(stamps)
    BY <1>3
<1>5. i \in firsts
    BY <1>3, <1>4
<1>6. firsts \in SUBSET Nat /\ firsts # {}
    BY <1>1, <1>5
<1>7. Oldest(es) \in firsts
    BY <1>6, MinOfNats DEF Oldest
<1> QED BY <1>7 DEF Elems

\* The lengths of the lists that a set goes through.
LEMMA RoomLength ==
    ASSUME NEW es \in Seq(Entry), NEW k
    PROVE  LET rest == Without(es, k)
           IN  /\ rest \in Seq(Entry)
               /\ Len(rest) = IF Has(es, k) THEN Len(es) - 1 ELSE Len(es)
               /\ Evicted(rest) \in Seq(Entry)
               /\ Len(Evicted(rest)) = IF Full(rest) THEN Len(rest) - 1 ELSE Len(rest)
<1> DEFINE rest == Without(es, k)
<1>1. rest \in Seq(Entry) /\ Len(rest) = IF Has(es, k) THEN Len(es) - 1 ELSE Len(es)
    BY FindFacts, RemoveAtFacts DEF Without
<1> HIDE DEF rest
<1>2. CASE Full(rest)
    <2>1. Oldest(rest) \in 1..Len(rest)
        BY <1>1, <1>2, OldestFacts, ElemsFacts, MaxEntriesAssumption DEF Full
    <2> QED BY <1>1, <1>2, <2>1, RemoveAtFacts DEF Evicted, rest
<1>3. CASE ~Full(rest)
    BY <1>1, <1>3 DEF Evicted, rest
<1> QED BY <1>2, <1>3

-----------------------------------------------------------------------------
(* Order of creation.                                                      *)

\* Each call leaves each list as it was, empty, shorter, or with an entry
\* created now at its end.
ListMoves(p) ==
    \/ entries'[p] \in {entries[p], <<>>}
    \/ \E k \in Keys :
         \/ entries'[p] = Without(entries[p], k)
         \/ entries'[p] = Evicted(Without(entries[p], k))
         \/ \E e \in Entry :
              /\ e.created = now
              /\ \/ entries'[p] = Append(Evicted(Without(entries[p], k)), e)
                 \/ entries'[p] = Append(entries[p], e)

LEMMA EveryListMoves ==
    ASSUME IInv, [Next]_vars, NEW p \in Procs
    PROVE  ListMoves(p)
<1> USE DEF IInv, TypeOK
<1>1. CASE UNCHANGED vars
    BY <1>1 DEF vars, ListMoves
<1>2. CASE Tick
    BY <1>2 DEF Tick, ListMoves
<1>3. ASSUME NEW q \in Procs, Create(q) PROVE ListMoves(p)
    BY <1>3 DEF Create, ListMoves
<1>4. ASSUME NEW q \in Procs, Clear(q) \/ ClearFails(q) PROVE ListMoves(p)
    BY <1>4 DEF Clear, ClearFails, Cleared, ListMoves
<1>5. ASSUME NEW q \in Procs,
             Destroy(q) \/ KilledInClear(q) \/ \E k \in Keys : KilledInSet(q, k)
      PROVE  ListMoves(p)
    <2>1. Gone(q)
        BY <1>5 DEF Destroy, KilledInClear, KilledInSet
    <2> QED BY <2>1 DEF Gone, ListMoves
<1>6. ASSUME NEW q \in Procs, NEW k \in Keys, NEW doc \in Fresh, Set(q, k, doc)
      PROVE  ListMoves(p)
    <2> DEFINE e == [key |-> k, json |-> doc, created |-> now]
    <2>1. e \in Entry /\ e.created = now
        BY DEF Entry, Doc, Fresh
    <2>2. entries' = [entries EXCEPT ![q] = Append(Evicted(Without(entries[q], k)), e)]
        BY <1>6 DEF Set
    <2> HIDE DEF e
    <2>3. CASE p = q
        BY <2>1, <2>2, <2>3 DEF ListMoves
    <2>4. CASE p # q
        BY <2>2, <2>4 DEF ListMoves
    <2> QED BY <2>3, <2>4
<1>7. ASSUME NEW q \in Procs, NEW k \in Keys, SetOutOfMemory(q, k) PROVE ListMoves(p)
    BY <1>7 DEF SetOutOfMemory, ListMoves
<1>8. ASSUME NEW q \in Procs, NEW k \in Keys, Get(q, k) PROVE ListMoves(p)
    <2>1. CASE UNCHANGED entries
        BY <2>1 DEF ListMoves
    <2>2. CASE entries' = [entries EXCEPT ![q] = Without(@, k)]
        BY <2>2 DEF ListMoves
    <2>3. CASE GetFromDisk(q, k) /\ ~UNCHANGED entries
        <3> DEFINE e == [key |-> k, json |-> files[k].json, created |-> now]
        <3>1. e \in Entry /\ e.created = now
            BY <2>3 DEF GetFromDisk, Entry, File
        <3>2. entries' = [entries EXCEPT ![q] = Append(entries[q], e)]
            BY <2>3 DEF GetFromDisk
        <3> HIDE DEF e
        <3>3. CASE p = q
            BY <3>1, <3>2, <3>3 DEF ListMoves
        <3>4. CASE p # q
            BY <3>2, <3>4 DEF ListMoves
        <3> QED BY <3>3, <3>4
    <2> QED BY <1>8, <2>1, <2>2, <2>3
            DEF Get, GetHit, GetFileGone, GetExpired, GetMiss, GetOutOfMemory
<1> QED BY <1>1, <1>2, <1>3, <1>4, <1>5, <1>6, <1>7, <1>8 DEF Next

LEMMA NextCreationOrder ==
    ASSUME IInv, CreationOrder, [Next]_vars
    PROVE  CreationOrder'
<1> SUFFICES ASSUME NEW p \in Procs PROVE Sorted(entries'[p])
    BY DEF CreationOrder, Sorted
<1>1. entries[p] \in Seq(Entry) /\ Unique(entries[p]) /\ Sorted(entries[p])
    BY DEF IInv, TypeOK, UniqueKeys, Unique, CreationOrder, Sorted
<1>2. \A x \in Elems(entries[p]) : x.created <= now
    BY DEF IInv, EntriesInv
<1>3. CASE entries'[p] \in {entries[p], <<>>}
    BY <1>1, <1>3 DEF Sorted
<1>4. ASSUME NEW e \in Entry, e.created = now, entries'[p] = Append(entries[p], e)
      PROVE  Sorted(entries'[p])
    BY <1>1, <1>2, <1>4, AppendSorted
<1>5. ASSUME NEW k \in Keys
      PROVE  /\ Sorted(Without(entries[p], k))
             /\ Sorted(Evicted(Without(entries[p], k)))
    <2>1. Without(entries[p], k) \in Seq(Entry) /\ Sorted(Without(entries[p], k))
        BY <1>1, WithoutSorted, WithoutFacts
    <2> QED BY <2>1, EvictedSorted
<1>6. ASSUME NEW k \in Keys, NEW e \in Entry, e.created = now,
             entries'[p] = Append(Evicted(Without(entries[p], k)), e)
      PROVE  Sorted(entries'[p])
    <2>1. /\ Evicted(Without(entries[p], k)) \in Seq(Entry)
          /\ Elems(Evicted(Without(entries[p], k))) \subseteq Elems(entries[p])
        BY RoomFacts DEF IInv
    <2> QED BY <1>2, <1>5, <1>6, <2>1, AppendSorted
<1> QED BY <1>3, <1>4, <1>5, <1>6, EveryListMoves DEF ListMoves

\* The lists are in order of creation in every reachable state: the
\* eviction of client_cache_set is first in, first out.
THEOREM FirstInFirstOut == Spec => []CreationOrder
<1>1. Init => CreationOrder
    BY DEF Init, CreationOrder
<1>2. IInv /\ CreationOrder /\ [Next]_vars => CreationOrder'
    BY NextCreationOrder
<1> QED BY <1>1, <1>2, Invariance, PTL DEF Spec

-----------------------------------------------------------------------------
(* What one set may do.                                                    *)

\* A step that returns from a set is a set.
LEMMA OnlySetReturnsSet ==
    ASSUME Next, ret'.call = "set"
    PROVE  \E p \in Procs, k \in Keys :
             \/ \E doc \in Fresh : Set(p, k, doc)
             \/ SetOutOfMemory(p, k)
<1>1. ASSUME Tick PROVE FALSE
    BY <1>1 DEF Tick, Idle
<1>2. ASSUME NEW p \in Procs, Create(p) \/ Gone(p) \/ Clear(p) \/ ClearFails(p) PROVE FALSE
    BY <1>2 DEF Create, Gone, Clear, ClearFails, Cleared, Idle
<1>3. ASSUME NEW p \in Procs,
             Destroy(p) \/ KilledInClear(p) \/ \E k \in Keys : KilledInSet(p, k)
      PROVE  Gone(p)
    BY <1>3 DEF Destroy, KilledInClear, KilledInSet
<1>4. ASSUME NEW p \in Procs, NEW k \in Keys, Get(p, k) PROVE FALSE
    <2>1. PICK json : ret' = Got(p, k, json)
        BY <1>4 DEF Get, GetHit, GetFileGone, GetExpired, GetFromDisk, GetMiss,
                    GetOutOfMemory, Serve, Miss
    <2> QED BY <2>1 DEF Got
<1> QED BY <1>1, <1>2, <1>3, <1>4 DEF Next

LimitStep ==
    \A p \in Procs : ret'.call = "set" /\ ret'.proc = p
      => Len(entries'[p]) <= Newest(MaxEntries, Len(entries[p]))

LEMMA SetLimit ==
    ASSUME IInv, Next
    PROVE  LimitStep
<1> SUFFICES ASSUME NEW p \in Procs, ret'.call = "set", ret'.proc = p
             PROVE  Len(entries'[p]) <= Newest(MaxEntries, Len(entries[p]))
    BY DEF LimitStep
<1>1. PICK q \in Procs, k \in Keys :
         (\E doc \in Fresh : Set(q, k, doc)) \/ SetOutOfMemory(q, k)
    BY OnlySetReturnsSet
<1>2. q = p
    <2>1. \E ok \in BOOLEAN : ret' = Stored(q, k, ok)
        BY <1>1 DEF Set, SetOutOfMemory
    <2> QED BY <2>1 DEF Stored
<1> DEFINE es   == entries[p]
           rest == Without(es, k)
<1>3. es \in Seq(Entry) /\ Len(es) \in Nat /\ MaxEntries \in Nat \ {0}
    BY LenProperties, MaxEntriesAssumption DEF IInv, TypeOK
<1>4. /\ rest \in Seq(Entry)
      /\ Len(rest) \in Nat
      /\ Len(rest) <= Len(es)
      /\ Evicted(rest) \in Seq(Entry)
      /\ Len(Evicted(rest)) = IF Len(rest) >= MaxEntries THEN Len(rest) - 1 ELSE Len(rest)
    <2>1. /\ rest \in Seq(Entry)
          /\ Len(rest) = IF Has(es, k) THEN Len(es) - 1 ELSE Len(es)
          /\ Evicted(rest) \in Seq(Entry)
          /\ Len(Evicted(rest)) = IF Full(rest) THEN Len(rest) - 1 ELSE Len(rest)
        BY <1>3, RoomLength
    <2>2. Len(rest) \in Nat
        BY <2>1, LenProperties
    <2> QED BY <2>1, <2>2, <1>3 DEF Full
<1>5. CASE SetOutOfMemory(p, k)
    <2>1. entries'[p] = Evicted(rest)
        BY <1>5 DEF SetOutOfMemory, IInv, TypeOK
    <2> HIDE DEF es, rest
    <2>2. Len(Evicted(rest)) <= Newest(MaxEntries, Len(es))
        BY <1>3, <1>4 DEF Newest
    <2> QED BY <2>1, <2>2 DEF es
<1>6. ASSUME NEW doc \in Fresh, Set(p, k, doc)
      PROVE  Len(entries'[p]) <= Newest(MaxEntries, Len(entries[p]))
    <2> DEFINE e == [key |-> k, json |-> doc, created |-> now]
    <2>1. entries'[p] = Append(Evicted(rest), e) /\ e \in Entry
        BY <1>6 DEF Set, IInv, TypeOK, Entry, Doc, Fresh
    <2> HIDE DEF es, rest, e
    <2>2. Len(Append(Evicted(rest), e)) = Len(Evicted(rest)) + 1
        BY <1>4, <2>1, AppendProperties
    <2>3. Len(Evicted(rest)) + 1 <= Newest(MaxEntries, Len(es))
        BY <1>3, <1>4 DEF Newest
    <2> QED BY <2>1, <2>2, <2>3 DEF es
<1> QED BY <1>1, <1>2, <1>5, <1>6

\* However long loads from disk have made a list, a set leaves it within
\* max_entries or no longer than it found it, in success and in failure.
THEOREM SetWithinLimit == Spec => SetRespectsLimit
<1>1. IInv /\ [Next]_vars => [LimitStep]_vars
    BY SetLimit
<1> QED BY <1>1, Invariance, PTL DEF Spec, SetRespectsLimit, LimitStep

ReplaceStep ==
    \A p \in Procs, k \in Keys :
      /\ ret' = Stored(p, k, TRUE)
      /\ Has(entries[p], k)
      /\ Len(entries[p]) <= MaxEntries
      => \A j \in Keys \ {k} :
           /\ Has(entries'[p], j) = Has(entries[p], j)
           /\ files'[j] = files[j]

\* The step of a set that returns a success, seen from its arguments.
LEMMA SetOfReturn ==
    ASSUME Next, NEW p \in Procs, NEW k \in Keys, ret' = Stored(p, k, TRUE)
    PROVE  \E doc \in Fresh : Set(p, k, doc)
<1>1. ret'.call = "set"
    BY DEF Stored
<1>2. PICK q \in Procs, j \in Keys :
         (\E doc \in Fresh : Set(q, j, doc)) \/ SetOutOfMemory(q, j)
    BY <1>1, OnlySetReturnsSet
<1>3. ~SetOutOfMemory(q, j)
    BY DEF SetOutOfMemory, Stored
<1>4. PICK doc \in Fresh : Set(q, j, doc)
    BY <1>2, <1>3
<1>5. q = p /\ j = k
    BY <1>4 DEF Set, Stored
<1> QED BY <1>4, <1>5

\* Replacing leaves room, so nothing is evicted and no file is deleted.
LEMMA SetReplaces ==
    ASSUME IInv, Next
    PROVE  ReplaceStep
<1> SUFFICES ASSUME NEW p \in Procs, NEW k \in Keys, ret' = Stored(p, k, TRUE),
                    Has(entries[p], k), Len(entries[p]) <= MaxEntries,
                    NEW j \in Keys, j # k
             PROVE  Has(entries'[p], j) = Has(entries[p], j) /\ files'[j] = files[j]
    BY DEF ReplaceStep
<1>1. PICK doc \in Fresh : Set(p, k, doc)
    BY SetOfReturn
<1> DEFINE rest == Without(entries[p], k)
           e    == [key |-> k, json |-> doc, created |-> now]
           es   == Append(Evicted(rest), e)
<1>2. /\ entries[p] \in Seq(Entry) /\ Len(entries[p]) \in Nat
      /\ MaxEntries \in Nat
      /\ e \in Entry /\ e.key = k /\ doc \in Doc /\ now \in Nat
      /\ files \in [Keys -> File \cup {None}]
    BY LenProperties, MaxEntriesAssumption DEF IInv, TypeOK, Entry, Doc, Fresh
<1>3. Victims(rest) = {}
    <2>1. Len(rest) = Len(entries[p]) - 1
        BY <1>2, RoomLength
    <2> HIDE DEF rest
    <2> QED BY <2>1, <1>2 DEF Victims, Full
<1>4. /\ es \in Seq(Entry)
      /\ Elems(es) = {e} \cup {x \in Elems(entries[p]) : x.key # k /\ x.key \notin Victims(rest)}
    BY <1>2, StoreFacts DEF IInv
<1>5. entries'[p] = es
    BY <1>1 DEF Set, IInv, TypeOK
<1>6. PICK fs \in Deletions(files, Victims(rest)) : files' \in Saves(fs, k, doc)
    BY <1>1 DEF Set
<1> HIDE DEF es, rest, e
<1>7. Has(es, j) <=> Has(entries[p], j)
    <2>1. Has(es, j) <=> \E x \in Elems(es) : x.key = j
        BY <1>4, ElemsFacts
    <2>2. Has(entries[p], j) <=> \E x \in Elems(entries[p]) : x.key = j
        BY <1>2, ElemsFacts
    <2>3. \A x : x.key = j => (x \in Elems(es) <=> x \in Elems(entries[p]))
        BY <1>2, <1>3, <1>4
    <2> QED BY <2>1, <2>2, <2>3
<1>8. files'[j] = files[j]
    <2>1. fs \in [Keys -> File \cup {None}] /\ fs[j] = files[j]
        BY <1>2, <1>3, <1>6 DEF Deletions, Unlinks
    <2>2. \A i \in Keys : i # k => files'[i] = fs[i]
        BY <1>6, <2>1 DEF Saves
    <2> QED BY <2>1, <2>2
<1>9. Has(es, j) \in BOOLEAN /\ Has(entries[p], j) \in BOOLEAN
    BY DEF Has
<1> QED BY <1>5, <1>7, <1>8, <1>9

\* Storing a listed key never costs another key its entry or its file in a
\* list within its limit, whatever fails.
THEOREM ReplaceIsLocal == Spec => ReplaceKeepsOthers
<1>1. IInv /\ [Next]_vars => [ReplaceStep]_vars
    BY SetReplaces
<1> QED BY <1>1, Invariance, PTL DEF Spec, ReplaceKeepsOthers, ReplaceStep

EvictStep ==
    \A p \in Procs, k \in Keys :
      ret' = Stored(p, k, TRUE)
      => \A gone, kept \in {entries[p][i] : i \in DOMAIN entries[p]} :
           /\ gone.key # k /\ ~Has(entries'[p], gone.key)
           /\ kept.key # k /\ Has(entries'[p], kept.key)
           => gone.created <= kept.created

\* What goes, apart from the key's old entry, is the oldest of the rest.
LEMMA SetEvicts ==
    ASSUME IInv, Next
    PROVE  EvictStep
<1> SUFFICES ASSUME NEW p \in Procs, NEW k \in Keys, ret' = Stored(p, k, TRUE),
                    NEW gone \in Elems(entries[p]), NEW kept \in Elems(entries[p]),
                    gone.key # k, ~Has(entries'[p], gone.key), kept.key # k
             PROVE  gone.created <= kept.created
    BY DEF EvictStep, Elems
<1>1. PICK doc \in Fresh : Set(p, k, doc)
    BY SetOfReturn
<1> DEFINE rest == Without(entries[p], k)
           e    == [key |-> k, json |-> doc, created |-> now]
           es   == Append(Evicted(rest), e)
<1>2. entries[p] \in Seq(Entry) /\ e \in Entry /\ e.key = k
    BY DEF IInv, TypeOK, Entry, Doc, Fresh
<1>3. /\ es \in Seq(Entry)
      /\ Elems(es) = {e} \cup {x \in Elems(entries[p]) : x.key # k /\ x.key \notin Victims(rest)}
    BY <1>2, StoreFacts DEF IInv
<1>4. /\ rest \in Seq(Entry) /\ Unique(rest)
      /\ Elems(rest) = {x \in Elems(entries[p]) : x.key # k}
    BY DropFacts DEF IInv
<1>5. entries'[p] = es
    BY <1>1 DEF Set, IInv, TypeOK
<1> HIDE DEF es, rest
<1>6. gone.key \in Victims(rest)
    BY <1>3, <1>5, ElemsFacts
<1>7. Full(rest) /\ gone.key = rest[Oldest(rest)].key
    BY <1>6 DEF Victims
<1>8. Len(rest) # 0
    BY <1>7, <1>4, LenProperties, MaxEntriesAssumption DEF Full
<1>9. rest[Oldest(rest)] = gone
    <2>1. Oldest(rest) \in DOMAIN rest /\ gone \in Elems(rest)
        BY <1>4, <1>8, OldestFacts, ElemsFacts
    <2> QED BY <2>1, <1>4, <1>7 DEF Unique, Elems
<1> QED BY <1>4, <1>8, <1>9, OldestIsOldest

\* For every limit, what a set evicts was created no later than anything it
\* keeps.
THEOREM EvictionIsOldestFirst == Spec => EvictsOldest
<1>1. IInv /\ [Next]_vars => [EvictStep]_vars
    BY SetEvicts
<1> QED BY <1>1, Invariance, PTL DEF Spec, EvictsOldest, EvictStep

=============================================================================
