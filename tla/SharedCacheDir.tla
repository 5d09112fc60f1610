--------------------------- MODULE SharedCacheDir ---------------------------
(***************************************************************************)
(* The client's cache at the level of its file calls                       *)
(* (src/src/utils/client_cache.c): a call of the API is several steps, one *)
(* for each file call on the shared directory, and the steps of different  *)
(* processes interleave.  Nothing locks the directory.                     *)
(*                                                                         *)
(* CallsAlone shows that a call which nothing interrupts is the step that  *)
(* ClientCache makes of it.                                                *)
(***************************************************************************)
EXTENDS ClientCache

CONSTANTS
    MaxBusy,  \* bound: calls under way at a time
    MaxCall   \* the ticks that a call may take

ASSUME CallsAssumption == MaxBusy \in Nat \ {0} /\ MaxCall \in Nat

\* What fails here: fopen, a write, a kill, the opendir of a clear.  Failing
\* allocations and unlinks are in ClientCache.
ASSUME FileCallsAssumption == Faults \cap {"alloc", "unlink"} = {}

VARIABLES
    step,  \* step[p]: what p does next, "idle" between calls
    arg,   \* arg[p]: the key, the document and the start of p's call
    todo,  \* todo[p]: the keys whose file a clear by p has still to remove
    late   \* history: documents whose set overlapped another set or a clear

callVars == <<step, arg, todo, late>>
dirVars  == <<vars, callVars>>

\* A set is about to open its file ("save") or has it open: empty ("write"),
\* written meanwhile by another ("overwrite"), or unlinked ("lost").
InDirectory == {"write", "overwrite"}
Setting     == {"save", "lost"} \cup InDirectory
Loading     == {"read", "unlink"}
Clearing    == {"own", "scan"}

NoArg == [key |-> None, doc |-> None, begun |-> 0]

DirInit ==
    /\ Init
    /\ step = [p \in Procs |-> "idle"]
    /\ arg = [p \in Procs |-> NoArg]
    /\ todo = [p \in Procs |-> {}]
    /\ late = {}

Busy == {p \in Procs : step[p] # "idle"}

MayStart(p) ==
    /\ p \in up
    /\ step[p] = "idle"
    /\ Cardinality(Busy) < MaxBusy

Start(p, k, doc) == arg' = [arg EXCEPT ![p] = [key |-> k, doc |-> doc, begun |-> now]]
Return(p)        == arg' = [arg EXCEPT ![p] = NoArg]

\* The documents of overlapping sets when p starts to set or to clear.
Overlapping(p, docs) ==
    LET others == {q \in Procs \ {p} : step[q] \in Setting}
    IN  IF docs = {} \/ \E q \in Procs \ {p} : step[q] \in Setting \cup Clearing
          THEN docs \cup {arg[q].doc : q \in others}
          ELSE {}

-----------------------------------------------------------------------------
(* File calls.  A descriptor is on the file, not on its name.              *)

\* p goes on to next; whoever has the file of a key in ks open is at mark.
Goto(p, next, ks, mark) ==
    step' = [q \in Procs |->
        IF q = p THEN next
        ELSE IF step[q] \in InDirectory /\ arg[q].key \in ks THEN mark
        ELSE step[q]]

Unlink(p, next, ks) ==
    /\ files' = [k \in Keys |-> IF k \in ks THEN None ELSE files[k]]
    /\ Goto(p, next, ks, "lost")

\* fopen(path, "w")
Truncate(p, next, k) ==
    /\ files' = [files EXCEPT ![k] = Torn]
    /\ Goto(p, next, {k}, "write")

\* What the file holds when p has written: over a longer document that
\* another wrote meanwhile, nothing that parses.
Written(p) ==
    {arg[p].doc}
      \cup (IF step[p] = "overwrite" \/ "torn" \in Faults THEN {None} ELSE {})

\* fwrite and fclose
Write(p, next, k) ==
    \/ /\ step[p] \in InDirectory
       /\ \E json \in Written(p) : files' = [files EXCEPT ![k] = [json |-> json, mtime |-> now]]
       /\ Goto(p, next, {k}, "overwrite")
    \/ /\ step[p] = "lost"
       /\ Goto(p, next, {}, "lost")
       /\ UNCHANGED files

-----------------------------------------------------------------------------
(* client_cache_set                                                        *)

SetEvictsFirstStep(p, k, doc) ==
    /\ MayStart(p)
    /\ LET rest == Evicted(entries[p])
       IN  /\ entries' = [entries EXCEPT ![p] =
                 Append(Without(rest, k), [key |-> k, json |-> doc, created |-> now])]
           /\ Unlink(p, "save", Victims(entries[p]))
    /\ Start(p, k, doc)
    /\ late' = late \cup Overlapping(p, {doc})
    /\ UNCHANGED <<now, clears, up, seen, since, spared, ret, todo>>

\* Up to save_to_file: the list is changed, the victim's file is gone.
SetStart(p, k, doc) ==
    /\ MayStart(p)
    /\ LET rest == Without(entries[p], k)
       IN  /\ entries' = [entries EXCEPT ![p] =
                 Append(Evicted(rest), [key |-> k, json |-> doc, created |-> now])]
           /\ Unlink(p, "save", Victims(rest))
    /\ Start(p, k, doc)
    /\ late' = late \cup Overlapping(p, {doc})
    /\ UNCHANGED <<now, clears, up, seen, since, spared, ret, todo>>

SetOpens(p) ==
    /\ step[p] = "save"
    /\ Truncate(p, "write", arg[p].key)
    /\ UNCHANGED <<now, clears, up, entries, seen, since, spared, ret, arg, todo, late>>

SetTakesItBack(p) ==
    /\ \/ Write(p, "idle", arg[p].key) /\ UNCHANGED entries
       \/ /\ step[p] = "save"
          /\ "save" \in Faults
          /\ Goto(p, "idle", {}, "lost")
          /\ entries' = [entries EXCEPT ![p] = Without(@, arg[p].key)]
          /\ UNCHANGED files
    /\ seen' = [seen EXCEPT ![p][arg[p].key] = arg[p].doc.at]
    /\ ret' = Stored(p, arg[p].key, TRUE)
    /\ Return(p)
    /\ UNCHANGED <<now, clears, up, since, spared, todo, late>>

\* It returns 0, whatever save_to_file could do.
SetReturns(p) ==
    /\ \/ Write(p, "idle", arg[p].key)
       \/ /\ step[p] = "save"
          /\ "save" \in Faults
          /\ Goto(p, "idle", {}, "lost")
          /\ UNCHANGED files
    /\ seen' = [seen EXCEPT ![p][arg[p].key] = arg[p].doc.at]
    /\ ret' = Stored(p, arg[p].key, TRUE)
    /\ Return(p)
    /\ UNCHANGED <<now, clears, up, entries, since, spared, todo, late>>

-----------------------------------------------------------------------------
(* client_cache_get                                                        *)

\* The key has an entry: one file call at most.
GetListed(p, k) ==
    /\ MayStart(p)
    /\ \/ GetHit(p, k) /\ UNCHANGED step
       \/ GetFileGone(p, k) /\ UNCHANGED step
       \/ GetExpired(p, k) /\ Goto(p, "idle", {k}, "lost")
    /\ UNCHANGED <<now, clears, up, since, spared, arg, todo, late>>

Usable(k) == files[k] # None /\ ~Expired(files[k].mtime)

\* load_from_file: the stat of is_cache_file_valid, without which there is
\* no load.  A file that is missing is unlinked too.
LoadStat(p, k) ==
    /\ MayStart(p)
    /\ ~Has(entries[p], k)
    /\ Goto(p, IF Usable(k) THEN "read" ELSE "unlink", {}, "lost")
    /\ Start(p, k, None)
    /\ UNCHANGED <<vars, todo, late>>

\* The unlink takes whatever the name stands for by now.
LoadUnlinks(p) ==
    /\ step[p] = "unlink"
    /\ Unlink(p, "idle", {arg[p].key})
    /\ Miss(p, arg[p].key)
    /\ Return(p)
    /\ UNCHANGED <<now, clears, up, entries, since, spared, todo, late>>

\* json_load_file reads what the name stands for by now.
LoadReads(p) ==
    /\ step[p] = "read"
    /\ LET k == arg[p].key
       IN  IF files[k] # None /\ files[k].json # None
             THEN /\ entries' = [entries EXCEPT ![p] =
                        Append(@, [key |-> k, json |-> files[k].json, created |-> now])]
                  /\ Serve(p, k, files[k].json)
             ELSE Miss(p, k) /\ UNCHANGED entries
    /\ Goto(p, "idle", {}, "lost")
    /\ Return(p)
    /\ UNCHANGED <<now, clears, up, files, since, spared, todo, late>>

-----------------------------------------------------------------------------
(* client_cache_clear                                                      *)

ClearStart(p) ==
    /\ MayStart(p)
    /\ clears + Cardinality({q \in Procs : step[q] \in Clearing}) < MaxClears
    /\ todo' = [todo EXCEPT ![p] = Listed(p)]
    /\ Goto(p, "own", {}, "lost")
    /\ Start(p, None, None)
    /\ late' = late \cup Overlapping(p, {})
    /\ UNCHANGED vars

\* The files of the list go one by one.
ClearOwn(p, k) ==
    /\ step[p] = "own"
    /\ k \in todo[p]
    /\ Unlink(p, "own", {k})
    /\ todo' = [todo EXCEPT ![p] = @ \ {k}]
    /\ UNCHANGED <<now, clears, up, entries, seen, since, spared, ret, arg, late>>

ClearDone(p) ==
    /\ Goto(p, "idle", {}, "lost")
    /\ clears' = clears + 1
    /\ since' = [since EXCEPT ![p] = clears + 1]
    /\ ret' = [call |-> "clear", proc |-> p]
    /\ Return(p)

ClearScansAndIdles(p) ==
    /\ step[p] = "own"
    /\ todo[p] = {}
    /\ entries' = [entries EXCEPT ![p] = <<>>]
    /\ todo' = [todo EXCEPT ![p] = {k \in Keys : files[k] # None}]
    /\ Goto(p, "idle", {}, "lost")
    /\ UNCHANGED <<now, clears, up, files, seen, since, spared, ret, arg, late>>

ClearScansNothing(p) ==
    /\ step[p] = "own"
    /\ todo[p] = {}
    /\ entries' = [entries EXCEPT ![p] = <<>>]
    /\ Goto(p, "scan", {}, "lost")
    /\ UNCHANGED <<now, clears, up, files, seen, since, spared, ret, arg, todo, late>>

\* linked_list_clear and opendir: readdir will show every file there is.
ClearScans(p) ==
    /\ step[p] = "own"
    /\ todo[p] = {}
    /\ entries' = [entries EXCEPT ![p] = <<>>]
    /\ todo' = [todo EXCEPT ![p] = {k \in Keys : files[k] # None}]
    /\ Goto(p, "scan", {}, "lost")
    /\ UNCHANGED <<now, clears, up, files, seen, since, spared, ret, arg, late>>

\* opendir fails: only the files of the list have gone, and nobody is told.
ClearCannotScan(p) ==
    /\ "scan" \in Faults
    /\ step[p] = "own"
    /\ todo[p] = {}
    /\ entries' = [entries EXCEPT ![p] = <<>>]
    /\ spared' = spared \cup Documents(files)
    /\ ClearDone(p)
    /\ UNCHANGED <<now, up, files, seen, todo, late>>

\* readdir may also show a file made since, or show it too late.
ClearFile(p, k) ==
    /\ step[p] = "scan"
    /\ k \in todo[p] \/ files[k] # None
    /\ Unlink(p, "scan", {k})
    /\ todo' = [todo EXCEPT ![p] = @ \ {k}]
    /\ UNCHANGED <<now, clears, up, entries, seen, since, spared, ret, arg, late>>

ClearReturns(p) ==
    /\ step[p] = "scan"
    /\ todo[p] = {}
    /\ ClearDone(p)
    /\ UNCHANGED <<now, up, entries, files, seen, spared, todo, late>>

-----------------------------------------------------------------------------
DirCreate(p) == Create(p) /\ UNCHANGED callVars

\* A process ends, or is killed in the middle of a call: its descriptor is
\* closed, and the files stay as they are.
Ends(p) ==
    /\ p \in up
    /\ Gone(p)
    /\ Goto(p, "idle", {}, "lost")
    /\ Return(p)
    /\ todo' = [todo EXCEPT ![p] = {}]
    /\ UNCHANGED <<files, late>>

DirTick ==
    /\ \A p \in Busy : now < arg[p].begun + MaxCall
    /\ Tick
    /\ UNCHANGED callVars

DirNext ==
    \/ DirTick
    \/ \E p \in Procs :
         \/ DirCreate(p)
         \/ Ends(p)
         \/ SetOpens(p)
         \/ SetReturns(p)
         \/ LoadUnlinks(p)
         \/ LoadReads(p)
         \/ ClearStart(p)
         \/ ClearScans(p)
         \/ ClearCannotScan(p)
         \/ ClearReturns(p)
         \/ \E k \in Keys :
              \/ \E doc \in Fresh : SetStart(p, k, doc)
              \/ GetListed(p, k)
              \/ LoadStat(p, k)
              \/ ClearOwn(p, k)
              \/ ClearFile(p, k)

DirSpec == DirInit /\ [][DirNext]_dirVars

-----------------------------------------------------------------------------
(* Properties                                                              *)

\* Every variable has its type, and a call the arguments it needs.
DirTypeOK ==
    /\ TypeOK
    /\ step \in [Procs -> {"idle"} \cup Setting \cup Loading \cup Clearing]
    /\ arg \in [Procs -> [key : Keys \cup {None}, doc : Doc \cup {None}, begun : Nat]]
    /\ todo \in [Procs -> SUBSET Keys]
    /\ late \in SUBSET Doc
    /\ \A p \in Procs :
         /\ step[p] \in Setting => arg[p].doc # None
         /\ step[p] \in Setting \cup Loading => arg[p].key # None
         /\ step[p] \notin Clearing => todo[p] = {}

\* When calls overlap, a clear may leave files behind, but only of sets that
\* it overlapped, unless its opendir failed: the process that cleared, and
\* one started after the clear, see no other document from before.
ClearLeavesOnlyLate == Hit => ret.json.era >= since[ret.proc] \/ ret.json \in late \cup spared

\* When calls overlap, a process may be given an older document than it had
\* before, but only one whose set overlapped another set or a clear.
GoesBackOnlyToLate ==
    [][\A p \in Procs, k \in Keys :
         ret' # ret /\ ret'.call = "get" /\ ret'.proc = p /\ ret'.key = k /\ ret'.json # None
           => ret'.json.at >= seen[p][k] \/ ret'.json \in late]_dirVars

=============================================================================
