----------------------------- MODULE CallsAlone -----------------------------
(***************************************************************************)
(* A call of the cache that nothing interrupts is the one step that        *)
(* ClientCache makes of it: the file calls of SharedCacheDir, one call at  *)
(* a time and within a tick, implement ClientCache.  To the other          *)
(* processes the call happens when it returns, so the mapping shows the    *)
(* list and the files as they were when it began.                          *)
(***************************************************************************)
EXTENDS SharedCacheDir

ASSUME OneCallAssumption == MaxBusy = 1 /\ MaxCall = 0

\* A call may be killed while the file it has opened is empty.
ASSUME KilledAssumption == "torn" \in Faults

VARIABLE before  \* history: lists and files when the call under way began

aloneVars == <<dirVars, before>>

AloneInit == DirInit /\ before = None

AloneNext ==
    /\ DirNext
    /\ before' = IF Busy' = {} THEN None
                 ELSE IF Busy = {} THEN [entries |-> entries, files |-> files]
                 ELSE before

AloneSpec == AloneInit /\ [][AloneNext]_aloneVars

AbsEntries == [p \in Procs |-> IF p \in Busy THEN before.entries[p] ELSE entries[p]]
AbsFiles   == IF Busy = {} THEN files ELSE before.files

Atomic == INSTANCE ClientCache WITH entries <- AbsEntries, files <- AbsFiles

\* Whatever a call that nothing interrupts does in its file calls, with a
\* failed open, a torn write or a kill between any two of them, is what the
\* one step of ClientCache does.
ImplementsCache == Atomic!Spec

=============================================================================
