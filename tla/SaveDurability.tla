--------------------------- MODULE SaveDurability ---------------------------
(***************************************************************************)
(* One Store::save at a time (Store.tla shows the flock provides that),    *)
(* down to the system calls that decide what survives: content blobs and   *)
(* the generation file each go through a temp file, fsync and rename; then *)
(* the store directory is fsynced and old generations are unlinked.        *)
(*                                                                         *)
(* A file system keeps what a process sees apart from what a power loss    *)
(* leaves.  Data written and not fsynced may be lost; a directory entry    *)
(* made or removed since its directory was last fsynced may or may not be  *)
(* there afterwards, each independently of the others.  That is what POSIX *)
(* grants; file systems with one ordered journal grant more.               *)
(***************************************************************************)
EXTENDS Integers, FiniteSetsExt

CONSTANTS
    LastId,             \* bound: the greatest generation id
    Blobs,              \* the distinct pane contents a snapshot may hold
    Keep,               \* keep_untagged
    Nothing             \* no temp file

ASSUME DurabilityAssumption ==
    LastId \in Nat /\ Keep \in Nat \ {0} /\ Blobs \cap (1 .. LastId) = {}

Ids == 1..LastId
Names == Ids \cup Blobs     \* a file is named by its id or its content's hash

VARIABLES
    names,      \* directory entries as processes see them
    persisted,  \* the entries a power loss is sure to leave
    unsynced,   \* visible files whose data was never fsynced
    torn,       \* visible files whose data a power loss destroyed
    refs,       \* the blobs each generation file names
    stage,      \* how far the running save has come
    temp,       \* the temp file it is writing, and whether it is fsynced
    todo,       \* the blobs it has still to put
    returned,   \* the generation the last save to return Ok made, 0 if none
    lost,       \* whether the machine ever lost power
    refused     \* whether the store directory ever refused to be fsynced

past == <<lost, refused>>
vars == <<names, persisted, unsynced, torn, refs, stage, temp, todo, returned, past>>

Generations == names \cap Ids

TempFiles == [name : Names, synced : BOOLEAN] \cup {Nothing}

TypeOK ==
    /\ names \in SUBSET Names /\ persisted \in SUBSET Names
    /\ unsynced \in SUBSET names /\ torn \in SUBSET names
    /\ refs \in [Ids -> SUBSET Blobs]
    /\ stage \in {"idle", "writing", "published", "pruning"}
    /\ temp \in TempFiles
    /\ todo \in SUBSET Blobs
    /\ returned \in {0} \cup Ids
    /\ lost \in BOOLEAN /\ refused \in BOOLEAN

Init ==
    /\ names = {} /\ persisted = {} /\ unsynced = {} /\ torn = {}
    /\ refs = [id \in Ids |-> {}]
    /\ stage = "idle" /\ temp = Nothing /\ todo = {}
    /\ returned = 0
    /\ lost = FALSE /\ refused = FALSE

-----------------------------------------------------------------------------
\* The next id; captures here never run ahead of the ids.
NextId == Max({0} \cup Generations) + 1

\* Mutant: `above_newest` is computed without checking.
UncheckedAdd == TRUE

IdIsLeft == NextId \in Ids

Save(needed) ==
    /\ stage = "idle" /\ IdIsLeft
    /\ stage' = "writing"
    /\ todo' = needed
    /\ refs' = [id \in Ids \cup {NextId} |->
                    IF id = NextId THEN needed ELSE refs[id]]
    /\ UNCHANGED <<names, persisted, unsynced, torn, temp, returned, past>>

\* `next_generation_id` refuses when no id is left.
NoIdLeft ==
    /\ stage = "idle" /\ ~ IdIsLeft
    /\ UNCHANGED vars

\* BlobStore::put when `path.exists()`: whatever is there is taken for it.
PutKnown ==
    /\ stage = "writing" /\ temp = Nothing
    /\ todo \cap names # {}
    /\ todo' = todo \ names
    /\ UNCHANGED <<names, persisted, unsynced, torn, refs, stage, temp, returned, past>>

\* Mutant: the generation file does not wait for its blobs.
ReadyAtOnce(name) == name \in {NextId} \cup (todo \ names)

\* The generation file is encoded once every blob it names has been put.
ReadyToWrite(name) ==
    name \in IF todo = {} THEN {NextId} ELSE todo \ names

WriteTemp(name) ==
    /\ stage = "writing" /\ temp = Nothing
    /\ ReadyToWrite(name)
    /\ temp' = [name |-> name, synced |-> FALSE]
    /\ UNCHANGED <<names, persisted, unsynced, torn, refs, stage, todo, returned, past>>

SyncTemp ==
    /\ temp # Nothing /\ ~ temp.synced
    /\ temp' = [temp EXCEPT !.synced = TRUE]
    /\ UNCHANGED <<names, persisted, unsynced, torn, refs, stage, todo, returned, past>>

\* Mutant: the rename does not wait for the fsync.
WrittenIsEnough == temp # Nothing

TempIsSafe == temp # Nothing /\ temp.synced

RenameTemp ==
    /\ TempIsSafe
    /\ names' = names \cup {temp.name}
    /\ unsynced' = IF temp.synced THEN unsynced \ {temp.name}
                                  ELSE unsynced \cup {temp.name}
    /\ torn' = torn \ {temp.name}
    /\ stage' = IF temp.name \in Ids THEN "published" ELSE stage
    /\ todo' = todo \ {temp.name}
    /\ temp' = Nothing
    /\ UNCHANGED <<persisted, refs, returned, past>>

\* Mutant: the directory is not fsynced.
DirectoryLeft == persisted' = persisted

\* Only the store directory is fsynced, never the blobs directory.
DirectorySynced == persisted' = (persisted \ Ids) \cup Generations

SyncDir ==
    /\ stage = "published"
    /\ \/ DirectorySynced /\ UNCHANGED refused
       \/ UNCHANGED persisted /\ refused' = TRUE
    /\ stage' = "pruning"
    /\ UNCHANGED <<names, unsynced, torn, refs, temp, todo, returned, lost>>

Doomed == {g \in Generations : Cardinality({h \in Generations : g < h}) >= Keep}

Prune ==
    /\ stage = "pruning"
    /\ \E g \in Doomed :
          /\ names' = names \ {g}
          /\ unsynced' = unsynced \ {g}
          /\ torn' = torn \ {g}
    /\ UNCHANGED <<persisted, refs, stage, temp, todo, returned, past>>

Saved ==
    /\ stage = "pruning" /\ Doomed = {}
    /\ stage' = "idle"
    /\ returned' = Max(Generations)
    /\ UNCHANGED <<names, persisted, unsynced, torn, refs, temp, todo, past>>

\* The process dies, or an I/O error ends the call; a temp file stays behind
\* and is never a generation or a blob.
Abandon ==
    /\ stage # "idle"
    /\ stage' = "idle" /\ temp' = Nothing /\ todo' = {}
    /\ UNCHANGED <<names, persisted, unsynced, torn, refs, returned, past>>

PowerLoss ==
    /\ \E uncertain \in SUBSET ((names \ persisted) \cup (persisted \ names)),
          gone \in SUBSET unsynced :
          /\ names' = (names \cap persisted) \cup uncertain
          /\ torn' = (torn \cup gone) \cap names'
    /\ persisted' = names'
    /\ unsynced' = {}
    /\ stage' = "idle" /\ temp' = Nothing /\ todo' = {}
    /\ lost' = TRUE
    /\ UNCHANGED <<refs, returned, refused>>

Next ==
    \/ \E needed \in SUBSET Blobs : Save(needed)
    \/ NoIdLeft
    \/ PutKnown
    \/ \E name \in Names : WriteTemp(name)
    \/ SyncTemp \/ RenameTemp \/ SyncDir \/ Prune \/ Saved
    \/ Abandon \/ PowerLoss

Spec == Init /\ [][Next]_vars

-----------------------------------------------------------------------------
\* No file a process can see is ever found half written, power losses
\* included: temp file, fsync and rename come in that order for generations
\* and for blobs, so `path.exists()` never takes a torn blob for stored.
NothingTorn == torn = {}

\* Short of a power loss a visible generation's blobs are visible: a reader
\* never meets BlobNotFound, however many saves died between putting blobs and
\* renaming.
NothingDangles == ~ lost => \A g \in Generations : refs[g] \subseteq names

\* Where directories can be fsynced, once a save has returned its generation
\* or a newer one is there for good: the directory is fsynced before anything
\* older is unlinked.
SavedIsKept ==
    ~ refused /\ returned # 0 => \E g \in Generations : returned <= g

\* A generation whose save has returned and that can be read whole can be
\* until it is pruned.  store.rs says so of any crash; a power loss may take
\* the directory entry of a blob and leave the generation that names it.
Complete(g) == g \notin torn /\ refs[g] \subseteq names \ torn

CompleteStaysComplete ==
    [][\A g \in Generations \cap Generations' :
          g <= returned /\ Complete(g) => Complete(g)']_vars
=============================================================================
