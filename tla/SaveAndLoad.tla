---------------------------- MODULE SaveAndLoad ----------------------------
(***************************************************************************)
(* `phoenix save` from end to end (phoenix-cli/src/commands.rs): the       *)
(* newest generation is decoded to learn what need not be captured again,  *)
(* a capture is taken, and the snapshot is encoded beside its texts.  The  *)
(* disk may damage what was written.  Store.tla and SaveDurability.tla     *)
(* model which file is the newest and how it comes to be there.            *)
(***************************************************************************)
EXTENDS Capture, FileFormat

VARIABLES
    file, blobs,    \* the newest generation, and what the blob directory holds
    loaded,         \* Some(what became of decoding it), once it was read
    saved,          \* Some(what the file was written from)
    damaged,        \* whether the disk has changed either since
    saves           \* how many saves began

disk == <<file, blobs, loaded, saved, damaged>>
vars == <<given, server, moves, capturing, disk, saves>>

\* The newest generation there may be is one of the old format, whole.
ASSUME FileAssumption ==
    \A scenario \in Scenarios :
        scenario.file # None =>
            /\ scenario.file = Some(EncodeFileV1(scenario.tree))
            /\ IsTree(scenario.tree)
            /\ \A text \in TextsOfTree(scenario.tree) :
                  text \in DOMAIN scenario.blobs /\ scenario.blobs[text] = "whole"

Init ==
    /\ InitCapture
    /\ file = given.file /\ blobs = given.blobs
    /\ loaded = None /\ saved = None /\ damaged = FALSE /\ saves = 0

\* Store::latest and Store::load: the newest generation, if there is one.
Load ==
    /\ stage = "idle" /\ file # None /\ loaded = None
    /\ loaded' = Some(DecodeFile(file[1], blobs))
    /\ UNCHANGED <<given, server, moves, capturing, file, blobs, saved, damaged,
                   saves>>

Latest == loaded[1]
IsReadable == loaded # None /\ Runs(Latest)

\* Previous::from_snapshot: the panes whose content was captured.
PreviousOf(s) ==
    LET kept == {p \in PanesOf(s) : p.content.is = "captured"}
        Content(i) == (CHOOSE p \in kept : p.id = i).content
    IN  [origin |-> s.origin,
         panes |-> [i \in {p.id : p \in kept} |->
                      [indicator |-> Content(i).indicator,
                       scrollback |-> Content(i).scrollback]]]

\* run_save: no generation, or one that cannot be read, is no Previous.
RunSave ==
    /\ saves < given.saves
    /\ file # None => loaded # None
    /\ saves' = saves + 1
    /\ Begin(IF IsReadable THEN PreviousOf(Latest.value) ELSE Nobody)
    /\ UNCHANGED disk

Idle ==
    /\ stage' = "idle" /\ link' = None /\ previous' = Nobody
    /\ looked' = None /\ rows' = <<>> /\ clients' = <<>>
    /\ touched' = None /\ id' = None
    /\ todo' = <<>> /\ pane' = Unread /\ reads' = <<>>
    /\ snapshot' = None /\ failure' = "none"
    /\ UNCHANGED <<given, server, moves, saves>>

\* A capture that failed, or that shows nothing but bootstrap sessions.
NotSaved ==
    /\ stage = "over"
    /\ snapshot # None => IsBootstrapOnly(snapshot[1])
    /\ Idle
    /\ UNCHANGED disk

\* BlobStore::put leaves a blob that is there as it is.
Publish ==
    /\ stage = "over" /\ snapshot # None /\ ~ IsBootstrapOnly(snapshot[1])
    /\ file' = Some(EncodeFile(snapshot[1], None))
    /\ blobs' = [text \in DOMAIN blobs \cup TextsOf(snapshot[1]) |->
                    IF text \in DOMAIN blobs THEN blobs[text] ELSE "whole"]
    /\ loaded' = None /\ saved' = snapshot /\ damaged' = FALSE
    /\ Idle

-----------------------------------------------------------------------------
(***************************************************************************)
(* What a disk may do to a file, and to a blob.                            *)
(***************************************************************************)
NoText == [server |-> 0, pane |-> 0, first |-> 0, last |-> 0, clears |-> 0,
           drawn |-> 0]

Damaged(fields) ==
    {SubSeq(fields, 1, n) : n \in 0 .. Len(fields) - 1}
    \cup {Append(fields, U8(0)[1])}
    \cup {[fields EXCEPT ![i] = Altered(@, by, NoText)] :
             i \in DOMAIN fields, by \in {-1, 1}}

Damage ==
    /\ May("damage")
    /\ stage = "idle" /\ file # None /\ ~ damaged
    /\ \/ /\ file' \in {Some(f) : f \in Damaged(file[1]) \ {file[1]}}
          /\ UNCHANGED blobs
       \/ /\ \E text \in DOMAIN blobs :
                \/ blobs' = [blobs EXCEPT ![text] = "cut"]
                \/ blobs' = [t \in DOMAIN blobs \ {text} |-> blobs[t]]
          /\ UNCHANGED file
    /\ damaged' = TRUE /\ loaded' = None
    /\ UNCHANGED <<server, saved, saves>>

Next ==
    \/ Load \/ RunSave \/ NotSaved \/ Publish
    \/ CaptureStep(saves) /\ UNCHANGED <<disk, saves>>
    \/ UserMoves /\ UNCHANGED <<disk, saves>>
    \/ Damage

Spec == Init /\ [][Next]_vars

-----------------------------------------------------------------------------
(***************************************************************************)
(* Properties.                                                             *)
(***************************************************************************)
TypeOK ==
    /\ given \in Scenarios
    /\ moves \in 0 .. given.moves /\ saves \in 0 .. given.saves
    /\ stage \in Stages
    /\ \A s \in Kept : IsSnapshot(s.windows, s.sessions, s.clients)
    /\ failure \in {"none", "Connection", "MalformedRow", "MalformedServerMark",
                    "Fold", "Snapshot"}
    /\ damaged \in BOOLEAN
    /\ \A text \in DOMAIN blobs : blobs[text] \in {"whole", "cut"}

\* Apart from what its header says, which no checksum covers.
SameBody(s, t) ==
    [s EXCEPT !.origin = None, !.captured_at = 0]
        = [t EXCEPT !.origin = None, !.captured_at = 0]

\* A generation reads back as the very snapshot it was saved from, whichever
\* format it has; one that the disk damaged is refused, or reads the same in
\* all but its header.  A blob that was cut is not written again, so it may
\* take a later generation with it.
ReadsBackAsSaved ==
    loaded # None =>
        /\ saved # None =>
              IF IsReadable
              THEN /\ SameBody(Latest.value, saved[1])
                   /\ damaged \/ Latest.value = saved[1]
              ELSE damaged \/ "cut" \in {blobs[t] : t \in TextsOf(saved[1])}
        /\ saved = None => IF IsReadable THEN IsTreeOf(given.tree, Latest.value)
                                         ELSE damaged
=============================================================================
