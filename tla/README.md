# tmux-phoenix in TLA+

tmux-phoenix saves what a tmux server holds (sessions, windows, panes, their
content and programs) as numbered generations in a directory, and restores the
newest one into a server that holds nothing of the user's. A daemon does both
beside the user; the `phoenix` command does them on request. This directory
models the parts of it whose correctness depends on the order of things.

Paths below are relative to the repository; line numbers are those of the
commit `PROJECT.json` maps definition by definition.

## 1. The system

| part | code | state | operations |
|---|---|---|---|
| store | `phoenix-store/src/store.rs` | a directory of generation files, a `.lock` file, `blobs/` | `save`, `latest`, `load`, `load_file`, `list`, prune inside `save` |
| blob store | `phoenix-store/src/blob_store.rs` | one file per distinct pane content | `put`, `get` |
| file format | `header.rs`, `codec*.rs`, `binary.rs`, `json.rs` of the store | none | encode, decode, header only |
| protocol | `tmux-control/src/protocol`, `client/demux.rs` | the block being read, the command awaited | lines to messages, messages to replies and events |
| connection | `tmux-control/src/client/connection.rs` | a tmux child, a reader thread, a channel of replies, an event sink, the state Live/Closed | `open`, `execute`, `close`, `Abort::abort` |
| client | `tmux-control/src/client/mod.rs` | codec, demux, settled replies, connection state; no thread | `connect`, `reconnect`, `execute`, `detach`, `close` |
| capture | `phoenix-capture` | none; several commands make one snapshot | `capture` |
| restore | `phoenix-restore/src/{plan,apply}.rs` | the plan, the ids tmux gave what it made | `plan` (pure), `apply` |
| daemon | `phoenix-daemon/src/{boot,daemon,debounce}.rs` | the decision made about a server, whether anything moved, when it last saved | survey, boot, run, save cycle, reconnect |
| cli | `phoenix-cli` | none | `save`, `list`, `show`, `restore`, `install` |

How they interact:

* Every process that saves (the daemon, `phoenix save`) goes through
  `Store::save`, which takes an exclusive `flock` on `.lock`. Readers take no
  lock: they list, read and list again, and start over when the two listings
  differ.
* A connection has three actors: the caller, the reader thread and whoever holds
  an `Abort`. The reader hands replies to the caller through a channel and
  notifications to a callback; a flag (`disposed`) and the reader's exit are all
  that connects them otherwise.
* The daemon surveys a server, decides, perhaps restores, attaches, runs until
  the link is lost, and starts over. What it decided about one incarnation of
  the server it carries (`Decided`) into the next boot. The notification
  callback tells `run` that something moved through one flag.
* tmux itself, its user and the file system act between any two steps.

### What is hard about it

`PROJECT.json` lists the hazards at their lines. In short:

* *Stale reads.* A save chooses an id, reads headers, publishes and prunes from
  listings taken at different moments; a reader's listing is old when it opens a
  file; a boot decides from a survey that is over when it acts; a plan is made
  from a capture and applied command by command.
* *Dying in the middle.* A save, a prune or a restore may stop after any system
  call or command, and power may be lost.
* *Correlation by position.* A reply belongs to the command sent before it and
  nothing else says so; the greeting block, stray blocks and endings share the
  channel.
* *Endings.* A link can end by tmux exiting, a read failing, an abort and a
  close at once, and two parties are told why.
* *Heuristics.* A session is the user's when it is not a bootstrap session (one
  window, one pane at a prompt), and a prompt running `git status` for an
  instant is no prompt.
* *Looking several times.* A capture is a dozen commands and reads of the kernel
  while the user works; what it keeps must still be one server at one moment.
* *Damage.* A file cut, lengthened or altered anywhere, or a blob gone, must be
  refused and never read as another server's state.
* *Time.* The debounce, the lock's deadline and the polls.

## 2. The modules

| module | what it is | code |
|---|---|---|
| `Generations` | abstract: what the store promises a reader | store.rs module doc, `read_consistent`'s doc |
| `GenerationFiles` | operators: ids, retention, what opening shows | store.rs, error.rs |
| `Store` | detailed: savers and readers at system-call steps | store.rs |
| `MCStore` | model values for `Store` | |
| `StoreProofs` | theorems about `Store` | |
| `DurabilityProofs` | theorems about `SaveDurability` | |
| `SaveDurability` | one save down to fsync and rename, power losses | store.rs, blob_store.rs |
| `Connection` | greeting, reader thread, execute, close, abort | connection.rs, connection_state.rs, spawn.rs |
| `ConnectionProofs` | theorems about `Connection` | |
| `ControlMode` | operators: the codec's blocks, line by line, and the demux | codec.rs, demux.rs, message.rs |
| `Client` | connect, reconnect, execute over `ControlMode` | client/mod.rs |
| `ClientProofs` | theorems about `Client` | |
| `Daemon` | survey, boot, run, reconnect beside a user | boot.rs, daemon.rs, debounce.rs, plan/apply by session |
| `DaemonProofs` | theorems about `Daemon` | |
| `RestorePlan` | operators: `plan` as a function of snapshot and capture | plan.rs |
| `Restore` | restorers applying plans command by command beside a user | apply.rs, commands.rs (cli), connection.rs |
| `MCRestore` | model values for `Restore` | |
| `RestoreProofs` | theorems about `Plan` and `Restore` | |
| `SnapshotGraph` | operators: the validated graph, bootstrap rule, degradations | snapshot.rs, program.rs, content.rs of phoenix-core |
| `Listing` | operators: tmux's listings, the rows and the fold | row.rs, fold.rs |
| `Capture` | one capture, command by command, beside a user | capture.rs, process.rs, content.rs of phoenix-capture |
| `FileFormat` | operators: what is written and read, field by field | header.rs, codec.rs, codec_v1.rs, binary.rs |
| `FormatProofs` | theorems about `FileFormat` | |
| `SaveAndLoad` | `phoenix save` end to end, and a disk that damages | commands.rs (cli), content.rs |
| `MCSaveAndLoad` | the scenarios for `SaveAndLoad` | |
| `CaptureProofs` | theorems about `Listing`, `Capture` and `SaveAndLoad` | |

`Store` uses `GenerationFiles` and implements `Generations` (`Promise`, an
`INSTANCE` with its refinement mapping); `Client` extends `ControlMode`;
`Restore` extends `RestorePlan`; `Capture` extends `Listing`, which like
`FileFormat` extends `SnapshotGraph`; `SaveAndLoad` composes `Capture` and
`FileFormat`. `Daemon` takes the store as one
value, which `ReadsAreAtomic` justifies, and a restore session by session, where
`Restore` has it window by window on one incarnation of the server.

### Store, Generations

`directory` is the store directory: each generation file with its tags, its time
and whether it can be read (whole, header only, nothing). `saving` holds for
every saver how far `Store::save` has come and what it has read so far: the
request, the id chosen, the untagged generations it found. `looking` holds the
same of readers. The flock is a variable of its own and is released by the
kernel when its holder dies (`Abandon`).

One action is one system call that another process can see between: taking the
lock, listing the directory and reading headers (`Prepare`; the other savers are
held out by the lock, and what readers do changes nothing), the rename
(`Publish`), each `unlink` of the prune (`PruneOne`), each listing and each open
of a read. `Save` of a damaged or foreign file is not an operation; such files
are in the initial directories.

`Generations` has three actions on the directory: a generation appears, one
disappears, a read is answered as if it looked once. `Store` implements it with
the identity mapping (`ReadsAreAtomic`).

Abstractions: a directory listing is one step (POSIX lets a listing miss or
repeat an entry that changes under it; no property here would survive that, and
the code relies on it not happening); waiting for the lock is a failed
`try_lock` at any moment the lock is held (`Contended`), as the deadline may be
zero; contents are not modelled.

### SaveDurability

A file system keeps what processes see (`names`) apart from what a power loss is
sure to leave (`persisted`, `unsynced`), with POSIX's guarantees only: data is
durable after `fsync` of the file, an entry after `fsync` of its directory, and
entries that are not may survive each independently. A save puts its blobs one
by one, writes, fsyncs and renames, fsyncs the store directory and prunes. It
may die, or power may be lost, at every step. A directory that refuses `fsync`
is ignored by the code (`store.rs:189-194`) and here.

`lost` and `refused` are history variables: they record whether power was ever
lost and an fsync ever refused, so that each property says under which
conditions it holds and one run covers them all.

### Connection

tmux writes messages; a message is named by its position in `emitted`, so a
reply carries the position of the block it came from and a property can ask
whose it was. The reader thread is `Deliver`/`ReadEof`/`ReadFails`, `Classify`
(reading the flag once, after the read side has ended), `Report`, `TellSink` —
each an action, since the caller and an aborter run between them. The caller's
`execute` is `Execute`, the idle check, the write, and the wait for a reply;
`close` is `Drain` until the channel is empty, the flag, dropping the writer and
joining. An aborter raises
the flag and kills, in two steps. `Greet` takes the greeting block on the
caller's thread before the reader starts and keeps what came with it.

Left out: a reader thread that panics, a sink that never returns, writes that
block, and `open` trying attach before `new-session` (that retry is in
`Daemon`).

### ControlMode, Client

tmux writes lines; `written` has all of them with what each was written for
(`is`, `of`, `link`), which only properties look at, and how it `looks`, which is
all the codec goes by. Kinds of lines the code treats alike are one look: a
notification, pane output included, is "event"; a terminator that does not parse
is "broken". A chunk is any number of whole lines and perhaps the beginning of the
next (`half`). `AfterLine`, `ReplyOf` and `IsEvent` say what `process_line` and
`Demux::route` make of one line. `ReadLine` takes one line of a chunk: `more` says
that the same chunk holds another whole line, and the chunk may end anywhere behind
the last. `ReadPart` is a chunk that completes no line. `next_reply` dispatches
everything in a chunk before it takes a reply from it, so a call takes its reply
(`TakeReply`), fails or meets the end only when `~ more`; in between it is inside
one read, and of the others only tmux and its user act.
A failed `connect` returns no client (`call = "dropped"`).

Control mode cannot tell a line of output that reads `%end` from the end of its
block. `OwnReply` and `HeardRightly` are therefore stated of transports on which
no output looked so (`Plain`). On all transports a call returns (`CallsReturn`)
and is never given what had been read before it began, which `OwnReply`, an
action property, also says: it looks at a reply when the call takes it.
`client_lookalikes` shows what comes of the rest.

Left out: parsing of fields, octal escapes, the encoding of commands, a
`%begin` that does not parse, writes that block.

### Daemon

The tmux server is a set of sessions, each absent, idle (a bootstrap session) or
built, over incarnations 1, 2, ...; the user opens, works in and closes
sessions and ends the server. `booting` is where `connect_and_boot` stands and
what it holds: the survey, the decision, how much of the restore is done,
scratch session included. `running` is `run`: the activity flag, the polls since
the last activity and the last save. `latest` is the newest generation as the
set of sessions it holds, never a bootstrap-only one (`Saved`): the daemon refuses
to store such a capture (daemon.rs:119), as `phoenix save` does (commands.rs:89).

A survey and a save's capture each read the server at one moment; either may
take an idle session for a built one, as a prompt running a command for an
instant makes it (`FlickersIn` names which may). A restore works session by
session; `RestoreIsCut` ends it anywhere. Failures of a save and of a boot, cuts,
lost links and flickers draw on one budget, `MaxFaults`, and user and faults
together on `MaxTrouble`. `upset` is a history variable: which of the three
things that the code gives no promise about have happened, a restore cut short,
a survey or a save misread. `IsCalm` says that neither of the first two has.
`kept` and `avoided` are history too: the servers a run has been beside with its
boot settled, and those a boot stayed out of since the last restore or save there.

Abstractions: a session's windows are furnished in one step (`Restore` has the
steps); no `phoenix save` or
`phoenix restore` runs at the same time; what a capture is made of is in
`Capture`; time is counted in polls. The daemon keeps its `Previous` in memory
where `phoenix save` loads it: the same while it is the only one that saves.

### RestorePlan, Restore

`Plan` is the pure function of plan.rs: for each saved session the links that are
lacking (`Lacking`: each saved link paired with a live link to its window, at its
own index first), where they land (`Placed`), and the steps that make them. Steps
are records; a window built is a reference bound when its step runs, as in
`Bound`. `Restore` gives each restorer its connection, its steps and its bindings
and applies one step per action, as one tmux command: what tmux refuses ends the
restore (`Refused`), `Cut` ends it for any other reason. The user opens and
closes windows between any two steps; with `renumber-windows` on, indices close
up. `Open` and `OpenCreates` are the two commands of `Connection::open`.

The initial servers are the saved one after some of its sessions were closed, and
another with no session or one the user opened. `around` is a history variable:
what others did since a restore began, so that a property can say which
disturbance excuses what.

Abstractions: contents and programs of all panes of a window are one step
(`Fill`), and so are a split and the spreading that follows it; which window a
session shows is not state; session names tmux cannot be told as a target are
not in the snapshot; the server does not exit (`Daemon` has that); an option on
a session is a set.

### SnapshotGraph, Listing, Capture

`SnapshotGraph` has the constructors of phoenix-core as predicates (`IsWindow`,
`IsSession`, `IsSnapshot`): both who captures and who decodes goes through them.
`Listing` says what `list-panes -a` and `list-clients` answer about a server, a
row per pane of a winlink, and what `fold` makes of such rows, all or nothing.
`IsServer` is what tmux keeps to: a pane is in one window, a window is linked, a
session shows one of its winlinks, no id is given twice. `IsFilled` is what it
never leaves empty: the name of a session or a window, a layout, a client's tty (the
names of phoenix-core refuse the empty string, `ids.rs:22`: "tmux never produces one
for this field"). `ArePrinted` is what its panes show: of what a pane of that server
has printed, the lines `first` to `last`. A history loses its oldest lines, one at a
time, when it is trimmed at `history-limit`, and all of them when it is cleared;
`IndicatorOf` is how many it has, so that an indicator may recur after either.

`Capture` is one action per command or read of the kernel: `ReadPanes`,
`ReadClients`, `ReadMark`, `ReadId`, then for each pane `ReadGroup`,
`ReadLeader`, `ReadScrollback` (reused when `Reusable`), `ReadVisible`, and
`Finish`. Between any two of them the user splits, kills, opens, links and
selects, prints (with room in the history, or trimming it), redraws and clears, starts and ends programs, sets marks, or
restarts the server. A pane's text is which lines of which history it holds, so
that a property can say of a kept text where and when it was printed; `looked`
remembers the server of the listing for the same reason and is read by nothing
else. A pane that is gone is what the code makes of it: no scrollback, no
foreground, and the capture goes on.

Abstractions: splitting a row and decoding text are left out, and rows are what
tmux formats; a listing is one step, since tmux answers a command at one moment;
the kernel's refusal of a read may come at any time and counts as a move.

### FileFormat, SaveAndLoad

A file is a sequence of fields, each with the primitive it was written as. Writing
is concatenation. Reading is a cursor (`Reader`) that stops at the first error, as
`?` does; `Then` reads one field after another, `AsRecord` names what was read,
`Resolved` applies the constructors. Both formats are read: `DecodeBodyV1` numbers
the windows of the older tree as it meets them.

`SaveAndLoad` loads the newest generation (`Load`), begins a capture with what may
be reused (`RunSave`), and writes the file and its blobs (`Publish`) or nothing
(`NotSaved`). While no save runs the disk may cut or lengthen the file, alter a
field, cut a blob or remove it (`Damage`), once a generation.

Abstractions: a field stands for its bytes, so a field read as another primitive is
refused where the bytes might by chance be read, and lengths count fields; the
checksum of a body is the body; hashes are what they are hashes of. `Store` and
`SaveDurability` have how the file comes to be there.

## 3. The runs

| run | checks | instance |
|---|---|---|
| `store_saves` | `TypeOK`, `SaveInv` (`LockExcludes`, `ChosenStaysAbove`, `ExistingIsPrunable`, `DoomedIsExpendable`), `PruneLeavesEnough` | 2 savers, ids to 5, times 1 and 4, keeping 1 or 2, every initial directory over ids 1..3 |
| `store_reads` | `SecondListingSuffices`, `ReadsAreAtomic`, `ReadsReturn` | 1 saver, 1 reader, ids to 3 |
| `durability_crash` | `TypeOK`, `NothingTorn`, `NothingDangles`, `SavedIsKept` | see the cfg: ids, blobs |
| `durability_blobs` | `CompleteStaysComplete` violated | finding |
| `connection_calls` | `TypeOK`, `OwnReply`, `EventsComeAhead`, `KilledIsDisposed`, `EndingsAgree`, `CallsReturn`, `ClosesReturn` | 2 commands, 2 notifications, 1 stray block |
| `client_calls` | `TypeOK`, `HeardRightly`, `OwnReply`, `CallsReturn` | 2 commands, 1 notification, 2 transports, 1 line of output |
| `client_lookalikes` | `SettledIsOldest` violated | finding |
| `daemon_runs` | `TypeOK`, `KeptServersLeftAlone`, `OnlyTheUserStopsCalmBoot`, `NothingForgotten`, `BuiltIsSaved`, `RestoredInTheEnd` | 2 sessions, 2 incarnations, 4 user moves, 2 faults, 4 of both; surveys and saves misread, restores cut |
| `daemon_cut` | `OnlyTheUserStopsBoot` violated | finding |
| `daemon_restart` | `KeptServersLeftAlone` violated | finding |
| `restore_runs` | `TypeOK`, `StampMeansWhole`, `LiveIsKept`, `RestoredIsComplete`, `FinishedPlansNothing`, `RefusedOnlyIfDisturbed`, `BuiltOnce` | 2 restorers, 2 runs, 1 cut, 1 user move, 2 sessions sharing a window |
| `save_and_load` | `TypeOK`, `RecordsOneLook`, `ScrollbackIsOfItsPane`, `DegradedOnlyIfGone`, `ReadsBackAsSaved`, `FailsOnlyIfDisturbed` | 6 scenarios, see below |

Bounds and why they are enough:

* Store: the lock makes a third saver a repetition of the second; an id that
  collides or falls below the newest needs a time below an existing id and one
  above (1 and 4 around initial ids 1..3); pruning more than one generation
  needs three. One reader suffices, readers share nothing. The id after the last
  is `NoIdLeft`, as the code's `i64::MAX` is.
* Durability: two contents and three ids let a later save share a blob with an
  earlier one, prune it, and lose power with both in doubt.
* Connection: the second command is the one a stale reply would be given to; the
  second notification can come after the greeting and before the reader starts.
* Client: the second command is the one a stray block would answer, the second
  transport the one old state would leak into, one line of output can look like a
  terminator or a notification. `%end` and `%error` differ in nothing but the
  outcome they carry, so tmux ends blocks with the one and output looks like the
  other.
* Restore: the snapshot links one window of two panes into two sessions, one of
  which has nothing else, so that every branch of the plan is taken: a seed window
  built, a placeholder replaced, a link relocated past an index that is wanted.
  Two runs are a restore after a cut one or two that overlap; the one user move
  falls anywhere between the steps of both. A third run meets a server of the
  kinds a second one does.
* Daemon: two sessions are the fewest of which a restore can be cut between; two
  incarnations the fewest a decision can be carried between. Four moves and
  faults together let a user build, close and build again beside one fault.
* Capture and file: a scenario is a server, the kinds of moves that happen to it,
  and how many. `MaxTalk` = 3 moves of printing, trimming, clearing, redrawing and restarting
  over two saves reach scrollback reused and outdated, and pane ids used again by
  another server; `MaxShape` = 2 of reshaping a server whose two sessions share a
  window reach every way for a listing to differ from what comes after;
  `MaxRun` = 3 start a job, end it and let go of the terminal between the reads;
  `MaxAny` = 2 mix all kinds. Two scenarios have a disk that damages each field
  of a file, its length, and each blob, once per generation, in either format.

`CHECK_DEADLOCK FALSE` is said of the connection (after `close` every actor has
stopped), of the client (a dropped or closed one with its tmux gone), of the
restores (budgets spent, nobody restoring) and of `save_and_load` (its saves
over).

### Fairness

* `Store!FairSpec`: every step of a call that has begun (a process runs or dies,
  the kernel releases the lock of the dead). No fairness is assumed of beginning
  a call. Ids run out, so saves end, and `ReadsReturn` says a read is repeated
  only while saves complete, as the code does; with saves for ever it may repeat
  for ever.
* `Connection!FairSpec`: the reader thread and a call in progress are scheduled;
  nothing is assumed of tmux, so `CallsReturn` is about links that end or are
  aborted.
* `Client!FairSpec`: a call in progress reads what there is, and tmux greets and
  answers; the code sets no deadline, so with a tmux that hangs a call hangs, and
  `CallsReturn` is about one that does not. An exit or a failed read is obliged
  to nothing.
* `Daemon!FairSpec`: the daemon's loop is scheduled. The user and the faults are
  not: bounded by `MaxMoves` and `MaxFaults`, they stop, which is the assumption
  that things quieten down. A save that misreads a prompt makes a generation of a
  bootstrap session, and from then on there is nothing of the user's to restore:
  the heuristic's own limit, so `RestoredInTheEnd` is about runs where no save was
  misread. It says `[]<>` of what is built: of the server that is there in the end,
  and not of some server before it. `OnlyTheUserStopsCalmBoot` and `NothingForgotten` are about runs where
  no survey was misread and no restore cut, which is finding 3.

## 4. The findings

1. `durability_blobs`: nothing fsyncs `blobs/`. After a power loss a generation
   whose save returned may name a blob whose directory entry is gone, which
   store.rs:1-3 says does not happen.
2. `client_lookalikes`: a line of output that reads `%end` ends its block
   (codec.rs:92), and from then on commands are answered by what is left of
   earlier blocks, against demux.rs:9-10. `capture-pane -p` writes pane text, so
   a pane that shows such a line does this to a save. With `Connection` the
   leftover is caught when it arrives before the next command's idle check, and
   not otherwise.
3. `daemon_cut`: after a restore cut short, the next boot takes what phoenix
   itself restored for the user's and never restores the rest (boot.rs:1-4).
4. `daemon_restart`: a server restarted between survey and attach is run beside
   under a decision about the dead one, and a reconnect restores into it
   (boot.rs:160-161).

Noticed and not run:

* DESIGN.md:374-377 describes `StoreError::BootstrapOnly`, which the store no longer
  has (the daemon refuses such captures).
* The doc of `Abort::abort` (connection.rs:67-71) calls aborting an ended link a
  no-op, while a reader that has not classified its ending yet then reports
  `Disposed`.
* An ending the reader reports after `close` has drained the channel and before the
  flag is raised leaves `state()` at `Disposed` where the sink was told of the exit
  (`EndingsAgree` makes an exception of it), against connection.rs:344-346: "only a
  link still up becomes `Disposed`".
* README.md:23 has `phoenix save` capture structure only; it captures and saves the
  content of every pane (commands.rs:75).
* Two restores that overlap (`phoenix restore` beside the daemon's boot) each build
  the windows the other has not stamped yet, against "a saved window is built once"
  (DESIGN.md:322) read without that exception; `BuiltOnce` states it with.
* Scrollback is reused when a pane's history size and byte count are what they were
  (content.rs:97-100), which "move on every output" (DESIGN.md:291). They need not: a
  history at `history-limit` loses its oldest lines as it prints, and with lines of
  one length both numbers recur; so they do when a pane clears its history and prints
  as much again. The older scrollback is then kept, and a restore replays scrollback
  only (plan.rs:510). The model has both moves, and `ScrollbackIsOfItsPane` asks for
  the lines up to the listing only of a history that had lost none by then; of every
  other it asks that the text be of the same pane and server. Without that condition
  TLC finds it violated by one trimming print between two saves.
* "Nothing live is removed" (plan.rs:11, DESIGN.md:317) holds of a restore that is
  alone while it replaces its placeholder. The link that replaces it (`-k`,
  apply.rs:164) removes whatever is at the index by then. Where the user opens a
  window in the session just made and closes the placeholder, and `renumber-windows`
  moves theirs into its place, or where another restore has put a window there, that
  one is removed. `LiveIsKept` makes an exception of a restore since whose beginning
  windows were closed or another restore ran, and of nothing else: not of what the
  user opens. Without the exception TLC finds it violated with one restorer and three
  user moves, and with two restorers.
* The checksum covers the body and not the header, so an altered origin or time is
  not noticed (`SameBody`).
* A blob's contents are not compared with its hash and `put` never rewrites a blob
  that is there, so one that was cut takes later generations with it.
* A client that attaches to a session opened between the two listings fails the
  whole save.
* A restore kills its scratch session with every window in it, one the user opened
  there included (apply.rs:249).

## 5. What is proved

`StoreProofs`, for any sets of savers, readers, ids, times and retentions under
the assumptions `Store` and `GenerationFiles` name:

* `TypeCorrect`: `Spec => []TypeOK`.
* `SavesAreSafe`: the inductive invariant of saving. `TypeOK` and the lock's
  exclusion are not enough: what a save will do depends on what it read at
  `Prepare`, so the invariant says, for whoever holds the lock, how its chosen id
  and its list of untagged generations relate to the directory *now* — the id is
  above every generation until published; every generation listed is still
  there or was pruned by this very save; everything untagged is listed. Each is
  disturbed by another saver's `Publish` or `PruneOne`, which the lock excludes.
* `RetentionHolds`: `Spec => [][...]_vars` for `PruneLeavesEnough`, from that
  invariant: counting the newer untagged generations at the time of the listing
  is counting them at the time of the unlink.
* `ReadsAreConsistent`: `SecondListingSuffices`. Two equal listings mean the
  directory did not move in between: ids only rise, so a directory that has lost
  its newest, or gained one, never shows the first listing's ids again; the
  invariant relates a reader's first listing to the directory and to the answers
  so far. This is where the code's argument (`read_consistent`'s doc) is made.
* `StoreImplementsGenerations`: `Store` implements `Generations`, step by step.

`DurabilityProofs`, for any bound on the ids, any set of contents and any
retention of at least one (`DurabilityAssumption`: an id is no content):

* `DurableTypes`: `Spec => []TypeOK`.
* `NothingIsTorn`: `WholeInv` adds that no visible file is unsynced. `torn` alone
  is not inductive: a power loss tears what is unsynced, and `RenameTemp` is what
  keeps that empty.
* `NothingIsDangling`: `DangleInv` adds what a save in progress still owes. The
  blobs its file will name are visible or in `todo`, nothing writes the file before
  `todo` is empty, and while it writes no directory entry goes away: pruning comes
  after and unlinks generations only.
* `ReturnedIsKept`: `KeptInv` adds that a generation at least as new as the one
  returned is durable and not only visible, since a power loss may keep or drop
  anything else, and that the newest is durable while others are pruned; it is
  never doomed itself (`DoomedIsNotNewest`, by counting).

`ConnectionProofs`, for any number of commands, notifications and stray blocks:

* `TypeCorrect`: `Spec => []TypeOK`; `TypeInv` adds the shapes of messages and
  replies.
* `KilledIsAlwaysDisposed` and `EndingsAlwaysAgree`, from `EndingInv`: what the flag,
  the state and the ending reported may be at each stage of the reader and of the
  caller. The reader reads the flag once, after its read side has ended, and
  reports a step later, so the invariant ties what it classified to the flag as it
  was then, and what the sink heard to the ending in the channel.
* `EventsAlwaysComeAhead`, from `RoutedInv`: everything delivered has been routed,
  replies to the channel and events to the sink, each in order of position.
* `RepliesAreOwn`: `Spec => []OwnReply`. Nothing marks a reply with its command, so
  `OutstandingInv` accounts for the blocks on their way: beside those in the channel
  and those tmux has emitted, one is owed to the call in progress, and everything
  else is a stray, which the idle check of the next call finds or which ended the
  connection. `SinceInv` says that the call's own block came after it began.

`ClientProofs`, for any bounds, looks of output and terminators:

* `TypeCorrect`: `Spec => []TypeOK`.
* `HeardIsRight`: `Spec => []HeardRightly`.
* `RepliesAreOwn`: `Spec => OwnReply`, the action property.

  They rest on one invariant, `Inv`. Neither property is inductive, as the codec
  knows how a line looks and a property what tmux wrote it for, and nothing but the
  order of lines ties the two together. `WrittenInv` says how tmux writes: one
  uninterrupted block for each command and the greeting. `ReaderInv` says that, as
  long as no output looked like a terminator, the codec is inside a block when the
  lines it has read are, and holds exactly the lines since its `begin`.
  `SettledInv` says of each settled block which lines it has, and `AskedInv` that
  while a call waits, one block is due and it is the call's: everything before it
  has been taken or discarded. `Reconnect` keeps all of it by reading past whatever
  the old link wrote.

`DaemonProofs`, for any names, polls and bounds. All but the types is under the
hypothesis that the server does not end between survey and attach
(`RestartInBoot = FALSE`): finding 4 shows that it fails otherwise.

* `TypeCorrect`: `Spec => []TypeOK`.
* `KeptServersAreLeftAlone`: `KeptInv` ties `last` to `kept`: while the server on
  the socket has been kept, the next survey finds the decision about it, however
  the link was lost; `BootAgain`, which forgets the decision, happens only
  beside a server that was never kept.
* `OnlyTheUserStopsACalmBoot` and `NothingIsForgotten`, from what a restore holds
  (`RestoreInv`: what is absent, begun and done accounts for all of the snapshot)
  and from `CalmInv` and `SaveInv`: with no cut and no misread survey, a session of
  `latest` missing from the server of a settled run was closed by the user there.

  `NothingForgotten` was once stated without `avoided`, and its proof failed at
  `Refuse`: a boot stays out of a server for the user's work, the user closes what
  it was, a save is refused and settles the boot (`daemon.rs:253`), and a later save
  drops the sessions that were never restored. That is intended, and the property
  now says so.

`RestoreProofs`, for any snapshot the constructors accept (`IsSnapshot`) and any
server with finitely many windows (`IsServer`):

* `PlanIsSound`: the steps of `Plan` are `Sound`. A reference is bound once, and
  before any step uses it (`BoundFirst`, `BoundOnce`); the window a session is made
  with is moved by the very next step (`MovedAtOnce`); a stamp comes right after the
  splits, the layout and the content of its window, as many as it was saved with
  (`StampedLast`), and no window or saved window is stamped twice; no saved window
  that the server has is stamped at all. And a link that replaces lands on this
  plan's own placeholder (`ReplacesOwn`): a step of the same plan moved that window
  to that index, and between the two is nothing but steps that leave the links of the
  restored sessions alone (`Aside`).

  `Plan` is three recursive functions inside each other: over the sessions, over the
  lacking links of each, over the indices to land at. `IterationStays` is the
  induction they share, proved from the least element of a set of numbers (the
  induction theorems of the library take an operator): an n-fold step that stays in
  a set ends in it. The set is `Drafts`: sound steps so far, each reference below
  `refs`, each window in `built` bound. What every branch of the code appends is
  shown to continue sound steps (`PlainContinues`, `NewContinues`,
  `CreateContinues`, `FurnishingContinues`).

And for any snapshots, restorers, sessions, `base-index` and bounds:

* `Invariance`: `Spec => []IInv`. That stamped windows are whole is not inductive: a
  `Stamp` says nothing of what its window went through. `PlanHolds` says that what
  is left of a plan is still sound, given what is bound by now; `StampHolds` that a
  window whose stamp is k steps ahead is unstamped, and furnished as far as a plan
  has come that has k to go (`FilledBefore`), and that no other window carries that
  stamp, unless another restore has run meanwhile; `Bindings` that no two references,
  of whichever restores, are bound to one window, nor any to a saved one, so that
  nobody else furnishes or stamps it; `MoveHolds` that a window about to be moved to
  its index is linked where it was made and nowhere else, so that moving it removes
  no other. `ServerOK` and `RestorersOK` are the types and the server's own
  consistency (a window is there while a session links it; ids are not given
  twice). A restore that is cut forgets its plan, and what it leaves is unstamped or
  whole: nothing of the invariant is about cut restores.
* `PlacesAreHeld`: `Spec => []PlacesHold`, a second invariant on top of the first.
  While nothing was closed and no other restore ran since a restore began, a link of
  its plan that is to replace a window still finds the window it made there
  (`PutAlready`), or its move there is still ahead (`PutBefore`). So whatever the
  user opens, `-k` removes the placeholder.
* `TypeCorrect`, `StampsAreWhole` and, from single steps under the invariants,
  `NothingLiveIsRemoved` and `BuiltOnlyOnce`: the types, `StampMeansWhole`,
  `LiveIsKept` and `BuiltOnce`.
* `ReferencesAreBound`: a step that comes to run names only windows whose ids are
  bound. `Bound::window` (apply.rs:81-86) expects so and would panic otherwise.

`FormatProofs`, for any snapshot the constructors accept (`IsSnapshotData`), of any size,
and any blob directory:

* `FileReadsBack`: what `EncodeFile` writes, with or without a tag, `DecodeFile` reads
  back as the very same snapshot, or refuses because a text is not there whole; while
  every text is, it does read back. `Reads` is what is shown of each reader in turn,
  from the options and the enums through panes, windows, sessions and clients to the
  header: begun on the fields of one value with anything behind them, it yields that
  value and stops at the rest. A sequence is written with `FlattenSeq` and read by a
  function of the number of items left; `Induction` (over a set of numbers, as the
  induction theorems of the library take an operator) carries it from one item to the
  next. A reader passes what it got along (`got`), so each lemma says besides that
  this comes back as it was.
* `DamageIsNoticed`: of such a file cut short at any place, continued by any field, or
  with any one field changed by one or for another text (`IsDamaged`), nothing is read,
  or the same body is, under another time or another origin; an origin that was read
  has the process number or the start it was saved with. The magic and the version
  are refused as such; a header cut or shifted by another length stops a reader inside
  it (`HeaderStops`) or is not the length its last two fields say; a body
  of another length, or of the same and not equal to its sum, is refused before it is
  decoded. What is left is the header's own fields, and those of them that lengthen or
  shorten it (the presence of an origin or a tag) leave a field over or lack one.

* `OldFileReadsBack` and `OldDamageIsNoticed`: the same of a file that a phoenix before
  this format wrote, of any tree that resolves (`IsTree`). What is read holds its
  sessions, windows and panes, and is of no server. Each window is numbered by how many
  were met before it, so `PlacesAreFound` says where each of several sequences lies in
  their concatenation, `GraphWindows` and `GraphSessions` what that makes of the
  tree, and `GraphIsSnapshot` that the constructors accept it: no id comes twice and
  every link has its window. The header of that format has no tag to misread: its length
  and its sum are compared with the body, its time is covered by nothing, and under the
  version of this format its length field stands where the tag of an origin must be.

`CaptureProofs`, for any `Shells` and any scenarios whose servers are what tmux keeps
to (`ScenarioAssumption`, `IsServer`, `IsFilled`, `ArePrinted`), with any number of
sessions, windows and panes:

* `ListingsFold`: whatever was read of the panes, `Fold` of `ListPanes` of a server
  succeeds, and what it makes holds each session, winlink, window and pane once, as
  the server has them. So none of `fold`'s errors (a torn window, no active pane or
  window, a graph that does not resolve) can come of what a server lists in one
  answer, and its `expect`s hold. The proof follows the code: `InOrderFacts` lists a
  finite set (each element at the number of those before it), `GroupByFacts` and
  `GroupsOfListing` say what `group_by` makes of a listing, `SessionFolds` and
  `WindowFolds` what becomes of one group, and `NoneIsTorn` counts: a window's pane
  is listed as often as the window is linked. `ReadingOrderFacts` says that every
  pane of the listing is read.
* `TypeCorrect`, `OneLookIsRecorded`, `OnlyGoneIsDegraded` and `FailsOnlyForTheUser`:
  `TypeOK`, `RecordsOneLook`, `DegradedOnlyIfGone` and the action property
  `FailsOnlyIfDisturbed`, from the inductive invariant `IInv`. It says that the user
  leaves a server (`UserMovesOn`, one lemma per move); that the connection is to this
  server or to an earlier one, whose process number never comes again (`LinkedToOne`);
  that the rows are of one look at the server the capture is connected to
  (`LookedOnce`); that while it is still that server, a pane of the listing that is
  there was there all along, and its process is the one listed unless it counts more
  turns (`NothingComesBack`: without it a pane found now might be another that took
  its id, and a process that looks unchanged might be a third); that each pane listed
  was read or is still to be (`ReadInTurn`), and was read rightly if nothing has
  changed in it since; and what is known of the pane at hand between its four reads
  (`PaneAtStage`).

  The proof of `FailsOnlyIfDisturbed` made two things of the model explicit that its
  scenarios had kept to unsaid: a mark that is not a stamp is `<<0>>`, one of the
  server `<<0, 0>>`, now part of `IsServer`.
* `GenerationsReadBack`: `ReadsBackAsSaved`, the same for every scenario whose newest
  generation is one that a save wrote, or one of the older format that was whole when
  it was found (`FileAssumption`). `DataInv` joins the two halves: the server stays
  filled (`UserMovesFill`, one lemma per move), so the rows of a listing that parses
  make windows, sessions and clients of the forms `IsSnapshotData` asks for
  (`FoldIsOfForm`), and the snapshot that is encoded is one `FileReadsBack` is about;
  the file is that encoding or what one change of the disk made of it (`FileIsSaved`),
  of which `DamageIsNoticed` speaks; and what was loaded is that file decoded
  (`LoadedIsFile`). `FoundInv` is that for the file that was there before any save,
  with `OldFileReadsBack` and `OldDamageIsNoticed`.
* `TextIsOfItsPane`: `ScrollbackIsOfItsPane`. `TextInv` follows a text from the pane
  that printed it to the snapshot, into the file and back as the `Previous` of the
  next save. A pane that was listed and is there still has printed on since
  (`HeldIsPrinted`, from `UserMovesPrint`; that it is the same pane is
  `NothingComesBack`), so a scrollback or a screen read of it later lacks nothing. A
  reused scrollback was read before that listing, and all the invariant keeps of it is
  its server, its pane, and that its last line is at least its indicator (`IsOwn`).
  That is enough: a history that has lost no line is exactly as long as its indicator
  says, and the property asks no more of one that was trimmed or cleared. That the origin of a `Previous`
  is the server's (`PreviousIsOwn`) rests on the file: a damaged one may be read back
  with another origin, but with one of its two numbers as saved (`LatestIsSaved`), and
  no two servers of this model share one (`IsInStep`: `Restart` takes the next process
  number and a later second). A file that was there before any save is of no server
  (`FoundIsTheTree`), and nothing of it is reused.

Only model-checked:

* liveness (`ReadsReturn`, `CallsReturn`, `ClosesReturn`, `BuiltIsSaved`,
  `RestoredInTheEnd`), and what is said with `ENABLED` (`RefusedOnlyIfDisturbed`);
* `RestoredIsComplete` and `FinishedPlansNothing`, which are about what `Plan` makes
  of a server it was applied to: they need a count of links per window kept through
  `Lacking`, `Placed` and every step;
* `CompleteStaysComplete`, `SettledIsOldest` and the two of `Daemon` that the other
  violation runs refute.

## 6. Not modelled

Service installation, which keeps no state and runs beside nothing; argument
parsing and output; `json.rs`, an export nothing reads back; tmux command
formatting, the spelling of rows, names and protocol fields, escapes, and pane
layouts, which are conversions no property here looks into. `PROJECT.json` says
why of each component.

## 7. The plan

Done: the store, the durability of a save, the connection, the client, the daemon,
the restore, the capture and the file format, each with its safety properties proved
but for those listed above. Left:

1. Proofs: `RestoredIsComplete` and `FinishedPlansNothing`.
2. `Daemon` over an abstract restore that `Restore` implements: a cut leaves some
   of the lacking windows, stamped or not.
3. One more snapshot for `Restore`: a window linked twice in one session, and a
   session with a gap in its indices.
4. A daemon and a `phoenix save` on one store, where the daemon's `Previous` in
   memory is older than the newest generation.
