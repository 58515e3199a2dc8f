--------------------------- MODULE SnapshotGraph ---------------------------
(***************************************************************************)
(* phoenix-core: the graph a snapshot holds, as operators without state.   *)
(* Windows are held once, and a session's winlinks name them by id; the    *)
(* constructors refuse whatever does not resolve (snapshot.rs), so both    *)
(* who captures a snapshot and who decodes one goes through here.          *)
(*                                                                         *)
(* An Option is a sequence of at most one element.  Names, layouts, paths, *)
(* messages and argument lists are numbers: nothing here looks inside.     *)
(***************************************************************************)
EXTENDS Integers, Sequences, FiniteSets, SequencesExt

\* The argument lists that are an idle shell, a shell with nothing but flags:
\* Shells::default(), which every caller passes.
CONSTANT Shells

None == <<>>
Some(value) == <<value>>

\* The values of one field along a sequence of records.
Ids(s) == [i \in DOMAIN s |-> s[i].id]
Indexes(s) == [i \in DOMAIN s |-> s[i].index]
Names(s) == [i \in DOMAIN s |-> s[i].name]

\* `duplicate` finds one.
HasDuplicate(s) == \E i, j \in DOMAIN s : i < j /\ s[i] = s[j]

\* Window::new.  NonEmpty makes the panes at least one.
IsWindow(window) ==
    /\ window.panes # <<>>
    /\ ~ HasDuplicate(Indexes(window.panes))
    /\ window.active \in ToSet(Indexes(window.panes))

\* Session::new: `active`, and `last` when there is one, name winlinks.
IsSession(session) ==
    LET held == Indexes(session.links)
    IN  /\ session.links # <<>>
        /\ ~ HasDuplicate(held)
        /\ session.active \in ToSet(held)
        /\ ToSet(session.last) \subseteq ToSet(held)

Linked(sessions) ==
    UNION {{link.window : link \in ToSet(session.links)} :
              session \in ToSet(sessions)}

\* Snapshot::new: ids and names are unique, every winlink resolves, every
\* window is linked, every client sits on a session held here.
IsSnapshot(windows, sessions, clients) ==
    /\ windows # <<>> /\ sessions # <<>>
    /\ ~ HasDuplicate(Ids(windows)) /\ ~ HasDuplicate(Names(sessions))
    /\ Linked(sessions) = ToSet(Ids(windows))
    /\ \A client \in ToSet(clients) : client.session \in ToSet(Names(sessions))

\* Snapshot::panes: every pane once, whichever sessions link its window.
PanesOf(snapshot) ==
    UNION {ToSet(window.panes) : window \in ToSet(snapshot.windows)}

-----------------------------------------------------------------------------
(***************************************************************************)
(* What a pane's record holds beside its id and index.                     *)
(***************************************************************************)
Shell == [is |-> "shell"]
Program(argv) == [is |-> "program", argv |-> argv]
Unrecovered(reason) == [is |-> "unrecovered", reason |-> reason]

Captured(indicator, scrollback, visible) ==
    [is |-> "captured", indicator |-> indicator, scrollback |-> scrollback,
     visible |-> visible]
NotCaptured(reason) == [is |-> "not captured", reason |-> reason]

\* RecoveryFailure and ContentFailure, in the order of their tag bytes.
RecoveryFailures ==
    <<"ShellGone", "NoTerminal", "LeaderGone", "Os", "NotRecorded">>
ContentFailures == <<"CapturePane", "NotRecorded">>

(***************************************************************************)
(* Foreground::of.  An argument list is the number of the program it runs. *)
(***************************************************************************)
ForegroundOf(atOwnProcess, argv) ==
    IF atOwnProcess /\ argv \in Shells THEN Shell ELSE Program(argv)

\* Snapshot::degradations: one entry per pane and kind of absence.
Degradations(snapshot) ==
    LET panes == PanesOf(snapshot)
    IN  {<<"cwd", pane.id>> : pane \in {p \in panes : p.cwd = None}}
        \cup {<<"foreground", pane.id>> :
                pane \in {p \in panes : p.foreground.is = "unrecovered"}}
        \cup {<<"content", pane.id>> :
                pane \in {p \in panes : p.content.is = "not captured"}}

\* Snapshot::is_bootstrap: one window, one pane, idle at its shell.
IsBootstrap(snapshot, session) ==
    /\ Len(session.links) = 1
    /\ \A window \in ToSet(snapshot.windows) :
          window.id = session.links[1].window =>
              Len(window.panes) = 1 /\ window.panes[1].foreground = Shell

IsBootstrapOnly(snapshot) ==
    \A session \in ToSet(snapshot.sessions) : IsBootstrap(snapshot, session)
=============================================================================
