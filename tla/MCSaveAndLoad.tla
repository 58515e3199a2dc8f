--------------------------- MODULE MCSaveAndLoad ---------------------------
(***************************************************************************)
(* Small instances of SaveAndLoad for TLC: the servers and the files its   *)
(* scenarios begin with, and what the user and the disk do in each.        *)
(***************************************************************************)
EXTENDS SaveAndLoad

CONSTANTS
    MaxTalk,    \* bound: moves beside panes that print, clear and redraw
    MaxShape,   \* bound: moves that change sessions, windows and panes
    MaxRun,     \* bound: programs that start and end
    MaxAny      \* bound: moves of every kind

Text(p) == [server |-> 1, pane |-> p, first |-> 0, last |-> 1, clears |-> 0,
            drawn |-> 0]

PaneOf(p, holder, led) ==
    [cwd |-> IF p = 1 THEN None ELSE Some(1), text |-> Text(p),
     process |-> [holder |-> holder, led |-> led, turns |-> 0]]

WindowOfPanes(panes) ==
    [made |-> None, name |-> 1, layout |-> 1, zoomed |-> FALSE,
     panes |-> panes, active |-> panes[1]]

SessionOf(links, last) ==
    [group |-> None, links |-> links, active |-> 0, last |-> last]

Tmux(sessions, windows, panes, attached) ==
    [id |-> [pid |-> 1, start |-> 1], mark |-> None, version |-> 3,
     fresh |-> 5, sessions |-> sessions, windows |-> windows,
     panes |-> panes, clients |-> attached]

\* One window of two panes, one at its shell and one in a program.
OneWindow ==
    Tmux(1 :> SessionOf(0 :> 0, None), 0 :> WindowOfPanes(<<0, 1>>),
         (0 :> PaneOf(0, "own", 1)) @@ (1 :> PaneOf(1, "job", 2)),
         1 :> 1)

\* A login terminal's session.
OnePane ==
    Tmux(1 :> SessionOf(0 :> 0, None), 0 :> WindowOfPanes(<<0>>),
         0 :> PaneOf(0, "own", 1), 1 :> 1)

\* Two sessions in a group that share a window; one links another as well,
\* stamped and zoomed.
Shared ==
    [Tmux((1 :> SessionOf((0 :> 0) @@ (2 :> 1), Some(2))) @@ (2 :> SessionOf(0 :> 0, None)),
          (0 :> WindowOfPanes(<<0, 1>>))
            @@ (1 :> [WindowOfPanes(<<2>>) EXCEPT !.made = <<1, 1>>,
                                                  !.zoomed = TRUE]),
          (0 :> PaneOf(0, "own", 1)) @@ (1 :> PaneOf(1, "job", 2))
            @@ (2 :> PaneOf(2, "own", 1)),
          1 :> 2)
     EXCEPT !.sessions[1].group = Some(1), !.sessions[2].group = Some(1),
            !.mark = Some(1)]

NoTree == [tmux_version |-> 1, captured_at |-> 1, sessions |-> <<>>]

Beside(tmux, does, most, times) ==
    [server |-> tmux, file |-> None, blobs |-> <<>>, tree |-> NoTree,
     does |-> does, moves |-> most, saves |-> times]

\* A generation of the old format: two sessions, three windows.
OldPane(p, command, argv, content) ==
    [id |-> p, index |-> 0, cwd |-> Some(1), command |-> command,
     argv |-> argv, content |-> content]

OldWindow(index, pane_) ==
    [index |-> index, name |-> 1, layout |-> 1, panes |-> <<pane_>>, active |-> 0]

OldContent == [indicator |-> 1, scrollback |-> Text(0), visible |-> Text(0)]

Tree ==
    [tmux_version |-> 3, captured_at |-> 1,
     sessions |->
       <<[name |-> 1, active |-> 0,
          windows |-> <<OldWindow(0, OldPane(0, 1, Some(1), Some(OldContent))),
                        OldWindow(3, OldPane(1, 1, Some(2), None))>>],
         [name |-> 2, active |-> 1,
          windows |-> <<OldWindow(1, OldPane(2, 2, None, None))>>]>>]

MCScenarios ==
    {Beside(OneWindow, {"print", "restart"}, MaxTalk, 2),
     Beside(Shared, {"split", "kill", "open", "link", "select", "mark"},
            MaxShape, 1),
     Beside(OnePane, {"run", "split"}, MaxRun, 1),
     Beside(OneWindow, {"split", "kill", "open", "link", "select", "mark",
                        "print", "run", "restart"}, MaxAny, 2),
     Beside(Shared, {"damage"}, 1, 2),
     [Beside(OneWindow, {"damage"}, 1, 2) EXCEPT
        !.file = Some(EncodeFileV1(Tree)), !.tree = Tree,
        !.blobs = Text(0) :> "whole"]}
=============================================================================
