------------------------------ MODULE Listing ------------------------------
(***************************************************************************)
(* phoenix-capture's rows (row.rs) and the fold of them into a graph       *)
(* (fold.rs), as operators over what a tmux server holds.                  *)
(*                                                                         *)
(* A server is a record of                                                 *)
(*   sessions: name -> [group, links: index -> window id, active, last]    *)
(*   windows: id -> [made, name, layout, zoomed, panes: ids in order,      *)
(*                   active: a pane id]                                    *)
(*   panes: id -> [cwd, process, text]                                     *)
(*   clients: name -> session name, and its identity, mark and version.    *)
(***************************************************************************)
EXTENDS SnapshotGraph

\* What tmux keeps to: a session links windows by index, shows one of them
\* and may remember another.
IsSessionOf(server, session) ==
    /\ DOMAIN session = {"group", "links", "active", "last"}
    /\ DOMAIN session.links \in SUBSET Nat /\ IsFiniteSet(DOMAIN session.links)
    /\ Range(session.links) \subseteq DOMAIN server.windows
    /\ session.active \in DOMAIN session.links
    /\ session.last \in {None} \cup {Some(i) : i \in DOMAIN session.links}

\* A window has panes, each in one place, one of them active, and is linked;
\* a mark that is neither unset nor a stamp is <<0>>.
IsWindowOf(server, w, window) ==
    /\ DOMAIN window = {"made", "name", "layout", "zoomed", "panes", "active"}
    /\ window.panes \in Seq(DOMAIN server.panes) /\ IsInjective(window.panes)
    /\ window.active \in ToSet(window.panes)
    /\ Len(window.made) = 1 => window.made = <<0>>
    /\ \E name \in DOMAIN server.sessions : w \in Range(server.sessions[name].links)

\* A pane is in one window, and no id is handed out twice.
IsServer(server) ==
    /\ DOMAIN server = {"id", "mark", "version", "fresh", "sessions", "windows",
                        "panes", "clients"}
    /\ server.id \in [pid : Nat, start : Nat]
    /\ Len(server.mark) <= 1 \/ server.mark = <<0, 0>>
    /\ DOMAIN server.sessions # {} /\ DOMAIN server.sessions \subseteq Nat
    /\ IsFiniteSet(DOMAIN server.sessions)
    /\ \A name \in DOMAIN server.sessions :
          IsSessionOf(server, server.sessions[name])
    /\ \A w \in DOMAIN server.windows :
          /\ IsWindowOf(server, w, server.windows[w])
          /\ \A v \in DOMAIN server.windows \ {w} :
                ToSet(server.windows[v].panes) \cap ToSet(server.windows[w].panes) = {}
    /\ \A p \in DOMAIN server.panes :
          /\ DOMAIN server.panes[p] = {"cwd", "process", "text"}
          /\ server.panes[p].process.turns \in Nat
    /\ server.fresh \in Nat
    /\ DOMAIN server.windows \cup DOMAIN server.panes \subseteq 0 .. server.fresh - 1

\* Not set, or set to something.
IsUnsetOrNamed(option) ==
    option # None => option = Some(option[1]) /\ option[1] # 0

\* A stamp is none, not one, or its two numbers.
IsWindowFilled(window) ==
    /\ window.name # 0 /\ window.layout # 0 /\ window.zoomed \in BOOLEAN
    /\ \/ window.made \in {None, <<0>>}
       \/ window.made = <<window.made[1], window.made[2]>>

\* What tmux never leaves empty, and what it has no third value for.
IsFilled(server) ==
    /\ server.mark # None /\ Len(server.mark) <= 1 => server.mark = Some(server.mark[1])
    /\ 0 \notin DOMAIN server.sessions
    /\ \A name \in DOMAIN server.sessions : IsUnsetOrNamed(server.sessions[name].group)
    /\ \A w \in DOMAIN server.windows : IsWindowFilled(server.windows[w])
    /\ \A p \in DOMAIN server.panes : IsUnsetOrNamed(server.panes[p].cwd)
    /\ DOMAIN server.clients \subseteq Nat \ {0} /\ IsFiniteSet(DOMAIN server.clients)
    /\ \A client \in DOMAIN server.clients : server.clients[client] # 0

\* S as a sequence: the k-th element is the one that k - 1 are before.
InOrder(S, before) ==
    [k \in 1 .. Cardinality(S) |->
        CHOOSE x \in S : Cardinality({y \in S : <<y, x>> \in before}) = k - 1]

\* A set of numbers, smallest first.
Ascending(S) == InOrder(S, {p \in S \X S : p[1] < p[2]})

\* The elements of s at some places, in order.
At(s, places) ==
    LET order == Ascending(places)
    IN  [k \in DOMAIN order |-> s[order[k]]]

(***************************************************************************)
(* tmux's scrollback indicator, `#{history_size}` with `#{history_bytes}`. *)
(* A text is the lines `first` to `last` of what its pane has printed, and *)
(* how often the screen was redrawn in place, which moves neither number.  *)
(* Lines are of one size, the case in which the bytes tell no more than    *)
(* their number does: the indicator of other lines may be the same.        *)
(***************************************************************************)
IndicatorOf(text) == text.last - text.first

\* It is of one pane of one server.
IsTextOf(text, pid, p) ==
    /\ text \in [server : {pid}, pane : {p}, first : Nat, last : Nat,
                 clears : Nat, drawn : Nat]
    /\ text.first <= text.last

ArePrinted(server) ==
    \A p \in DOMAIN server.panes :
        IsTextOf(server.panes[p].text, server.id.pid, p)

\* Each pane of each winlink of each session, by name, index and place.
Places(server) ==
    LET PanesAt(name, index) ==
            server.windows[server.sessions[name].links[index]].panes
        PlacesIn(name) ==
            UNION {{<<name, index, place>> : place \in DOMAIN PanesAt(name, index)} :
                      index \in DOMAIN server.sessions[name].links}
    IN  UNION {PlacesIn(name) : name \in DOMAIN server.sessions}

\* Session by session, winlink by winlink, pane by pane.
IsListedBefore(p, q) ==
    \/ p[1] < q[1]
    \/ p[1] = q[1] /\ p[2] < q[2]
    \/ p[1] = q[1] /\ p[2] = q[2] /\ p[3] < q[3]

\* The line of list-panes -a for one of them.  An unset @phoenix-window is no
\* mark, a stamp is a generation and a saved window, and anything else is a
\* sequence of one.
RowOf(server, at) ==
    LET name == at[1]
        index == at[2]
        place == at[3]
        session == server.sessions[name]
        id == session.links[index]
        window == server.windows[id]
        pane == window.panes[place]
    IN  [session |-> name, group |-> session.group,
         window_index |-> index, window_id |-> id,
         window_name |-> window.name, window_layout |-> window.layout,
         window_active |-> session.active = index,
         window_last |-> session.last = Some(index),
         window_zoomed |-> window.zoomed, made |-> window.made,
         pane_index |-> place - 1, pane_id |-> pane,
         cwd |-> server.panes[pane].cwd,
         pane_active |-> window.active = pane,
         indicator |-> IndicatorOf(server.panes[pane].text)]

ListPanes(server) ==
    LET places == Places(server)
        order == InOrder(places, {p \in places \X places :
                                     IsListedBefore(p[1], p[2])})
    IN  [k \in DOMAIN order |-> RowOf(server, order[k])]

ListClients(server) ==
    LET names == Ascending(DOMAIN server.clients)
    IN  [i \in DOMAIN names |->
            [name |-> names[i], session |-> server.clients[names[i]]]]

\* parse_pane_row refuses a mark that is neither unset nor a stamp.
Parses(row) == Len(row.made) # 1

-----------------------------------------------------------------------------
\* What a row holds in some of its fields.
Key(row, fields) == [f \in fields |-> row[f]]

\* `group_by`: the groups in the order their keys were first seen.
GroupBy(rows, fields) ==
    LET Alike(i) == {j \in DOMAIN rows : Key(rows[j], fields) = Key(rows[i], fields)}
        order == Ascending({i \in DOMAIN rows : \A j \in Alike(i) : i <= j})
    IN  [g \in DOMAIN order |-> At(rows, Alike(order[g]))]

\* The first row of each group: what it says the others say too.
Heads(groups) == [g \in DOMAIN groups |-> groups[g][1]]

\* A field of the flagged row that was seen last, none if none is flagged.
LastFlagged(rows, flag, field) ==
    LET flagged == {i \in DOMAIN rows : rows[i][flag]}
    IN  IF flagged = {} THEN None ELSE Some(rows[Max(flagged)][field])

\* Mutant: a session's winlinks are told apart by their windows.
LinkByWindow == {"window_id"}

LinkKey == {"window_index"}

FoldSession(rows) ==
    LET links == Heads(GroupBy(rows, LinkKey))
        active == LastFlagged(links, "window_active", "window_index")
        session ==
            [name |-> rows[1].session, group |-> rows[1].group,
             links |-> [i \in DOMAIN links |->
                          [index |-> links[i].window_index,
                           window |-> links[i].window_id]],
             active |-> IF active = None THEN -1 ELSE active[1],
             last |-> LastFlagged(links, "window_last", "window_index")]
    IN  IF active # None /\ IsSession(session) THEN Some(session) ELSE None

\* Mutant: a session is taken to link a window once.
LinksBySession(rows) == Len(GroupBy(rows, {"session"}))

\* How many winlinks listed a window.
LinksOfWindow(rows) == Len(GroupBy(rows, {"session", "window_index"}))

\* Some winlink did not list the panes the others did.
IsTorn(rows) ==
    \E group \in ToSet(GroupBy(rows, {"pane_id"})) :
        Len(group) # LinksOfWindow(rows)

\* `reads` is what was read of each pane beyond its row.
FoldWindow(rows, reads) ==
    LET panes == Heads(GroupBy(rows, {"pane_id"}))
        active == LastFlagged(panes, "pane_active", "pane_index")
        window ==
            [id |-> rows[1].window_id, made |-> rows[1].made,
             name |-> rows[1].window_name, layout |-> rows[1].window_layout,
             zoomed |-> rows[1].window_zoomed,
             panes |-> [i \in DOMAIN panes |->
                          [id |-> panes[i].pane_id,
                           index |-> panes[i].pane_index,
                           cwd |-> panes[i].cwd,
                           foreground |-> reads[panes[i].pane_id].foreground,
                           content |-> reads[panes[i].pane_id].content]],
             active |-> IF active = None THEN -1 ELSE active[1]]
    IN  IF ~ IsTorn(rows) /\ active # None /\ IsWindow(window)
        THEN Some(window) ELSE None

\* `fold`: all or nothing; a server without a session has no row.
Fold(rows, reads) ==
    LET bySession == GroupBy(rows, {"session"})
        byWindow == GroupBy(rows, {"window_id"})
        sessions == [i \in DOMAIN bySession |-> FoldSession(bySession[i])]
        windows == [i \in DOMAIN byWindow |-> FoldWindow(byWindow[i], reads)]
    IN  IF rows = <<>> \/ None \in ToSet(sessions) \cup ToSet(windows)
        THEN None
        ELSE Some([sessions |-> [i \in DOMAIN sessions |-> sessions[i][1]],
                   windows |-> [i \in DOMAIN windows |-> windows[i][1]]])

\* The panes in the order `fold` reads them.
ReadingOrder(rows) ==
    LET byWindow == GroupBy(rows, {"window_id"})
    IN  FlattenSeq([i \in DOMAIN byWindow |->
                       Heads(GroupBy(byWindow[i], {"pane_id"}))])
=============================================================================
