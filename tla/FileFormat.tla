----------------------------- MODULE FileFormat -----------------------------
(***************************************************************************)
(* phoenix-store's generation file: what header.rs and codec.rs write,     *)
(* what they and codec_v1.rs read back, and what they refuse.              *)
(*                                                                         *)
(* A file is a sequence of fields, each with the primitive it is written   *)
(* as (binary.rs); lengths count fields.  The checksum of a body is the    *)
(* body, and the hash of a text the text.  A zero is the empty string.     *)
(* `blobs` says which texts are in the blob directory, and whether whole.  *)
(***************************************************************************)
EXTENDS SnapshotGraph

U8(n) == <<[as |-> "u8", is |-> n]>>
U32(n) == <<[as |-> "u32", is |-> n]>>
I64(n) == <<[as |-> "i64", is |-> n]>>
U64(n) == <<[as |-> "u64", is |-> n]>>
Str(s) == <<[as |-> "str", is |-> s]>>
Bytes(b) == <<[as |-> "bytes", is |-> b]>>
Sum(body) == <<[as |-> "sum", is |-> body]>>

WriteVec(items, Field(_)) ==
    U32(Len(items)) \o FlattenSeq([i \in DOMAIN items |-> Field(items[i])])

WriteOption(option, Field(_)) ==
    IF option = None THEN U8(0) ELSE U8(1) \o Field(option[1])

\* The tag byte of a variant is its place in its enum.
TagOf(variants, variant) == SelectInSeq(variants, LAMBDA v : v = variant) - 1

-----------------------------------------------------------------------------
(***************************************************************************)
(* codec.rs, writing.                                                      *)
(***************************************************************************)
\* A reason that carries the system's message is written with it.
WriteReason(reasons, reason) ==
    U8(TagOf(reasons, reason))
    \o (IF reason \in {"Os", "CapturePane"} THEN Str(1) ELSE <<>>)

WriteForeground(f) ==
    IF f.is = "shell" THEN U8(0)
    ELSE IF f.is = "program"
         THEN U8(1) \o WriteVec(<<f.argv>>, Str)
         ELSE U8(2) \o WriteReason(RecoveryFailures, f.reason)

WriteContent(c) ==
    IF c.is = "captured"
    THEN U8(1) \o U64(c.indicator) \o Bytes(c.scrollback) \o Bytes(c.visible)
    ELSE U8(0) \o WriteReason(ContentFailures, c.reason)

EncodePane(pane) ==
    U32(pane.id) \o U32(pane.index) \o WriteOption(pane.cwd, Str)
    \o WriteForeground(pane.foreground) \o WriteContent(pane.content)

WriteStamp(made) == I64(made[1]) \o U32(made[2])

EncodeWindow(w) ==
    U32(w.id)
    \o (IF w.made = None THEN U8(0) ELSE U8(1) \o WriteStamp(w.made))
    \o Str(w.name) \o Str(w.layout) \o U8(IF w.zoomed THEN 1 ELSE 0)
    \o WriteVec(w.panes, EncodePane) \o U32(w.active)

WriteLink(link) == U32(link.index) \o U32(link.window)

EncodeSession(s) ==
    Str(s.name) \o WriteOption(s.group, Str) \o WriteVec(s.links, WriteLink)
    \o U32(s.active) \o WriteOption(s.last, U32)

WriteClient(client) == Str(client.name) \o Str(client.session)

EncodeBody(s) ==
    U32(s.tmux_version) \o WriteOption(s.touched, I64)
    \o WriteVec(s.windows, EncodeWindow) \o WriteVec(s.sessions, EncodeSession)
    \o WriteVec(s.clients, WriteClient)

\* The texts that `encode_body` puts into the blob store as it goes.
TextsOf(snapshot) ==
    UNION {{c.scrollback, c.visible} :
             c \in {p.content : p \in {q \in PanesOf(snapshot) :
                                          q.content.is = "captured"}}}

(***************************************************************************)
(* header.rs, writing.                                                     *)
(***************************************************************************)
Magic == [as |-> "magic", is |-> 0]
BeforeOrigin == 1
Current == 2

WriteOrigin(server) == U32(server.pid) \o I64(server.start)

EncodeFile(snapshot, tag) ==
    LET body == EncodeBody(snapshot)
        header == WriteOption(snapshot.origin, WriteOrigin)
                  \o I64(snapshot.captured_at) \o WriteOption(tag, Str)
                  \o U64(Len(body)) \o Sum(body)
    IN  <<Magic>> \o U32(Current) \o U32(Len(header)) \o header \o body

-----------------------------------------------------------------------------
(***************************************************************************)
(* binary.rs and codec.rs, reading.  A reader holds the value it read      *)
(* last, those it got before for the item it is reading, the fields left,  *)
(* and the error that stopped it; once stopped it reads nothing more.      *)
(***************************************************************************)
Reader(fields) == [value |-> None, got |-> <<>>, left |-> fields, error |-> "none"]
Runs(r) == r.error = "none"
Stop(r, error) == IF Runs(r) THEN [r EXCEPT !.error = error] ELSE r
Yield(r, value) == IF Runs(r) THEN [r EXCEPT !.value = value] ELSE r
StopUnless(holds, r, error) == IF Runs(r) /\ ~ holds THEN Stop(r, error) ELSE r

Take(r, as) ==
    IF ~ Runs(r) THEN r
    ELSE IF r.left = <<>> \/ Head(r.left).as # as THEN Stop(r, "Truncated")
    ELSE [r EXCEPT !.value = Head(r.left).is, !.left = Tail(r.left)]

TakeU32(r) == Take(r, "u32")
TakeI64(r) == Take(r, "i64")
TakeU64(r) == Take(r, "u64")
TakeSum(r) == Take(r, "sum")
TakeStr(r) == Take(r, "str")

\* One item after another: what has been got is kept beside the next.
Got(before, item) ==
    IF Runs(item) THEN [item EXCEPT !.got = Append(before.got, item.value)]
    ELSE item
Then(r, Item(_)) == Got(r, Item([r EXCEPT !.got = <<>>]))

\* What has been got, as a sequence, or as a record with these fields.
AsSeq(r) == Yield(r, r.got)
AsRecord(r, fields) ==
    Yield(r, [f \in ToSet(fields) |->
                 r.got[SelectInSeq(fields, LAMBDA g : g = f)]])
Extended(record, more) ==
    [f \in DOMAIN record \cup DOMAIN more |->
        IF f \in DOMAIN record THEN record[f] ELSE more[f]]
With(r, fields) == Yield(r, Extended(r.value, fields))

\* The constructors of the graph refuse what does not resolve.
Resolved(r, Resolves(_)) == StopUnless(Resolves(r.value), r, "Snapshot")

\* `read_name`: a string the newtype's `parse` takes, which the empty is not.
NotEmpty(name) == StopUnless(name.value # 0, name, "InvalidName")
TakeName(r) == NotEmpty(TakeStr(r))

Present(item) == Yield(item, Some(item.value))

ReadOption(r, Item(_)) ==
    LET tag == Take(r, "u8")
    IN  IF ~ Runs(tag) THEN tag
        ELSE IF tag.value = 0 THEN Yield(tag, None)
        ELSE IF tag.value = 1 THEN Present(Item(tag))
        ELSE Stop(tag, "InvalidTag")

ReadVec(r, Item(_)) ==
    LET count == TakeU32(r)
        items[n \in Nat] == IF n = 0 THEN [count EXCEPT !.got = <<>>]
                            ELSE Then(items[n - 1], Item)
    IN  IF Runs(count) THEN AsSeq(items[count.value]) ELSE count

SomeItem(items) == StopUnless(items.value # <<>>, items, "EmptyCollection")
ReadNonEmpty(r, Item(_)) == SomeItem(ReadVec(r, Item))

ReadReason(r, reasons) ==
    LET tag == Take(r, "u8")
        known == Runs(tag) /\ tag.value + 1 \in DOMAIN reasons
        reason == IF known THEN reasons[tag.value + 1] ELSE "unknown"
        rest == IF reason \in {"Os", "CapturePane"} THEN TakeStr(tag) ELSE tag
    IN  IF known THEN Yield(rest, reason) ELSE Stop(tag, "InvalidTag")

ReadForeground(r) ==
    LET tag == Take(r, "u8")
        argv == ReadNonEmpty(tag, TakeStr)
        reason == ReadReason(tag, RecoveryFailures)
    IN  IF ~ Runs(tag) THEN tag
        ELSE IF tag.value = 0 THEN Yield(tag, Shell)
        ELSE IF tag.value = 1 THEN Yield(argv, Program(argv.value[1]))
        ELSE IF tag.value = 2 THEN Yield(reason, Unrecovered(reason.value))
        ELSE Stop(tag, "InvalidTag")

\* Mutant: a blob that is not there leaves its pane without content.
ReadTextOrSkip(r, blobs) ==
    LET hash == Take(r, "bytes")
    IN  IF ~ Runs(hash) \/ hash.value \in DOMAIN blobs
        THEN hash ELSE Yield(hash, None)

\* A hash is read as the text whose blob it names, if that is there.
ReadText(r, blobs) ==
    LET hash == Take(r, "bytes")
    IN  IF ~ Runs(hash) THEN hash
        ELSE IF hash.value \notin DOMAIN blobs THEN Stop(hash, "BlobNotFound")
        ELSE StopUnless(blobs[hash.value] = "whole", hash, "Truncated")

AsCaptured(r) == Yield(r, Captured(r.got[1], r.got[2], r.got[3]))

ReadCaptured(r, blobs) ==
    LET indicator == Then([r EXCEPT !.got = <<>>], TakeU64)
        scrollback == Then(indicator, LAMBDA t : ReadText(t, blobs))
        visible == Then(scrollback, LAMBDA t : ReadText(t, blobs))
    IN  AsCaptured(visible)

ReadContent(r, blobs) ==
    LET tag == Take(r, "u8")
        reason == ReadReason(tag, ContentFailures)
    IN  IF ~ Runs(tag) THEN tag
        ELSE IF tag.value = 0 THEN Yield(reason, NotCaptured(reason.value))
        ELSE IF tag.value = 1 THEN ReadCaptured(tag, blobs)
        ELSE Stop(tag, "InvalidTag")

DecodePane(r, blobs) ==
    LET id == Then(r, TakeU32)
        index == Then(id, TakeU32)
        cwd == Then(index, LAMBDA c : ReadOption(c, TakeName))
        foreground == Then(cwd, ReadForeground)
        content == Then(foreground, LAMBDA c : ReadContent(c, blobs))
    IN  AsRecord(content, <<"id", "index", "cwd", "foreground", "content">>)

ReadStamp(r) == AsSeq(Then(Then(r, TakeI64), TakeU32))

\* The tag byte says whether the stamp follows, as for an option.
StampOrNone(made) ==
    IF Runs(made) /\ made.value # None THEN Yield(made, made.value[1]) ELSE made
ReadMade(r) == StampOrNone(ReadOption(r, ReadStamp))

ReadZoomed(r) ==
    LET zoomed == Take(r, "u8")
    IN  IF Runs(zoomed) /\ zoomed.value \in {0, 1}
        THEN Yield(zoomed, zoomed.value = 1) ELSE Stop(zoomed, "InvalidTag")

DecodeWindow(r, blobs) ==
    LET id == Then(r, TakeU32)
        made == Then(id, ReadMade)
        name == Then(made, TakeName)
        layout == Then(name, TakeName)
        zoomed == Then(layout, ReadZoomed)
        panes == Then(zoomed, LAMBDA p :
                    ReadNonEmpty(p, LAMBDA q : DecodePane(q, blobs)))
        active == Then(panes, TakeU32)
    IN  Resolved(AsRecord(active, <<"id", "made", "name", "layout", "zoomed",
                                    "panes", "active">>), IsWindow)

ReadLink(r) ==
    AsRecord(Then(Then(r, TakeU32), TakeU32), <<"index", "window">>)

DecodeSession(r) ==
    LET name == Then(r, TakeName)
        group == Then(name, LAMBDA g : ReadOption(g, TakeName))
        links == Then(group, LAMBDA l : ReadNonEmpty(l, ReadLink))
        active == Then(links, TakeU32)
        last == Then(active, LAMBDA l : ReadOption(l, TakeU32))
    IN  Resolved(AsRecord(last, <<"name", "group", "links", "active", "last">>),
                 IsSession)

ReadClient(r) ==
    AsRecord(Then(Then(r, TakeName), TakeName), <<"name", "session">>)

\* What is left over is as wrong as what is missing.
NothingLeft(r) == StopUnless(r.left = <<>>, r, "Truncated")

IsGraph(s) == IsSnapshot(s.windows, s.sessions, s.clients)

DecodeBody(fields, origin, captured_at, blobs) ==
    LET version == Then(Reader(fields), TakeU32)
        touched == Then(version, LAMBDA t : ReadOption(t, TakeI64))
        windows == Then(touched, LAMBDA w :
                      ReadNonEmpty(w, LAMBDA v : DecodeWindow(v, blobs)))
        sessions == Then(windows, LAMBDA s : ReadNonEmpty(s, DecodeSession))
        clients == Then(sessions, LAMBDA c : ReadVec(c, ReadClient))
        read == AsRecord(NothingLeft(clients),
                    <<"tmux_version", "touched", "windows", "sessions", "clients">>)
    IN  Resolved(With(read, [origin |-> origin, captured_at |-> captured_at]),
                 IsGraph)

-----------------------------------------------------------------------------
(***************************************************************************)
(* codec_v1.rs: the body of the format before this one, a tree of sessions *)
(* that hold their windows.                                                *)
(***************************************************************************)
ForegroundV1(command, argv) ==
    IF argv = None THEN Unrecovered("NotRecorded")
    ELSE ForegroundOf(ForegroundOf(TRUE, command) = Shell, argv[1][1])

PaneV1(p) ==
    [id |-> p.id, index |-> p.index, cwd |-> p.cwd,
     foreground |-> ForegroundV1(p.command, p.argv),
     content |-> IF p.content = None THEN NotCaptured("NotRecorded")
                                     ELSE p.content[1]]
AsPaneV1(r) == Yield(r, PaneV1(r.value))

DecodePaneV1(r, blobs) ==
    LET id == Then(r, TakeU32)
        index == Then(id, TakeU32)
        cwd == Then(index, LAMBDA c : ReadOption(c, TakeName))
        command == Then(cwd, TakeStr)
        argv == Then(command, LAMBDA a :
                   ReadOption(a, LAMBDA b : ReadNonEmpty(b, TakeStr)))
        content == Then(argv, LAMBDA c :
                      ReadOption(c, LAMBDA d : ReadCaptured(d, blobs)))
    IN  AsPaneV1(AsRecord(content, <<"id", "index", "cwd", "command", "argv",
                                     "content">>))

\* A window and the index its session links it at.
DecodeWindowV1(r, blobs) ==
    LET index == Then(r, TakeU32)
        name == Then(index, TakeName)
        layout == Then(name, TakeName)
        panes == Then(layout, LAMBDA p :
                    ReadNonEmpty(p, LAMBDA q : DecodePaneV1(q, blobs)))
        active == Then(panes, TakeU32)
    IN  Resolved(AsRecord(active, <<"index", "name", "layout", "panes",
                                    "active">>), IsWindow)

DecodeSessionV1(r, blobs) ==
    LET name == Then(r, TakeName)
        links == Then(name, LAMBDA l :
                    ReadNonEmpty(l, LAMBDA w : DecodeWindowV1(w, blobs)))
        active == Then(links, TakeU32)
    IN  Resolved(With(AsRecord(active, <<"name", "links", "active">>),
                      [group |-> None, last |-> None]), IsSession)

\* Mutant: every session numbers its windows from nought.
WithIdsPerSession(trees, s, i) == i - 1

\* A window is numbered by how many were decoded before it.
WithIds(trees, s, i) ==
    Len(FlattenSeq([t \in 1 .. (s - 1) |-> trees[t].links])) + i - 1

WindowV1(window, id) ==
    [id |-> id, made |-> None, name |-> window.name, layout |-> window.layout,
     zoomed |-> FALSE, panes |-> window.panes, active |-> window.active]

\* The graph of a tree: each window once, each link by its id.
GraphV1(trees) ==
    [windows |-> FlattenSeq([s \in DOMAIN trees |->
        [i \in DOMAIN trees[s].links |->
            WindowV1(trees[s].links[i], WithIds(trees, s, i))]]),
     sessions |-> [s \in DOMAIN trees |->
        [trees[s] EXCEPT !.links =
            [i \in DOMAIN @ |-> [index |-> @[i].index,
                                 window |-> WithIds(trees, s, i)]]]],
     clients |-> <<>>]
AsGraphV1(r, captured_at) ==
    Yield(r, Extended(GraphV1(r.got[3]),
                    [origin |-> None, touched |-> None,
                     captured_at |-> captured_at, tmux_version |-> r.got[1]]))

DecodeBodyV1(fields, captured_at, blobs) ==
    LET version == Then(Reader(fields), TakeU32)
        inBody == Then(version, TakeI64)
        sessions == Then(inBody, LAMBDA t :
                       ReadNonEmpty(t, LAMBDA s : DecodeSessionV1(s, blobs)))
    IN  Resolved(AsGraphV1(NothingLeft(sessions), captured_at), IsGraph)

-----------------------------------------------------------------------------
(***************************************************************************)
(* header.rs, reading.                                                     *)
(***************************************************************************)
HeaderLengthV1 == 5

ReadOrigin(r) ==
    AsRecord(Then(Then(r, TakeU32), TakeI64), <<"pid", "start">>)

DecodeHeaderV1(file) ==
    IF Len(file) < HeaderLengthV1 THEN Stop(Reader(file), "Truncated")
    ELSE Yield(Reader(<<>>),
               [version |-> BeforeOrigin, origin |-> None, tag |-> None,
                captured_at |-> file[3].is, length |-> file[4].is,
                sum |-> file[5].is, start |-> HeaderLengthV1])

\* The fields of the header proper, which is `start - 3` fields long.
ReadHeader(file, start) ==
    LET origin == Then(Reader(SubSeq(file, 4, start)),
                       LAMBDA o : ReadOption(o, ReadOrigin))
        captured_at == Then(origin, TakeI64)
        tag == Then(captured_at, LAMBDA t : ReadOption(t, TakeName))
        length == Then(tag, TakeU64)
        sum == Then(length, TakeSum)
    IN  With(AsRecord(NothingLeft(sum), <<"origin", "captured_at", "tag",
                                          "length", "sum">>),
             [version |-> Current, start |-> start])

DecodeHeaderCurrent(file) ==
    IF Len(file) < 3 \/ Len(file) < 3 + file[3].is
    THEN Stop(Reader(file), "Truncated")
    ELSE ReadHeader(file, 3 + file[3].is)

DecodeHeader(file) ==
    IF Len(file) < 2 THEN Stop(Reader(file), "Truncated")
    ELSE IF file[1] # Magic THEN Stop(Reader(file), "BadMagic")
    ELSE IF file[2].is = BeforeOrigin THEN DecodeHeaderV1(file)
    ELSE IF file[2].is = Current THEN DecodeHeaderCurrent(file)
    ELSE Stop(Reader(file), "UnsupportedFormatVersion")

\* Mutant: the length of the body is checked and its sum is not.
AnySum(body, header) == TRUE

SumMatches(body, header) == body = header.sum

DecodeBodyOf(body, header, blobs) ==
    IF Len(body) # header.length THEN Stop(Reader(body), "Truncated")
    ELSE IF ~ SumMatches(body, header) THEN Stop(Reader(body), "ChecksumMismatch")
    ELSE IF header.version = BeforeOrigin
         THEN DecodeBodyV1(body, header.captured_at, blobs)
         ELSE DecodeBody(body, header.origin, header.captured_at, blobs)

DecodeRest(file, read, blobs) ==
    IF ~ Runs(read) THEN read
    ELSE DecodeBodyOf(SubSeq(file, read.value.start + 1, Len(file)), read.value,
                      blobs)

DecodeFile(file, blobs) == DecodeRest(file, DecodeHeader(file), blobs)

-----------------------------------------------------------------------------
(***************************************************************************)
(* Outside the source: a file that a phoenix before this format wrote, of  *)
(* sessions that hold their windows, and what a disk may do to a file.     *)
(***************************************************************************)
EncodePaneV1(pane) ==
    U32(pane.id) \o U32(pane.index) \o WriteOption(pane.cwd, Str)
    \o Str(pane.command)
    \o WriteOption(pane.argv, LAMBDA a : WriteVec(<<a>>, Str))
    \o WriteOption(pane.content,
          LAMBDA c : U64(c.indicator) \o Bytes(c.scrollback) \o Bytes(c.visible))

EncodeWindowV1(w) ==
    U32(w.index) \o Str(w.name) \o Str(w.layout)
    \o WriteVec(w.panes, EncodePaneV1) \o U32(w.active)

EncodeSessionV1(s) ==
    Str(s.name) \o WriteVec(s.windows, EncodeWindowV1) \o U32(s.active)

\* What such a phoenix had to write: a tree that resolves, with no empty names.
IsUnsetOrText(option) == option # None => option = Some(option[1])

IsOldPane(p) ==
    /\ IsUnsetOrText(p.cwd) /\ (p.cwd # None => p.cwd[1] # 0)
    /\ IsUnsetOrText(p.argv) /\ IsUnsetOrText(p.content)

IsOldWindow(w) ==
    /\ w.name # 0 /\ w.layout # 0 /\ IsWindow(w)
    /\ w.panes \in Seq(ToSet(w.panes))
    /\ \A p \in ToSet(w.panes) : IsOldPane(p)

IsOldSession(s) ==
    /\ s.name # 0
    /\ IsSession([links |-> s.windows, active |-> s.active, last |-> None])
    /\ s.windows \in Seq(ToSet(s.windows))
    /\ \A w \in ToSet(s.windows) : IsOldWindow(w)

IsTree(tree) ==
    /\ tree.captured_at \in Int /\ tree.sessions # <<>>
    /\ tree.sessions \in Seq(ToSet(tree.sessions))
    /\ ~ HasDuplicate(Names(tree.sessions))
    /\ \A s \in ToSet(tree.sessions) : IsOldSession(s)

\* The texts whose blobs were written before it.
TextsOfTree(tree) ==
    LET windows == UNION {ToSet(s.windows) : s \in ToSet(tree.sessions)}
        panes == UNION {ToSet(w.panes) : w \in windows}
    IN  UNION {{c.scrollback, c.visible} : c \in UNION {ToSet(p.content) : p \in panes}}

EncodeFileV1(tree) ==
    LET body == U32(tree.tmux_version) \o I64(tree.captured_at)
                \o WriteVec(tree.sessions, EncodeSessionV1)
    IN  <<Magic>> \o U32(BeforeOrigin) \o I64(tree.captured_at)
        \o U64(Len(body)) \o Sum(body) \o body

\* The snapshot holds the sessions, windows and panes of the tree.
IsTreeOf(tree, s) ==
    /\ Len(s.sessions) = Len(tree.sessions)
    /\ \A i \in DOMAIN s.sessions :
          LET session == s.sessions[i]
              old == tree.sessions[i]
          IN  /\ <<session.name, session.active>> = <<old.name, old.active>>
              /\ Len(session.links) = Len(old.windows)
              /\ \A j \in DOMAIN session.links :
                    \E w \in ToSet(s.windows) :
                       /\ session.links[j] = [index |-> old.windows[j].index,
                                              window |-> w.id]
                       /\ <<w.name, w.layout, w.active>> =
                             <<old.windows[j].name, old.windows[j].layout,
                               old.windows[j].active>>
                       /\ Ids(w.panes) = Ids(old.windows[j].panes)
    /\ Len(s.windows) = Len(FlattenSeq([i \in DOMAIN tree.sessions |->
                                          tree.sessions[i].windows]))

\* A field keeps its length and changes its value: a text to `other`, a
\* number by one.
Altered(field, by, other) ==
    IF field.as = "bytes" THEN [field EXCEPT !.is = other]
    ELSE IF field.as = "sum" THEN [field EXCEPT !.is = <<>>]
    ELSE [field EXCEPT !.is = Max({0, @ + by})]
=============================================================================
