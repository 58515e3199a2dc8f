----------------------------- MODULE ControlMode -----------------------------
(***************************************************************************)
(* What tmux's control mode says, as phoenix reads it: the codec of        *)
(* tmux-control/src/protocol/codec.rs, which knows whether a block is      *)
(* open, and the demux of client/demux.rs, which gathers a block's lines.  *)
(*                                                                         *)
(* A line is a record: how it looks, which is all the codec has to go by,  *)
(* what tmux wrote it for, which only properties look at, and its place    *)
(* among all lines written.  A line of a command's output may look like    *)
(* anything.                                                               *)
(***************************************************************************)
EXTENDS Integers, Sequences, Functions

\* "broken" is an %end or %error whose fields do not parse; "event" any
\* notification, pane output included; "unknown" everything else.
Looks == {"begin", "end", "error", "broken", "event", "unknown"}

\* A codec and a demux with nothing begun: no block open, no lines of it
\* gathered, no line whose newline has not been read.
Fresh == [open |-> FALSE, lines |-> <<>>, half |-> <<>>]

\* Mutant: a terminator that does not parse leaves its block open.
ClosesParsed(line) == line.looks \in {"end", "error"}

\* `is_terminator`: by its type alone, whether or not its fields parse.
Closes(line) == line.looks \in {"end", "error", "broken"}

\* Mutant: what looks like a notification is one, wherever it stands.
IsPlainOutput(codec, line) == codec.open /\ ~ Closes(line) /\ line.looks # "event"

\* Inside a block every line but the terminator is output, by position.
IsOutput(codec, line) == codec.open /\ ~ Closes(line)

\* Outside a block a terminator settles one all the same, when it parses.
Settles(codec, line) ==
    line.looks \in {"end", "error"} \/ (codec.open /\ line.looks = "broken")

\* Mutant: the lines of a block that broke stay for the next.
BrokenKept(codec, line) == IF line.looks = "broken" THEN codec.lines ELSE <<>>

\* What is left of the lines gathered once a terminator is read.
LinesLeft(codec, line) == <<>>

\* Outside a block `%begin` opens one.
Begins(codec, line) == ~ codec.open /\ line.looks = "begin"

\* `process_line` and `Demux::route`: the codec after one more line.
AfterLine(codec, line) ==
    IF IsOutput(codec, line) THEN [codec EXCEPT !.lines = Append(@, line)]
    ELSE IF Begins(codec, line) THEN [codec EXCEPT !.open = TRUE]
    ELSE IF Settles(codec, line)
         THEN [codec EXCEPT !.open = FALSE, !.lines = LinesLeft(codec, line)]
    ELSE codec

\* The reply a terminator settles, with what was gathered unless it is broken.
ReplyOf(codec, line) ==
    [is |-> "reply", at |-> line.at, how |-> line.looks,
     lines |-> IF line.looks = "broken" THEN <<>> ELSE codec.lines]

\* What is no part of a block is an event, `Unknown` included: nothing is
\* dropped.
IsEvent(codec, line) ==
    ~ (IsOutput(codec, line) \/ Begins(codec, line) \/ Settles(codec, line))

\* The buffer with the bytes that complete it: another line's rest makes a
\* line of neither.
Completed(half, line) ==
    IF half \in {<<>>, <<line>>} THEN line ELSE [line EXCEPT !.looks = "unknown"]
=============================================================================
