---------------------------- MODULE ClientProofs ----------------------------
(***************************************************************************)
(* Proofs about Client for every number of commands, notifications,        *)
(* transports and lines of output, whatever those lines look like: its     *)
(* inductive invariants, and the two safety properties they give.          *)
(***************************************************************************)
EXTENDS Client, SequenceTheorems, TLAPS

Line == [looks : Looks, at : Nat, link : Nat, is : {"event", "frame", "output"},
         of : Nat]

Reply == [is : {"reply"}, at : Nat, how : Looks, lines : Seq(Line)]

\* The types of everything, and what keeps them: the lines gathered have been
\* read, and what is in the buffer is the beginning of the next.
TypeInv ==
    /\ tmux \in [alive : BOOLEAN, greeted : BOOLEAN, unanswered : Seq(Nat)]
    /\ written \in Seq(Line) /\ read \in 0 .. Len(written)
    /\ codec \in [open : BOOLEAN, lines : Seq(Line), half : Seq(Line)]
    /\ more \in BOOLEAN /\ (more => read < Len(written) /\ codec.half = <<>>)
    /\ codec.half # <<>> =>
          read < Len(written) /\ codec.half = <<written[read + 1]>>
    /\ \A i \in DOMAIN codec.lines :
          codec.lines[i].at \in 1..read /\ written[codec.lines[i].at] = codec.lines[i]
    /\ replies \in Seq(Reply)
    /\ \A i \in DOMAIN replies : replies[i].at \in 1..read
    /\ state \in {"connecting", "reconnecting", "ready"} \cup Reasons
    /\ call \in {"none", "greeting", "executing", "dropped"}
    /\ call = "greeting" <=> state \in {"connecting", "reconnecting"}
    /\ call = "executing" => state = "ready" /\ command # 0
    /\ since \in 0..read /\ command \in 0..MaxCommands /\ link \in Nat
    /\ heard \in Seq(Line)
    /\ results \in [Commands -> Reply \cup {Pending, Failed}]
    /\ \A k \in 1 .. Len(written) : written[k].at = k

\* A line within a block, its terminator excepted.
Begin(line) == line.is = "frame" /\ line.looks = "begin"
Inside(line) == line.is = "output" \/ Begin(line)
End(line) == line.is = "frame" /\ line.looks \in {"end", "error", "broken"}

\* What tmux writes is events and whole blocks.
WellFormed ==
    \A k \in 1 .. Len(written) :
        /\ written[k].link <= link /\ (k > read => written[k].link = link)
        /\ written[k].of <= command
        /\ written[k].is = "event" => written[k].looks = "event" /\ written[k].of = 0
        /\ IF k > 1 /\ written[k - 1].link = written[k].link /\ Inside(written[k - 1])
           THEN /\ written[k].is = "output" \/ End(written[k])
                /\ written[k].of = written[k - 1].of
           ELSE written[k].is = "event" \/ Begin(written[k])

\* Only its exit leaves one without its end.
BlocksEnd ==
    tmux.alive /\ Len(written) > 0 /\ written[Len(written)].link = link
        => ~ Inside(written[Len(written)])

\* There is no more than one block for each command and for each greeting.
OneBlock ==
    \A j, k \in 1 .. Len(written) :
        /\ j < k /\ written[j].is # "event" /\ written[k].is # "event"
        /\ written[j].of = written[k].of
        /\ written[j].of # 0 \/ written[j].link = written[k].link
        => /\ written[j].link = written[k].link
           /\ Inside(written[j]) /\ ~ Begin(written[k])

\* What waits for an answer has none yet, and waits once.
Unanswered ==
    /\ \A i \in DOMAIN tmux.unanswered :
         /\ tmux.unanswered[i] \in 1..command
         /\ \A k \in 1 .. Len(written) : written[k].of # tmux.unanswered[i]
    /\ \A i, j \in DOMAIN tmux.unanswered :
         i < j => tmux.unanswered[i] # tmux.unanswered[j]

\* The greeting comes before any other block.
Ungreeted ==
    ~ tmux.greeted =>
        \A k \in 1 .. Len(written) : written[k].link = link => written[k].is = "event"

WrittenInv == WellFormed /\ BlocksEnd /\ OneBlock /\ Unanswered /\ Ungreeted

\* Nothing read on this transport looked like the end of its block.
PlainSoFar ==
    \A k \in 1..read : written[k].link = link /\ written[k].is = "output"
                          => ~ Closes(written[k])

WithinBlock == read > 0 /\ written[read].link = link /\ Inside(written[read])

\* The codec knows whether a block is open, and its lines are gathered from
\* the line that began it.
ReaderInv ==
    PlainSoFar =>
        /\ codec.open = WithinBlock
        /\ ~ WithinBlock => codec.lines = <<>>
        /\ WithinBlock =>
             /\ Len(codec.lines) < read
             /\ Begin(written[read - Len(codec.lines)])
             /\ written[read - Len(codec.lines)].of = written[read].of
             /\ \A i \in 1 .. Len(codec.lines) :
                  /\ codec.lines[i] = written[read - Len(codec.lines) + i]
                  /\ codec.lines[i].is = "output"
                  /\ codec.lines[i].of = written[read].of

\* A settled block is one that was read since the call began, whole, with all
\* the lines written for its command.
IsWhole(reply) ==
    LET terminator == written[reply.at]
    IN  /\ End(terminator) /\ reply.how = terminator.looks
        /\ IF terminator.looks = "broken" THEN reply.lines = <<>>
           ELSE terminator.of # 0 => AreOutputOf(reply.lines, terminator.of)

SettledInv ==
    \A reply \in Range(replies) :
        /\ reply.at > since /\ written[reply.at].link = link
        /\ PlainSoFar => IsWhole(reply)

\* Whom the block that is due answers.
Asked == IF call = "executing" THEN command ELSE 0

\* No more than one block is due, and it is for the call that waits.
AskedInv ==
    PlainSoFar /\ state \notin Reasons =>
        /\ Len(replies) <= 1
        /\ replies # <<>> => Calling /\ written[replies[1].at].of = Asked
        /\ \A k \in read + 1 .. Len(written) :
             written[k].is # "event" =>
                Calling /\ written[k].of = Asked /\ replies = <<>>
                /\ tmux.unanswered = <<>> /\ tmux.greeted
        /\ tmux.unanswered # <<>> =>
             call = "executing" /\ tmux.unanswered = <<command>> /\ replies = <<>>
        /\ ~ tmux.greeted => call = "greeting" /\ replies = <<>>

\* What the sinks were given, on this transport and on those before.
HeardInv ==
    /\ InOrder(heard)
    /\ \A i \in DOMAIN heard : heard[i].at \in 1..read /\ heard[i].link <= link
    /\ PlainSoFar =>
         /\ \A i \in DOMAIN heard : heard[i].link = link =>
               heard[i].is = "event" /\ heard[i] = written[heard[i].at]
         /\ \A k \in 1..read : written[k].link = link /\ written[k].is = "event"
               => \E i \in DOMAIN heard : heard[i] = written[k]

-----------------------------------------------------------------------------
\* The line that comes next is read as it was written.
LEMMA NextLine ==
    ASSUME TypeInv, read < Len(written)
    PROVE  /\ written[read + 1] \in Line /\ written[read + 1].at = read + 1
           /\ Completed(codec.half, written[read + 1]) = written[read + 1]
  <1>1. read + 1 \in 1 .. Len(written)
    BY DEF TypeInv
  <1>2. written[read + 1] \in Line /\ written[read + 1].at = read + 1
    BY <1>1, ElementOfSeq DEF TypeInv
  <1>3. codec.half \in {<<>>, <<written[read + 1]>>}
    BY DEF TypeInv
  <1> QED
    BY <1>2, <1>3 DEF Completed

\* The codec, the replies and the events after one more line.
LEMMA ReadFacts ==
    ASSUME TypeInv, ReadLine, NEW line, line = written[read + 1]
    PROVE  /\ read < Len(written) /\ read' = read + 1
           /\ line \in Line /\ line.at = read + 1
           /\ codec'.open = AfterLine(codec, line).open
           /\ codec'.lines = AfterLine(codec, line).lines
           /\ codec' \in [open : BOOLEAN, lines : Seq(Line), half : Seq(Line)]
           /\ more' \in BOOLEAN
           /\ more' => read' < Len(written) /\ codec'.half = <<>>
           /\ codec'.half # <<>> =>
                 read' < Len(written) /\ codec'.half = <<written[read' + 1]>>
           /\ Dispatch(line)
           /\ Calling /\ (more \/ replies = <<>>)
           /\ UNCHANGED <<tmux, written, state, call, since, command, link, results>>
  <1> DEFINE after == AfterLine(codec, line)
  <1>1. read < Len(written) /\ read' = read + 1 /\ Calling /\ (more \/ replies = <<>>)
        /\ UNCHANGED <<tmux, written, state, call, since, command, link, results>>
    BY DEF ReadLine, Reading
  <1>2. line \in Line /\ line.at = read + 1
        /\ Completed(codec.half, written[read + 1]) = line
    BY <1>1, NextLine
  <1>3. /\ Dispatch(line)
        /\ \/ /\ more' = TRUE /\ read + 1 < Len(written)
              /\ codec' = [after EXCEPT !.half = <<>>]
           \/ /\ more' = FALSE
              /\ \E half \in Halves(read + 1) : codec' = [after EXCEPT !.half = half]
    BY <1>2 DEF ReadLine
  <1>4. after \in [open : BOOLEAN, lines : Seq(Line), half : Seq(Line)]
    <2>1. Append(codec.lines, line) \in Seq(Line)
      BY <1>2, AppendProperties DEF TypeInv
    <2>2. <<>> \in Seq(Line)
      BY EmptySeq
    <2> QED
      BY <2>1, <2>2 DEF AfterLine, TypeInv, LinesLeft
  <1>5. Halves(read + 1) \subseteq Seq(Line)
        /\ \A half \in Halves(read + 1) : half # <<>> =>
              read + 1 < Len(written) /\ half = <<written[read + 2]>>
    <2>1. /\ written \in Seq(Line) /\ read \in Nat /\ Len(written) \in Nat
          /\ DOMAIN written = 1 .. Len(written)
      BY LenProperties DEF TypeInv
    <2>2. \A k \in DOMAIN written : written[k] \in Line
      BY <2>1, ElementOfSeq
    <2>3. Halves(read + 1) \subseteq Seq(Line)
      <3>1. \A k \in DOMAIN written : <<written[k]>> \in Seq(Line)
        BY <2>2
      <3> QED
        BY <3>1, EmptySeq DEF Halves
    <2> SUFFICES ASSUME NEW half \in Halves(read + 1), half # <<>>
                 PROVE  read + 1 < Len(written) /\ half = <<written[read + 2]>>
      BY <2>3
    <2>4. PICK k \in {read + 1 + 1} \cap DOMAIN written : half = <<written[k]>>
      BY DEF Halves
    <2>5. k = read + 2 /\ read + 2 <= Len(written)
      BY <2>1, <2>4
    <2> QED
      BY <2>1, <2>4, <2>5
  <1>6. PICK half \in Seq(Line) :
           /\ codec' = [after EXCEPT !.half = half]
           /\ more' \in BOOLEAN
           /\ more' => read + 1 < Len(written) /\ half = <<>>
           /\ half # <<>> => read + 1 < Len(written) /\ half = <<written[read + 2]>>
    BY <1>3, <1>5, EmptySeq
  <1>7. codec'.open = after.open /\ codec'.lines = after.lines /\ codec'.half = half
        /\ codec' \in [open : BOOLEAN, lines : Seq(Line), half : Seq(Line)]
    <2> HIDE DEF after
    <2> QED
      BY <1>4, <1>6
  <1> QED
    BY <1>1, <1>2, <1>3, <1>6, <1>7 DEF TypeInv

\* Where the elements of two sequences are in their concatenation.
LEMMA ConcatAt ==
    ASSUME NEW S, NEW s1 \in Seq(S), NEW s2 \in Seq(S)
    PROVE  /\ s1 \o s2 \in Seq(S) /\ Len(s1 \o s2) = Len(s1) + Len(s2)
           /\ \A k \in 1 .. Len(s1) : (s1 \o s2)[k] = s1[k]
           /\ \A k \in 1 .. Len(s2) : (s1 \o s2)[Len(s1) + k] = s2[k]
  <1> DEFINE s == s1 \o s2
  <1>1. /\ s \in Seq(S) /\ Len(s) = Len(s1) + Len(s2)
        /\ \A i \in 1 .. Len(s1) + Len(s2) :
              s[i] = IF i <= Len(s1) THEN s1[i] ELSE s2[i - Len(s1)]
    BY ConcatProperties
  <1>2. Len(s1) \in Nat /\ Len(s2) \in Nat
    BY LenProperties
  <1> HIDE DEF s
  <1>3. \A k \in 1 .. Len(s1) : s[k] = s1[k]
    BY <1>1, <1>2
  <1>4. \A k \in 1 .. Len(s2) : s[Len(s1) + k] = s2[k]
    <2> TAKE k \in 1 .. Len(s2)
    <2>1. /\ Len(s1) + k \in 1 .. Len(s1) + Len(s2) /\ ~ (Len(s1) + k <= Len(s1))
          /\ Len(s1) + k - Len(s1) = k
      BY <1>2
    <2> QED
      BY <1>1, <2>1
  <1> USE DEF s
  <1> QED
    BY <1>1, <1>3, <1>4

\* What tmux writes follows what it wrote.
LEMMA WriteFacts ==
    ASSUME TypeInv, NEW lines \in Seq(Looks), Len(lines) > 0, Write(lines),
           tmux.greeted /\ Len(lines) > 1 => tmux.unanswered # <<>>
    PROVE  /\ written' \in Seq(Line)
           /\ Len(written') = Len(written) + Len(lines)
           /\ \A k \in 1 .. Len(written) : written'[k] = written[k]
           /\ \A k \in 1 .. Len(written') : written'[k].at = k
           /\ \A k \in 1 .. Len(lines) :
                LET line == written'[Len(written) + k]
                IN  /\ line.looks = lines[k] /\ line.link = link
                    /\ line.is = IF Len(lines) = 1 THEN "event"
                                 ELSE IF k \in {1, Len(lines)} THEN "frame"
                                 ELSE "output"
                    /\ line.of = IF tmux.greeted /\ Len(lines) > 1
                                 THEN Head(tmux.unanswered) ELSE 0
           /\ UNCHANGED <<read, codec, more, replies, state, call, since, command,
                          link, heard, results>>
  <1> DEFINE new == [k \in DOMAIN lines |->
          [looks |-> lines[k], at |-> Len(written) + k, link |-> link,
           is |-> IF Len(lines) = 1 THEN "event"
                  ELSE IF k \in {1, Len(lines)} THEN "frame" ELSE "output",
           of |-> IF tmux.greeted /\ Len(lines) > 1 THEN Head(tmux.unanswered) ELSE 0]]
  <1>1. written' = written \o new
    BY DEF Write
  <1>2. written \in Seq(Line) /\ Len(written) \in Nat /\ link \in Nat
    BY LenProperties DEF TypeInv
  <1>3. Len(lines) \in Nat /\ DOMAIN lines = 1 .. Len(lines)
        /\ \A k \in DOMAIN lines : lines[k] \in Looks
    BY LenProperties, ElementOfSeq
  <1>4. tmux.greeted /\ Len(lines) > 1 => Head(tmux.unanswered) \in Nat
    BY HeadTailProperties DEF TypeInv
  <1>5. new \in Seq(Line) /\ Len(new) = Len(lines)
    <2>1. \A k \in DOMAIN lines : new[k] \in Line
      BY <1>2, <1>3, <1>4 DEF Line
    <2>2. new \in [1 .. Len(lines) -> Line]
      BY <1>3, <2>1
    <2> HIDE DEF new
    <2> QED
      BY <1>3, <2>2, LenProperties
  <1>6. /\ written' \in Seq(Line) /\ Len(written') = Len(written) + Len(lines)
        /\ \A k \in 1 .. Len(written) : written'[k] = written[k]
        /\ \A k \in 1 .. Len(lines) : written'[Len(written) + k] = new[k]
    <2>1. PICK added \in Seq(Line) : added = new
      BY <1>5
    <2> HIDE DEF new
    <2>2. /\ written \o added \in Seq(Line)
          /\ Len(written \o added) = Len(written) + Len(added)
          /\ \A k \in 1 .. Len(written) : (written \o added)[k] = written[k]
          /\ \A k \in 1 .. Len(added) : (written \o added)[Len(written) + k] = added[k]
      BY <1>2, ConcatAt
    <2> QED
      BY <1>1, <1>5, <2>1, <2>2, Zenon
  <1>7. \A k \in 1 .. Len(lines) :
          LET line == written'[Len(written) + k]
          IN  /\ line.looks = lines[k] /\ line.link = link /\ line.at = Len(written) + k
              /\ line.is = IF Len(lines) = 1 THEN "event"
                           ELSE IF k \in {1, Len(lines)} THEN "frame" ELSE "output"
              /\ line.of = IF tmux.greeted /\ Len(lines) > 1
                           THEN Head(tmux.unanswered) ELSE 0
    <2> TAKE k \in 1 .. Len(lines)
    <2>1. written'[Len(written) + k] = new[k] /\ k \in DOMAIN lines
      BY <1>3, <1>6
    <2> QED
      BY <2>1
  <1>8. \A k \in 1 .. Len(written') : written'[k].at = k
    <2> SUFFICES ASSUME NEW k \in 1 .. Len(written')
                 PROVE  written'[k].at = k
      OBVIOUS
    <2>1. CASE k <= Len(written)
      <3>1. k \in 1 .. Len(written) /\ written[k].at = k
        BY <1>2, <2>1 DEF TypeInv
      <3> QED
        BY <1>6, <3>1, Zenon
    <2>2. CASE k > Len(written)
      <3>1. PICK i \in 1 .. Len(lines) : k = Len(written) + i
        <4>1. k - Len(written) \in 1 .. Len(lines)
          <5> HIDE DEF new
          <5> QED
            BY <1>2, <1>3, <1>6, <2>2
        <4>2. k = Len(written) + (k - Len(written))
          BY <1>2
        <4> QED
          BY <4>1, <4>2
      <3> HIDE DEF new
      <3> QED
        BY <1>7, <3>1
    <2>3. k \in Int /\ Len(written) \in Int
      BY <1>2
    <2> QED
      BY <2>1, <2>2, <2>3
  <1>9. UNCHANGED <<read, codec, more, replies, state, call, since, command,
                    link, heard, results>>
    BY DEF Write
  <1> QED
    BY <1>6, <1>7, <1>8, <1>9

\* A sequence of one.
LEMMA OneOf ==
    ASSUME NEW S, NEW x \in S
    PROVE  \E s \in Seq(S) : s = <<x>> /\ Len(s) = 1 /\ s[1] = x
  <1>1. <<x>> \in Seq(S) /\ Len(<<x>>) = 1 /\ <<x>>[1] = x
    OBVIOUS
  <1> QED
    BY <1>1, Zenon

\* A block is begun, holds output only, and is ended, all for one command or
\* as the greeting.
LEMMA BlockFacts ==
    ASSUME TypeInv, Greets \/ Answers
    PROVE  /\ written' \in Seq(Line) /\ Len(written') > Len(written) + 1
           /\ \A k \in 1 .. Len(written) : written'[k] = written[k]
           /\ \A k \in 1 .. Len(written') : written'[k].at = k
           /\ \A k \in Len(written) + 1 .. Len(written') :
                /\ written'[k].link = link
                /\ written'[k].of = IF tmux.greeted THEN Head(tmux.unanswered) ELSE 0
                /\ k = Len(written) + 1 => Begin(written'[k])
                /\ k = Len(written') => End(written'[k])
                /\ k # Len(written) + 1 /\ k # Len(written') => written'[k].is = "output"
           /\ tmux.alive /\ tmux'.alive /\ tmux'.greeted
           /\ tmux' \in [alive : BOOLEAN, greeted : BOOLEAN, unanswered : Seq(Nat)]
           /\ \/ tmux.greeted /\ tmux.unanswered # <<>>
                 /\ tmux'.unanswered = Tail(tmux.unanswered)
              \/ ~ tmux.greeted /\ tmux'.unanswered = tmux.unanswered
           /\ UNCHANGED <<read, codec, more, replies, state, call, since, command,
                          link, heard, results>>
  <1>1. PICK lines \in Seq(Looks) :
           /\ Write(lines) /\ Len(lines) > 1
           /\ lines[1] = "begin" /\ lines[Len(lines)] \in {"end", "error", "broken"}
           /\ tmux.greeted => tmux.unanswered # <<>>
    <2>1. CASE Greets
      <3>1. PICK how \in Terminators : Write(<<"begin", how>>)
        BY <2>1 DEF Greets
      <3>2. how \in {"end", "error", "broken"}
        BY ClientAssumption
      <3>3. /\ <<"begin", how>> \in Seq(Looks) /\ Len(<<"begin", how>>) = 2
            /\ <<"begin", how>>[1] = "begin" /\ <<"begin", how>>[2] = how
        BY <3>2 DEF Looks
      <3>4. PICK lines \in Seq(Looks) :
               /\ lines = <<"begin", how>> /\ Len(lines) = 2
               /\ lines[1] = "begin" /\ lines[2] = how
        BY <3>3, Zenon
      <3>5. Write(lines)
        BY <3>1, <3>4, Zenon
      <3>6. ~ tmux.greeted
        BY <2>1 DEF Greets
      <3>7. Len(lines) > 1 /\ lines[Len(lines)] \in {"end", "error", "broken"}
        BY <3>2, <3>4
      <3> QED
        BY <3>4, <3>5, <3>6, <3>7, Zenon
    <2>2. CASE Answers
      <3> PICK length \in 0..MaxOutput :
             \E output \in [1..length -> OutputLooks], how \in Terminators :
                 Write(<<"begin">> \o output \o <<how>>)
        BY <2>2 DEF Answers
      <3>1. PICK output \in [1..length -> OutputLooks], how \in Terminators :
               Write(<<"begin">> \o output \o <<how>>)
        OBVIOUS
      <3>2. how \in {"end", "error", "broken"} /\ length \in Nat
        BY ClientAssumption
      <3>3. PICK body \in Seq(Looks) : body = output /\ Len(body) = length
        <4>1. output \in [1..length -> Looks]
          BY ClientAssumption
        <4>2. output \in Seq(Looks)
          BY <3>2, <4>1, IsASeq
        <4> QED
          BY <3>2, <4>1, <4>2, LenProperties
      <3>4. PICK first \in Seq(Looks) :
               first = <<"begin">> \o body /\ Len(first) = 1 + length
               /\ first[1] = "begin"
        <4>0. "begin" \in Looks
          BY DEF Looks
        <4>1. PICK begin \in Seq(Looks) :
                 begin = <<"begin">> /\ Len(begin) = 1 /\ begin[1] = "begin"
          BY <4>0, OneOf
        <4>2. /\ begin \o body \in Seq(Looks)
              /\ Len(begin \o body) = Len(begin) + Len(body)
              /\ \A k \in 1 .. Len(begin) : (begin \o body)[k] = begin[k]
          BY ConcatAt
        <4>3. PICK first \in Seq(Looks) : first = begin \o body
          BY <4>2, Zenon
        <4>4. Len(first) = Len(begin) + Len(body) /\ first[1] = begin[1]
          <5>1. 1 \in 1 .. Len(begin)
            BY <4>1
          <5> QED
            BY <4>2, <4>3, <5>1, Zenon
        <4>5. Len(first) = 1 + length /\ first[1] = "begin"
          BY <3>3, <4>1, <4>4
        <4>6. first = <<"begin">> \o body
          BY <4>1, <4>3, Zenon
        <4> QED
          BY <4>5, <4>6
      <3>5. PICK all \in Seq(Looks) :
               all = first \o <<how>> /\ Len(all) = 2 + length
               /\ all[1] = "begin" /\ all[2 + length] = how
        <4>0. how \in Looks
          BY <3>2 DEF Looks
        <4>1. PICK final \in Seq(Looks) :
                 final = <<how>> /\ Len(final) = 1 /\ final[1] = how
          BY <4>0, OneOf
        <4>2. /\ first \o final \in Seq(Looks)
              /\ Len(first \o final) = Len(first) + Len(final)
              /\ \A k \in 1 .. Len(first) : (first \o final)[k] = first[k]
              /\ \A k \in 1 .. Len(final) : (first \o final)[Len(first) + k] = final[k]
          BY ConcatAt
        <4>3. PICK all \in Seq(Looks) : all = first \o final
          BY <4>2, Zenon
        <4>4. /\ Len(all) = Len(first) + Len(final)
              /\ all[1] = first[1] /\ all[Len(first) + 1] = final[1]
          <5>1. 1 \in 1 .. Len(first) /\ 1 \in 1 .. Len(final)
            BY <3>2, <3>4, <4>1
          <5> QED
            BY <4>2, <4>3, <5>1, Zenon
        <4>5. Len(first) + Len(final) = 2 + length /\ Len(first) + 1 = 2 + length
          <5> QED
            BY <3>2, <3>4, <4>1, SMT
        <4>6. Len(all) = 2 + length /\ all[1] = "begin" /\ all[2 + length] = how
          BY <3>4, <4>1, <4>4, <4>5, Zenon
        <4>7. all = first \o <<how>>
          BY <4>1, <4>3, Zenon
        <4> QED
          BY <4>6, <4>7, Zenon
      <3>6. all = <<"begin">> \o output \o <<how>>
        BY <3>3, <3>4, <3>5, Zenon
      <3>7. Write(all)
        BY <3>1, <3>6, Zenon
      <3>8. Len(all) > 1 /\ all[1] = "begin" /\ all[Len(all)] = how
        BY <3>2, <3>5
      <3>9. tmux.greeted => tmux.unanswered # <<>>
        BY <2>2 DEF Answers
      <3> QED
        BY <3>2, <3>7, <3>8, <3>9
    <2> QED
      BY <2>1, <2>2
  <1>2. /\ written' \in Seq(Line)
        /\ Len(written') = Len(written) + Len(lines)
        /\ \A k \in 1 .. Len(written) : written'[k] = written[k]
        /\ \A k \in 1 .. Len(written') : written'[k].at = k
        /\ \A k \in 1 .. Len(lines) :
             LET line == written'[Len(written) + k]
             IN  /\ line.looks = lines[k] /\ line.link = link
                 /\ line.is = IF Len(lines) = 1 THEN "event"
                              ELSE IF k \in {1, Len(lines)} THEN "frame" ELSE "output"
                 /\ line.of = IF tmux.greeted /\ Len(lines) > 1
                              THEN Head(tmux.unanswered) ELSE 0
        /\ UNCHANGED <<read, codec, more, replies, state, call, since, command,
                       link, heard, results>>
    BY <1>1, WriteFacts
  <1>3. Len(written) \in Nat /\ Len(lines) \in Nat
    BY LenProperties DEF TypeInv
  <1>4. ASSUME NEW k \in Len(written) + 1 .. Len(written')
        PROVE  /\ written'[k].link = link
               /\ written'[k].of = IF tmux.greeted THEN Head(tmux.unanswered) ELSE 0
               /\ k = Len(written) + 1 => Begin(written'[k])
               /\ k = Len(written') => End(written'[k])
               /\ k # Len(written) + 1 /\ k # Len(written') => written'[k].is = "output"
    <2>1. PICK i \in 1 .. Len(lines) : k = Len(written) + i
      <3>1. k - Len(written) \in 1 .. Len(lines) /\ k = Len(written) + (k - Len(written))
        BY <1>2, <1>3
      <3> QED
        BY <3>1
    <2>2. /\ k = Len(written) + 1 <=> i = 1
          /\ k = Len(written') <=> i = Len(lines)
      <3>1. Len(written') = Len(written) + Len(lines)
        BY <1>2
      <3> QED
        BY <1>3, <2>1, <3>1
    <2>3. /\ written'[k].looks = lines[i] /\ written'[k].link = link
          /\ written'[k].is = IF i \in {1, Len(lines)} THEN "frame" ELSE "output"
          /\ written'[k].of = IF tmux.greeted THEN Head(tmux.unanswered) ELSE 0
      BY <1>1, <1>2, <1>3, <2>1
    <2> QED
      BY <1>1, <2>2, <2>3 DEF Begin, End
  <1>5. /\ tmux.alive /\ tmux'.alive /\ tmux'.greeted
        /\ tmux' \in [alive : BOOLEAN, greeted : BOOLEAN, unanswered : Seq(Nat)]
        /\ \/ tmux.greeted /\ tmux.unanswered # <<>>
              /\ tmux'.unanswered = Tail(tmux.unanswered)
           \/ ~ tmux.greeted /\ tmux'.unanswered = tmux.unanswered
    <2>1. /\ tmux.alive
          /\ tmux \in [alive : BOOLEAN, greeted : BOOLEAN, unanswered : Seq(Nat)]
      BY DEF TypeInv, Greets, Answers
    <2>2. CASE Greets
      BY <2>1, <2>2 DEF Greets
    <2>3. CASE Answers
      <3>1. /\ tmux.greeted /\ tmux.unanswered # <<>>
            /\ tmux' = [tmux EXCEPT !.unanswered = Tail(tmux.unanswered)]
        BY <2>3 DEF Answers
      <3>2. Tail(tmux.unanswered) \in Seq(Nat)
        BY <2>1, <3>1, HeadTailProperties
      <3> QED
        BY <2>1, <3>1, <3>2
    <2> QED
      BY <2>2, <2>3
  <1>6. Len(written') > Len(written) + 1
    BY <1>1, <1>2, <1>3
  <1> QED
    BY <1>2, <1>4, <1>5, <1>6

\* A notification is a line of its own.
LEMMA EventFacts ==
    ASSUME TypeInv, Notifies
    PROVE  /\ written' \in Seq(Line) /\ Len(written') = Len(written) + 1
           /\ \A k \in 1 .. Len(written) : written'[k] = written[k]
           /\ \A k \in 1 .. Len(written') : written'[k].at = k
           /\ written'[Len(written) + 1].link = link
           /\ written'[Len(written) + 1].of = 0
           /\ written'[Len(written) + 1].is = "event"
           /\ written'[Len(written) + 1].looks = "event"
           /\ tmux.alive
           /\ UNCHANGED <<tmux, read, codec, more, replies, state, call, since,
                          command, link, heard, results>>
  <1>0. "event" \in Looks
    BY DEF Looks
  <1>1. PICK lines \in Seq(Looks) :
           lines = <<"event">> /\ Len(lines) = 1 /\ lines[1] = "event"
    BY <1>0, OneOf
  <1>2. Write(lines) /\ tmux.alive /\ UNCHANGED tmux
    BY <1>1, Zenon DEF Notifies
  <1>3. /\ written' \in Seq(Line) /\ Len(written') = Len(written) + 1
        /\ \A k \in 1 .. Len(written) : written'[k] = written[k]
        /\ \A k \in 1 .. Len(written') : written'[k].at = k
        /\ \A k \in 1 .. 1 :
             LET line == written'[Len(written) + k]
             IN  /\ line.looks = lines[k] /\ line.link = link /\ line.is = "event"
                 /\ line.of = 0
        /\ UNCHANGED <<read, codec, more, replies, state, call, since, command,
                       link, heard, results>>
    <2>1. Len(lines) > 0 /\ ~ (Len(lines) > 1)
      BY <1>1
    <2>2. /\ written' \in Seq(Line)
          /\ Len(written') = Len(written) + Len(lines)
          /\ \A k \in 1 .. Len(written) : written'[k] = written[k]
          /\ \A k \in 1 .. Len(written') : written'[k].at = k
          /\ \A k \in 1 .. Len(lines) :
               LET line == written'[Len(written) + k]
               IN  /\ line.looks = lines[k] /\ line.link = link
                   /\ line.is = IF Len(lines) = 1 THEN "event"
                                ELSE IF k \in {1, Len(lines)} THEN "frame" ELSE "output"
                   /\ line.of = IF tmux.greeted /\ Len(lines) > 1
                                THEN Head(tmux.unanswered) ELSE 0
          /\ UNCHANGED <<read, codec, more, replies, state, call, since, command,
                         link, heard, results>>
      BY <1>2, <2>1, WriteFacts
    <2> QED
      BY <1>1, <2>1, <2>2, Zenon
  <1>4. /\ written'[Len(written) + 1].link = link
        /\ written'[Len(written) + 1].of = 0
        /\ written'[Len(written) + 1].is = "event"
        /\ written'[Len(written) + 1].looks = "event"
    <2>1. 1 \in 1 .. 1
      OBVIOUS
    <2> QED
      BY <1>1, <1>3, <2>1, Zenon
  <1> QED
    BY <1>2, <1>3, <1>4

\* An exit leaves what has arrived.
LEMMA ExitFacts ==
    ASSUME TypeInv, Exits
    PROVE  /\ written' \in Seq(Line) /\ Len(written') <= Len(written)
           /\ \A k \in 1 .. Len(written') : written'[k] = written[k]
           /\ read <= Len(written')
           /\ more \/ codec.half # <<>> => read < Len(written')
           /\ ~ tmux'.alive /\ tmux'.greeted = tmux.greeted
           /\ tmux'.unanswered = tmux.unanswered
           /\ tmux' \in [alive : BOOLEAN, greeted : BOOLEAN, unanswered : Seq(Nat)]
           /\ UNCHANGED <<read, codec, more, replies, state, call, since, command,
                          link, heard, results>>
  <1>1. PICK k \in Arrived .. Len(written) : written' = SubSeq(written, 1, k)
    BY DEF Exits
  <1>2. /\ Arrived \in Nat /\ read <= Arrived
        /\ more \/ codec.half # <<>> => read < Arrived
    <2>1. /\ read \in Nat /\ Len(codec.half) \in Nat
          /\ codec.half # <<>> => Len(codec.half) # 0
      BY LenProperties, EmptySeq DEF TypeInv
    <2> QED
      BY <2>1 DEF Arrived
  <1>3. written \in Seq(Line) /\ Len(written) \in Nat /\ k \in Nat /\ k <= Len(written)
    BY <1>2, LenProperties DEF TypeInv
  <1>4. /\ SubSeq(written, 1, k) \in Seq(Line) /\ Len(SubSeq(written, 1, k)) = k
        /\ \A i \in 1..k : SubSeq(written, 1, k)[i] = written[i]
    BY <1>3, SubSeqProperties
  <1>5. /\ ~ tmux'.alive /\ tmux'.greeted = tmux.greeted
        /\ tmux'.unanswered = tmux.unanswered
        /\ tmux' \in [alive : BOOLEAN, greeted : BOOLEAN, unanswered : Seq(Nat)]
        /\ UNCHANGED <<read, codec, more, replies, state, call, since, command,
                       link, heard, results>>
    BY DEF Exits, TypeInv
  <1>6. written' \in Seq(Line) /\ Len(written') = k
        /\ \A i \in 1..k : written'[i] = written[i]
    BY <1>1, <1>4, Zenon
  <1>7. read \in Nat
    BY DEF TypeInv
  <1>8. /\ Len(written') <= Len(written) /\ read <= Len(written')
        /\ more \/ codec.half # <<>> => read < Len(written')
    BY <1>2, <1>3, <1>6, <1>7
  <1> QED
    BY <1>5, <1>6, <1>8

-----------------------------------------------------------------------------
\* What is read.
LEMMA ReadLineTypes ==
    ASSUME TypeInv, ReadLine
    PROVE  TypeInv'
  <1> DEFINE line == written[read + 1]
  <1>1. /\ read < Len(written) /\ read' = read + 1
        /\ line \in Line /\ line.at = read + 1
        /\ codec'.lines = AfterLine(codec, line).lines
        /\ codec' \in [open : BOOLEAN, lines : Seq(Line), half : Seq(Line)]
        /\ more' \in BOOLEAN
        /\ more' => read' < Len(written) /\ codec'.half = <<>>
        /\ codec'.half # <<>> =>
              read' < Len(written) /\ codec'.half = <<written[read' + 1]>>
        /\ Dispatch(line)
        /\ UNCHANGED <<tmux, written, state, call, since, command, link, results>>
    BY ReadFacts
  <1> HIDE DEF line
  <1>2. line = written[read + 1]
    BY DEF line
  <1>3. read \in Nat /\ Len(written) \in Nat /\ read' \in 0 .. Len(written)
        /\ codec.lines \in Seq(Line) /\ heard \in Seq(Line) /\ replies \in Seq(Reply)
    BY <1>1, LenProperties DEF TypeInv
  <1>4. \A i \in DOMAIN codec'.lines :
           codec'.lines[i].at \in 1 .. read' /\ written[codec'.lines[i].at] = codec'.lines[i]
    <2>1. codec'.lines \in {<<>>, codec.lines, Append(codec.lines, line)}
      BY <1>1 DEF AfterLine, LinesLeft, TypeInv
    <2>2. \A i \in DOMAIN codec.lines :
             codec.lines[i].at \in 1..read /\ written[codec.lines[i].at] = codec.lines[i]
      BY DEF TypeInv
    <2>3. CASE codec'.lines = <<>>
      BY <2>3
    <2>4. CASE codec'.lines = codec.lines
      BY <1>1, <1>3, <2>2, <2>4
    <2>5. CASE codec'.lines = Append(codec.lines, line)
      <3>1. /\ Len(codec.lines) \in Nat /\ DOMAIN codec.lines = 1 .. Len(codec.lines)
            /\ DOMAIN codec'.lines = 1 .. Len(codec.lines) + 1
            /\ \A i \in 1 .. Len(codec.lines) : codec'.lines[i] = codec.lines[i]
            /\ codec'.lines[Len(codec.lines) + 1] = line
        BY <1>1, <1>3, <2>5, LenProperties, AppendProperties
      <3>2. \A i \in 1 .. Len(codec.lines) + 1 :
               i \in 1 .. Len(codec.lines) \/ i = Len(codec.lines) + 1
        BY <3>1
      <3>3. line.at \in 1 .. read' /\ written[line.at] = line
        BY <1>1, <1>2, <1>3
      <3>4. \A i \in 1 .. Len(codec.lines) :
               codec'.lines[i].at \in 1 .. read'
               /\ written[codec'.lines[i].at] = codec'.lines[i]
        <4>1. \A at \in 1..read : at \in 1 .. read'
          BY <1>1, <1>3
        <4> QED
          BY <2>2, <3>1, <4>1, Zenon
      <3> QED
        BY <3>1, <3>2, <3>3, <3>4, Zenon
    <2> QED
      BY <2>1, <2>3, <2>4, <2>5
  <1>5. replies' \in Seq(Reply) /\ \A i \in DOMAIN replies' : replies'[i].at \in 1 .. read'
    <2>1. \A i \in DOMAIN replies : replies[i].at \in 1 .. read'
      BY <1>1, <1>3 DEF TypeInv
    <2>2. CASE replies' = replies
      BY <1>3, <2>1, <2>2
    <2>3. CASE replies' = Append(replies, ReplyOf(codec, line))
      <3>1. ReplyOf(codec, line) \in Reply /\ ReplyOf(codec, line).at \in 1 .. read'
        <4>1. <<>> \in Seq(Line)
          BY EmptySeq
        <4>2. ReplyOf(codec, line).at = read + 1
          BY <1>1 DEF ReplyOf
        <4>3. ReplyOf(codec, line) \in Reply
          BY <1>1, <1>3, <4>1 DEF ReplyOf, Reply, Line
        <4> QED
          BY <1>1, <1>3, <4>2, <4>3
      <3>2. /\ replies' \in Seq(Reply)
            /\ Len(replies) \in Nat /\ DOMAIN replies = 1 .. Len(replies)
            /\ DOMAIN replies' = 1 .. Len(replies) + 1
            /\ \A i \in 1 .. Len(replies) : replies'[i] = replies[i]
            /\ replies'[Len(replies) + 1] = ReplyOf(codec, line)
        BY <1>3, <2>3, <3>1, LenProperties, AppendProperties
      <3>3. \A i \in 1 .. Len(replies) + 1 :
               i \in 1 .. Len(replies) \/ i = Len(replies) + 1
        BY <3>2
      <3> QED
        BY <2>1, <3>1, <3>2, <3>3, Zenon
    <2> QED
      BY <1>1, <2>2, <2>3 DEF Dispatch
  <1>6. heard' \in Seq(Line)
    BY <1>1, <1>3, AppendProperties DEF Dispatch
  <1>7. /\ more' => read' < Len(written') /\ codec'.half = <<>>
        /\ codec'.half # <<>> =>
              read' < Len(written') /\ codec'.half = <<written'[read' + 1]>>
        /\ read' \in 0 .. Len(written')
    BY <1>1, <1>3
  <1>8. since' \in 0 .. read'
    BY <1>1, <1>3 DEF TypeInv
  <1> QED
    BY <1>1, <1>4, <1>5, <1>6, <1>7, <1>8 DEF TypeInv

\* The driver's other steps.
LEMMA ReadStepTypes ==
    ASSUME TypeInv, ReadPart \/ ReadEof \/ ReadFails \/ TakeReply
    PROVE  TypeInv'
  <1>1. CASE ReadPart
    <2>1. read + 1 \in 1 .. Len(written)
      BY <1>1 DEF ReadPart, TypeInv
    <2>2. <<written[read + 1]>> \in Seq(Line)
      <3>1. written[read + 1] \in Line
        BY <2>1, ElementOfSeq DEF TypeInv
      <3> QED
        BY <3>1
    <2>3. /\ codec' \in [open : BOOLEAN, lines : Seq(Line), half : Seq(Line)]
          /\ codec'.half = <<written[read + 1]>> /\ codec'.lines = codec.lines
      BY <1>1, <2>2 DEF ReadPart, TypeInv
    <2>4. /\ read < Len(written) /\ ~ more
          /\ UNCHANGED <<tmux, written, read, more, replies, state, call, since,
                         command, link, heard, results>>
      BY <1>1 DEF ReadPart
    <2> QED
      BY <2>3, <2>4 DEF TypeInv
  <1>2. CASE ReadEof \/ ReadFails
    <2>1. PICK reason \in Reasons : ReadEnds(reason)
      BY <1>2 DEF ReadEof, ReadFails, Reasons
    <2>2. /\ UNCHANGED <<tmux, written, read, codec, more, replies, since, command,
                         link, heard>>
          /\ call' \in {"dropped", "none"}
          /\ Calling
          /\ results' = IF call = "executing"
                        THEN [results EXCEPT ![command] = Failed] ELSE results
      BY <2>1 DEF ReadEnds, Reading
    <2>3. state' \in Reasons
      BY <2>1 DEF ReadEnds, ClosedBy
    <2>4. results' \in [Commands -> Reply \cup {Pending, Failed}]
      BY <2>2 DEF TypeInv
    <2>5. call' = "greeting" <=> state' \in {"connecting", "reconnecting"}
      BY <2>2, <2>3 DEF Reasons
    <2> QED
      BY <2>2, <2>3, <2>4, <2>5 DEF TypeInv
  <1>3. CASE TakeReply
    <2>1. /\ replies # <<>> /\ replies' = Tail(replies) /\ call' = "none"
          /\ UNCHANGED <<tmux, written, read, codec, more, since, command, link, heard>>
          /\ state' = IF call = "greeting" THEN "ready" ELSE state
          /\ results' = IF call = "greeting" THEN results
                        ELSE [results EXCEPT ![command] = Head(replies)]
      BY <1>3 DEF TakeReply
    <2>2. /\ replies \in Seq(Reply) /\ Tail(replies) \in Seq(Reply)
          /\ Head(replies) \in Reply
          /\ \A i \in DOMAIN Tail(replies) :
                i + 1 \in DOMAIN replies /\ Tail(replies)[i] = replies[i + 1]
      <3>1. replies \in Seq(Reply)
        BY DEF TypeInv
      <3>2. /\ Tail(replies) \in Seq(Reply) /\ Head(replies) \in Reply
            /\ Len(Tail(replies)) = Len(replies) - 1
            /\ \A i \in 1 .. Len(Tail(replies)) : Tail(replies)[i] = replies[i + 1]
        BY <2>1, <3>1, HeadTailProperties
      <3>3. /\ Len(replies) \in Nat /\ DOMAIN replies = 1 .. Len(replies)
            /\ DOMAIN Tail(replies) = 1 .. Len(Tail(replies))
        BY <3>1, <3>2, LenProperties
      <3> QED
        BY <3>1, <3>2, <3>3
    <2>3. \A i \in DOMAIN replies' : replies'[i].at \in 1 .. read
      BY <2>1, <2>2 DEF TypeInv
    <2>4. results' \in [Commands -> Reply \cup {Pending, Failed}]
      BY <2>1, <2>2 DEF TypeInv
    <2>5. /\ state' \in {"connecting", "reconnecting", "ready"} \cup Reasons
          /\ state' \notin {"connecting", "reconnecting"}
      BY <2>1 DEF TypeInv, Reasons
    <2> QED
      BY <2>1, <2>2, <2>3, <2>4, <2>5 DEF TypeInv
  <1> QED
    BY <1>1, <1>2, <1>3

\* Calls, as they begin.
LEMMA CallTypes ==
    ASSUME TypeInv,
           Sends \/ SendFails \/ FindsStray \/ DetachFails \/ Close \/ Reconnect
    PROVE  TypeInv'
  <1>1. /\ command \in Nat /\ MaxCommands \in Nat /\ read \in Nat
        /\ Len(written) \in Nat /\ written \in Seq(Line) /\ link \in Nat
        /\ command < MaxCommands => command + 1 \in Commands
    BY LenProperties, ClientAssumption DEF TypeInv, Commands
  <1>2. ASSUME NEW n \in Commands
        PROVE  [results EXCEPT ![n] = Failed]
                  \in [Commands -> Reply \cup {Pending, Failed}]
    BY DEF TypeInv
  <1>3. CASE Sends
    <2>1. /\ call = "none" /\ state = "ready" /\ command < MaxCommands
          /\ command' = command + 1 /\ call' = "executing" /\ since' = read
          /\ tmux' = [tmux EXCEPT !.unanswered = Append(@, command + 1)]
          /\ UNCHANGED <<written, read, codec, more, replies, state, link, heard, results>>
      BY <1>3 DEF Sends, Executing, IsReady
    <2>2. Append(tmux.unanswered, command + 1) \in Seq(Nat)
      BY <1>1, AppendProperties DEF TypeInv
    <2>3. tmux' \in [alive : BOOLEAN, greeted : BOOLEAN, unanswered : Seq(Nat)]
      BY <2>1, <2>2 DEF TypeInv
    <2>4. command' \in 0..MaxCommands /\ command' # 0 /\ since' \in 0 .. read'
      BY <1>1, <2>1
    <2>5. call' = "greeting" <=> state' \in {"connecting", "reconnecting"}
      BY <2>1
    <2> QED
      BY <2>1, <2>3, <2>4, <2>5 DEF TypeInv
  <1>4. CASE SendFails \/ FindsStray
    <2>1. /\ call = "none" /\ command < MaxCommands /\ command' = command + 1
          /\ state' \in Reasons
          /\ results' = [results EXCEPT ![command + 1] = Failed]
          /\ replies' \in {replies, Tail(replies)}
          /\ replies' # replies => replies # <<>>
          /\ UNCHANGED <<tmux, written, read, codec, more, call, since, link, heard>>
      BY <1>4 DEF SendFails, FindsStray, Executing, ClosedBy, Reasons, NothingLeft
    <2>2. /\ replies' \in Seq(Reply)
          /\ \A i \in DOMAIN replies' : replies'[i].at \in 1..read
      <3>1. CASE replies' = replies
        BY <3>1 DEF TypeInv
      <3>2. CASE replies' = Tail(replies) /\ replies # <<>>
        <4>1. replies \in Seq(Reply)
          BY DEF TypeInv
        <4>2. /\ Tail(replies) \in Seq(Reply)
              /\ Len(Tail(replies)) = Len(replies) - 1
              /\ \A i \in 1 .. Len(Tail(replies)) : Tail(replies)[i] = replies[i + 1]
          BY <3>2, <4>1, HeadTailProperties
        <4>3. /\ Len(replies) \in Nat /\ DOMAIN replies = 1 .. Len(replies)
              /\ DOMAIN Tail(replies) = 1 .. Len(Tail(replies))
          BY <4>1, <4>2, LenProperties
        <4>4. \A i \in DOMAIN Tail(replies) :
                i + 1 \in DOMAIN replies /\ Tail(replies)[i] = replies[i + 1]
          BY <4>2, <4>3
        <4> QED
          BY <3>2, <4>2, <4>4 DEF TypeInv
      <3> QED
        BY <2>1, <3>1, <3>2
    <2>3. command' \in 0..MaxCommands /\ since' \in 0 .. read'
      BY <1>1, <2>1 DEF TypeInv
    <2>4. results' \in [Commands -> Reply \cup {Pending, Failed}]
      BY <1>1, <1>2, <2>1
    <2>5. call' = "greeting" <=> state' \in {"connecting", "reconnecting"}
      BY <2>1 DEF Reasons
    <2> QED
      BY <2>1, <2>2, <2>3, <2>4, <2>5 DEF TypeInv
  <1>5. CASE DetachFails \/ Close
    <2>1. /\ call = "none" /\ state' \in Reasons
          /\ tmux' \in {tmux, [tmux EXCEPT !.alive = FALSE]}
          /\ UNCHANGED <<written, read, codec, more, replies, call, since, command,
                         link, heard, results>>
      BY <1>5 DEF DetachFails, Close, ClosedBy, Reasons
    <2>2. tmux' \in [alive : BOOLEAN, greeted : BOOLEAN, unanswered : Seq(Nat)]
      BY <2>1 DEF TypeInv
    <2>3. call' = "greeting" <=> state' \in {"connecting", "reconnecting"}
      BY <2>1 DEF Reasons
    <2> QED
      BY <2>1, <2>2, <2>3 DEF TypeInv
  <1>6. CASE Reconnect
    <2>1. /\ tmux' = Attached /\ read' = Len(written) /\ codec' = Fresh
          /\ more' = FALSE /\ replies' = <<>> /\ state' = "reconnecting"
          /\ call' = "greeting" /\ since' = Len(written) /\ link' = link + 1
          /\ UNCHANGED <<written, command, heard, results>>
      BY <1>6 DEF Reconnect, NewCodec
    <2>2. /\ <<>> \in Seq(Line) /\ <<>> \in Seq(Reply) /\ <<>> \in Seq(Nat)
          /\ DOMAIN <<>> = {}
      BY EmptySeq
    <2>3. /\ tmux' \in [alive : BOOLEAN, greeted : BOOLEAN, unanswered : Seq(Nat)]
          /\ codec' \in [open : BOOLEAN, lines : Seq(Line), half : Seq(Line)]
          /\ codec'.lines = <<>> /\ codec'.half = <<>>
      BY <2>1, <2>2 DEF Attached, Fresh
    <2>4. /\ read' \in 0 .. Len(written') /\ since' \in 0 .. read' /\ link' \in Nat
      BY <1>1, <2>1
    <2>5. /\ \A i \in DOMAIN codec'.lines :
                codec'.lines[i].at \in 1 .. read'
                /\ written'[codec'.lines[i].at] = codec'.lines[i]
          /\ \A i \in DOMAIN replies' : replies'[i].at \in 1 .. read'
      BY <2>1, <2>2, <2>3
    <2>6. replies' \in Seq(Reply)
      BY <2>1, <2>2
    <2>7. call' = "greeting" <=> state' \in {"connecting", "reconnecting"}
      BY <2>1
    <2> QED
      BY <2>1, <2>3, <2>4, <2>5, <2>6, <2>7 DEF TypeInv
  <1> QED
    BY <1>3, <1>4, <1>5, <1>6

\* What is written.
LEMMA TmuxTypes ==
    ASSUME TypeInv, TmuxStep
    PROVE  TypeInv'
  <1>1. /\ written' \in Seq(Line) /\ read <= Len(written')
        /\ more \/ codec.half # <<>> => read < Len(written')
        /\ \A k \in 1 .. Len(written) :
              k <= Len(written') => written'[k] = written[k]
        /\ \A k \in 1 .. Len(written') : written'[k].at = k
        /\ tmux' \in [alive : BOOLEAN, greeted : BOOLEAN, unanswered : Seq(Nat)]
        /\ UNCHANGED <<read, codec, more, replies, state, call, since, command,
                       link, heard, results>>
    <2>1. /\ read \in Nat /\ Len(written) \in Nat /\ read <= Len(written)
          /\ more \/ codec.half # <<>> => read < Len(written)
          /\ tmux \in [alive : BOOLEAN, greeted : BOOLEAN, unanswered : Seq(Nat)]
      BY LenProperties DEF TypeInv
    <2>2. CASE Greets \/ Answers
      <3>1. /\ written' \in Seq(Line) /\ Len(written') > Len(written) + 1
            /\ \A k \in 1 .. Len(written) : written'[k] = written[k]
            /\ \A k \in 1 .. Len(written') : written'[k].at = k
            /\ tmux' \in [alive : BOOLEAN, greeted : BOOLEAN, unanswered : Seq(Nat)]
            /\ UNCHANGED <<read, codec, more, replies, state, call, since, command,
                           link, heard, results>>
        BY <2>2, BlockFacts
      <3>2. Len(written') \in Nat
        BY <3>1, LenProperties
      <3> QED
        BY <2>1, <3>1, <3>2
    <2>3. CASE Notifies
      <3>1. /\ written' \in Seq(Line) /\ Len(written') = Len(written) + 1
            /\ \A k \in 1 .. Len(written) : written'[k] = written[k]
            /\ \A k \in 1 .. Len(written') : written'[k].at = k
            /\ UNCHANGED <<tmux, read, codec, more, replies, state, call, since,
                           command, link, heard, results>>
        BY <2>3, EventFacts
      <3> QED
        BY <2>1, <3>1
    <2>4. CASE Exits
      <3>1. /\ written' \in Seq(Line) /\ Len(written') <= Len(written)
            /\ \A k \in 1 .. Len(written') : written'[k] = written[k]
            /\ read <= Len(written')
            /\ more \/ codec.half # <<>> => read < Len(written')
            /\ tmux' \in [alive : BOOLEAN, greeted : BOOLEAN, unanswered : Seq(Nat)]
            /\ UNCHANGED <<read, codec, more, replies, state, call, since, command,
                           link, heard, results>>
        BY <2>4, ExitFacts
      <3>2. Len(written') \in Nat
        BY <3>1, LenProperties
      <3>3. \A k \in 1 .. Len(written') : k \in 1 .. Len(written)
        BY <2>1, <3>1, <3>2
      <3>4. \A k \in 1 .. Len(written) : k <= Len(written') => k \in 1 .. Len(written')
        BY <2>1, <3>2
      <3>5. \A k \in 1 .. Len(written') : written[k].at = k
        BY <3>3 DEF TypeInv
      <3> QED
        BY <3>1, <3>4, <3>5
    <2> QED
      BY <2>2, <2>3, <2>4 DEF TmuxStep
  <1>2. /\ read \in Nat /\ Len(written') \in Nat /\ read <= Len(written)
        /\ Len(written) \in Nat
    BY <1>1, LenProperties DEF TypeInv
  <1>3. /\ more => read < Len(written') /\ codec.half = <<>>
        /\ codec.half # <<>> =>
              read < Len(written') /\ codec.half = <<written'[read + 1]>>
        /\ read \in 0 .. Len(written')
    <2>1. ASSUME codec.half # <<>>
          PROVE  read < Len(written') /\ codec.half = <<written'[read + 1]>>
      <3>1. codec.half = <<written[read + 1]>> /\ read < Len(written)
        BY <2>1 DEF TypeInv
      <3>2. read + 1 \in 1 .. Len(written) /\ read + 1 <= Len(written')
        BY <1>1, <1>2, <2>1, <3>1
      <3> QED
        BY <1>1, <1>2, <2>1, <3>1, <3>2
    <2>2. more => read < Len(written') /\ codec.half = <<>>
      BY <1>1 DEF TypeInv
    <2> QED
      BY <1>1, <1>2, <2>1, <2>2
  <1>4. \A i \in DOMAIN codec.lines :
           codec.lines[i].at \in 1..read /\ written'[codec.lines[i].at] = codec.lines[i]
    <2> TAKE i \in DOMAIN codec.lines
    <2>1. codec.lines[i].at \in 1..read /\ written[codec.lines[i].at] = codec.lines[i]
      BY DEF TypeInv
    <2>2. codec.lines[i].at \in 1 .. Len(written) /\ codec.lines[i].at <= Len(written')
      BY <1>1, <1>2, <2>1
    <2> QED
      BY <1>1, <2>1, <2>2
  <1> QED
    BY <1>1, <1>3, <1>4 DEF TypeInv

\* The types hold at the beginning.
LEMMA InitTypes ==
    Init => TypeInv
  <1> SUFFICES ASSUME Init PROVE TypeInv
    OBVIOUS
  <1>1. /\ <<>> \in Seq(Line) /\ <<>> \in Seq(Reply) /\ <<>> \in Seq(Nat)
        /\ DOMAIN <<>> = {} /\ Len(<<>>) = 0
    BY EmptySeq
  <1>2. /\ tmux \in [alive : BOOLEAN, greeted : BOOLEAN, unanswered : Seq(Nat)]
        /\ codec \in [open : BOOLEAN, lines : Seq(Line), half : Seq(Line)]
        /\ codec.lines = <<>> /\ codec.half = <<>>
    BY <1>1 DEF Init, Attached, Fresh
  <1>3. /\ written = <<>> /\ read = 0 /\ more = FALSE /\ replies = <<>>
        /\ state = "connecting" /\ call = "greeting" /\ since = 0
        /\ command = 0 /\ link = 1
        /\ heard = <<>> /\ results = [n \in Commands |-> Pending]
    BY DEF Init
  <1>4. 0 \in 0..MaxCommands /\ 0 \in 0 .. Len(written) /\ 0 \in 0..0
    BY <1>1, <1>3, ClientAssumption
  <1>5. results \in [Commands -> Reply \cup {Pending, Failed}]
    BY <1>3
  <1>6. /\ \A i \in DOMAIN codec.lines :
              codec.lines[i].at \in 1..read /\ written[codec.lines[i].at] = codec.lines[i]
        /\ \A i \in DOMAIN replies : replies[i].at \in 1..read
        /\ \A k \in 1 .. Len(written) : written[k].at = k
    BY <1>1, <1>2, <1>3
  <1> QED
    BY <1>1, <1>2, <1>3, <1>4, <1>5, <1>6 DEF TypeInv

\* The types are kept by every step.
THEOREM TypesAreKept ==
    Spec => []TypeInv
  <1>1. TypeInv /\ [Next]_vars => TypeInv'
    <2> SUFFICES ASSUME TypeInv, [Next]_vars
                 PROVE  TypeInv'
      OBVIOUS
    <2>1. CASE TmuxStep
      BY <2>1, TmuxTypes
    <2>2. CASE ReadStep
      BY <2>2, ReadLineTypes, ReadStepTypes DEF ReadStep
    <2>3. CASE ClientStep
      BY <2>2, <2>3, CallTypes DEF ClientStep
    <2>4. CASE UNCHANGED vars
      BY <2>4 DEF vars, TypeInv
    <2> QED
      BY <2>1, <2>3, <2>4 DEF Next
  <1> QED
    BY <1>1, InitTypes, PTL DEF Spec

\* The run's type invariant, for every instance.
THEOREM TypeCorrect ==
    Spec => []TypeOK
  <1>1. TypeInv => TypeOK
    <2> SUFFICES ASSUME TypeInv
                 PROVE  TypeOK
      OBVIOUS
    <2>1. written \in Seq(Line) /\ DOMAIN written = 1 .. Len(written)
          /\ Len(written) \in Nat /\ read \in Nat /\ read <= Len(written)
      BY LenProperties DEF TypeInv
    <2>2. Range(codec.lines) \subseteq Lines
      <3> SUFFICES ASSUME NEW i \in DOMAIN codec.lines
                   PROVE  \E k \in DOMAIN written : written[k] = codec.lines[i]
        BY DEF Range, Lines
      <3>1. codec.lines[i].at \in 1..read /\ written[codec.lines[i].at] = codec.lines[i]
        BY DEF TypeInv
      <3>2. codec.lines[i].at \in DOMAIN written
        BY <2>1, <3>1
      <3> QED
        BY <3>1, <3>2
    <2>3. Range(codec.half) \subseteq Lines
      <3>1. CASE codec.half = <<>>
        BY <3>1 DEF Range
      <3>2. CASE codec.half # <<>>
        <4>1. codec.half = <<written[read + 1]>> /\ read + 1 \in DOMAIN written
          BY <2>1, <3>2 DEF TypeInv
        <4> QED
          BY <4>1 DEF Range, Lines
      <3> QED
        BY <3>1, <3>2
    <2>4. \A reply \in Range(replies) : reply.at \in 1..read
      BY DEF TypeInv, Range
    <2>5. codec.open \in BOOLEAN
      BY DEF TypeInv
    <2>6. /\ read \in 0 .. Len(written) /\ since \in 0..read
          /\ state \in {"connecting", "reconnecting", "ready"} \cup Reasons
          /\ call \in {"none", "greeting", "executing", "dropped"}
          /\ call = "greeting" <=> state \in {"connecting", "reconnecting"}
          /\ call = "executing" => state = "ready"
      BY DEF TypeInv
    <2> QED
      BY <2>2, <2>3, <2>4, <2>5, <2>6 DEF TypeOK
  <1> QED
    BY <1>1, TypesAreKept, PTL

-----------------------------------------------------------------------------
\* What is written stays right while nothing is.
LEMMA StillWritten ==
    ASSUME TypeInv, WrittenInv, TypeInv',
           written' = written, link' = link, read' >= read, command' >= command,
           tmux'.alive => tmux.alive,
           tmux'.greeted = tmux.greeted, tmux'.unanswered = tmux.unanswered
    PROVE  WrittenInv'
  <1>1. /\ read \in Nat /\ read' \in Nat /\ command \in Nat /\ command' \in Nat
        /\ Len(written) \in Nat
        /\ \A k \in 1 .. Len(written) : written[k].of \in Nat
    <2>1. written \in Seq(Line) /\ DOMAIN written = 1 .. Len(written)
      BY LenProperties DEF TypeInv
    <2>2. \A k \in 1 .. Len(written) : written[k] \in Line
      BY <2>1, ElementOfSeq
    <2>3. \A k \in 1 .. Len(written) : written[k].of \in Nat
      BY <2>2 DEF Line
    <2>4. read \in Nat /\ read' \in Nat /\ command \in Nat /\ command' \in Nat
      <3>1. Len(written') \in Nat
        BY LenProperties DEF TypeInv
      <3> QED
        BY <2>1, <3>1, LenProperties, ClientAssumption DEF TypeInv
    <2> QED
      BY <2>1, <2>3, <2>4, LenProperties
  <1>2. WellFormed'
    <2> SUFFICES ASSUME NEW k \in 1 .. Len(written)
                 PROVE
        /\ written[k].link <= link /\ (k > read' => written[k].link = link)
        /\ written[k].of <= command'
        /\ written[k].is = "event" => written[k].looks = "event" /\ written[k].of = 0
        /\ IF k > 1 /\ written[k - 1].link = written[k].link /\ Inside(written[k - 1])
           THEN /\ written[k].is = "output" \/ End(written[k])
                /\ written[k].of = written[k - 1].of
           ELSE written[k].is = "event" \/ Begin(written[k])
      BY DEF WellFormed, Inside, Begin, End
    <2>1. /\ written[k].link <= link /\ (k > read => written[k].link = link)
          /\ written[k].of <= command
          /\ written[k].is = "event" => written[k].looks = "event" /\ written[k].of = 0
          /\ IF k > 1 /\ written[k - 1].link = written[k].link /\ Inside(written[k - 1])
             THEN /\ written[k].is = "output" \/ End(written[k])
                  /\ written[k].of = written[k - 1].of
             ELSE written[k].is = "event" \/ Begin(written[k])
      BY DEF WrittenInv, WellFormed
    <2>2. k > read' => k > read
      BY <1>1
    <2>3. written[k].of <= command'
      BY <1>1, <2>1
    <2> QED
      BY <2>1, <2>2, <2>3
  <1>3. BlocksEnd' /\ OneBlock' /\ Ungreeted'
    BY DEF WrittenInv, BlocksEnd, OneBlock, Ungreeted, Inside, Begin
  <1>4. Unanswered'
    <2>1. \A i \in 1..command : i \in 1 .. command'
      BY <1>1
    <2> QED
      BY <2>1, Zenon DEF WrittenInv, Unanswered
  <1> QED
    BY <1>2, <1>3, <1>4 DEF WrittenInv

\* The types of what is written.
LEMMA WrittenTypes ==
    ASSUME TypeInv
    PROVE  /\ written \in Seq(Line) /\ DOMAIN written = 1 .. Len(written)
           /\ Len(written) \in Nat /\ read \in Nat /\ read <= Len(written)
           /\ command \in Nat /\ link \in Nat
           /\ \A k \in 1 .. Len(written) :
                /\ written[k].of \in Nat /\ written[k].link \in Nat
                /\ written[k].at = k
                /\ written[k].is \in {"event", "frame", "output"}
                /\ written[k].looks \in Looks
  <1>1. /\ written \in Seq(Line) /\ DOMAIN written = 1 .. Len(written)
        /\ Len(written) \in Nat
    BY LenProperties DEF TypeInv
  <1>2. \A k \in 1 .. Len(written) : written[k] \in Line
    BY <1>1, ElementOfSeq
  <1>3. read \in Nat /\ read <= Len(written) /\ command \in Nat /\ link \in Nat
    BY <1>1, ClientAssumption DEF TypeInv
  <1>4. \A k \in 1 .. Len(written) : written[k].at = k
    BY DEF TypeInv
  <1> QED
    BY <1>1, <1>2, <1>3, <1>4 DEF Line

\* A command is answered once: nothing was written for it before it was sent.
LEMMA SendsWritten ==
    ASSUME TypeInv, WrittenInv, TypeInv', Sends
    PROVE  WrittenInv'
  <1>1. /\ command' = command + 1
        /\ tmux' = [tmux EXCEPT !.unanswered = Append(@, command + 1)]
        /\ UNCHANGED <<written, read, link>>
    BY DEF Sends, Executing
  <1>2. /\ command \in Nat /\ \A k \in 1 .. Len(written) : written[k].of \in Nat
    BY WrittenTypes
  <1>3. /\ tmux \in [alive : BOOLEAN, greeted : BOOLEAN, unanswered : Seq(Nat)]
        /\ tmux'.alive = tmux.alive /\ tmux'.greeted = tmux.greeted
        /\ tmux'.unanswered = Append(tmux.unanswered, command + 1)
    BY <1>1 DEF TypeInv
  <1>4. WellFormed'
    <2>1. \A k \in 1 .. Len(written) : written[k].of <= command => written[k].of <= command'
      BY <1>1, <1>2
    <2> QED
      BY <1>1, <2>1, Zenon DEF WrittenInv, WellFormed, Inside, Begin, End
  <1>5. BlocksEnd' /\ OneBlock' /\ Ungreeted'
    BY <1>1, <1>3 DEF WrittenInv, BlocksEnd, OneBlock, Ungreeted, Inside, Begin
  <1>6. Unanswered'
    <2> DEFINE queue == tmux.unanswered
               longer == tmux'.unanswered
    <2>1. /\ Len(queue) \in Nat /\ DOMAIN queue = 1 .. Len(queue)
          /\ DOMAIN longer = 1 .. Len(queue) + 1
          /\ \A i \in 1 .. Len(queue) : longer[i] = queue[i]
          /\ longer[Len(queue) + 1] = command + 1
      BY <1>2, <1>3, LenProperties, AppendProperties
    <2>2. /\ \A i \in 1 .. Len(queue) :
               /\ queue[i] \in 1..command
               /\ \A k \in 1 .. Len(written) : written[k].of # queue[i]
          /\ \A i, j \in 1 .. Len(queue) : i < j => queue[i] # queue[j]
          /\ \A k \in 1 .. Len(written) : written[k].of <= command
      BY <2>1 DEF WrittenInv, Unanswered, WellFormed
    <2> HIDE DEF queue, longer
    <2>3. ASSUME NEW i \in 1 .. Len(queue) + 1
          PROVE  /\ longer[i] \in 1 .. command'
                 /\ \A k \in 1 .. Len(written) : written[k].of # longer[i]
      <3>1. CASE i \in 1 .. Len(queue)
        BY <1>1, <1>2, <2>1, <2>2, <3>1
      <3>2. CASE i = Len(queue) + 1
        BY <1>1, <1>2, <2>1, <2>2, <3>2
      <3> QED
        BY <2>1, <3>1, <3>2
    <2>4. ASSUME NEW i \in 1 .. Len(queue) + 1, NEW j \in 1 .. Len(queue) + 1, i < j
          PROVE  longer[i] # longer[j]
      <3>1. i \in 1 .. Len(queue) /\ longer[i] = queue[i] /\ queue[i] \in 1..command
        BY <2>1, <2>2, <2>4
      <3>2. CASE j \in 1 .. Len(queue)
        BY <2>1, <2>2, <2>4, <3>1, <3>2
      <3>3. CASE j = Len(queue) + 1
        BY <1>2, <2>1, <3>1, <3>3
      <3> QED
        BY <2>1, <3>2, <3>3
    <2> USE DEF queue, longer
    <2> QED
      BY <1>1, <2>1, <2>3, <2>4 DEF Unanswered
  <1> QED
    BY <1>4, <1>5, <1>6 DEF WrittenInv

\* Another transport begins with nothing written on it.
LEMMA ReconnectWritten ==
    ASSUME TypeInv, WrittenInv, TypeInv', Reconnect
    PROVE  WrittenInv'
  <1>1. /\ tmux' = Attached /\ read' = Len(written) /\ link' = link + 1
        /\ UNCHANGED <<written, command>>
    BY DEF Reconnect
  <1>2. /\ Len(written) \in Nat /\ link \in Nat
        /\ \A k \in 1 .. Len(written) : written[k].link \in Nat
    BY WrittenTypes
  <1>3. \A k \in 1 .. Len(written) :
           /\ written[k].link <= link' /\ written[k].link # link' /\ ~ (k > read')
    BY <1>1, <1>2 DEF WrittenInv, WellFormed
  <1>4. WellFormed'
    BY <1>1, <1>3, Zenon DEF WrittenInv, WellFormed, Inside, Begin, End
  <1>5. Len(written) > 0 => Len(written) \in 1 .. Len(written)
    BY <1>2
  <1>6. BlocksEnd' /\ OneBlock' /\ Ungreeted'
    BY <1>1, <1>3, <1>5 DEF WrittenInv, BlocksEnd, OneBlock, Ungreeted, Inside, Begin
  <1>7. Unanswered'
    <2>1. tmux'.unanswered = <<>> /\ DOMAIN <<>> = {}
      BY <1>1 DEF Attached
    <2> QED
      BY <2>1 DEF Unanswered
  <1> QED
    BY <1>4, <1>6, <1>7 DEF WrittenInv

\* An exit leaves the beginning of what was written.
LEMMA ExitWritten ==
    ASSUME TypeInv, WrittenInv, TypeInv', Exits
    PROVE  WrittenInv'
  <1>1. /\ Len(written') <= Len(written)
        /\ \A k \in 1 .. Len(written') : written'[k] = written[k]
        /\ ~ tmux'.alive /\ tmux'.greeted = tmux.greeted
        /\ tmux'.unanswered = tmux.unanswered
        /\ UNCHANGED <<read, command, link>>
    BY ExitFacts
  <1>2. Len(written) \in Nat /\ Len(written') \in Nat
    BY LenProperties DEF TypeInv
  <1>3. \A k \in 1 .. Len(written') : k \in 1 .. Len(written)
    BY <1>1, <1>2
  <1>4. WellFormed'
    <2> SUFFICES ASSUME NEW k \in 1 .. Len(written')
                 PROVE
        /\ written'[k].link <= link /\ (k > read => written'[k].link = link)
        /\ written'[k].of <= command
        /\ written'[k].is = "event" => written'[k].looks = "event" /\ written'[k].of = 0
        /\ IF k > 1 /\ written'[k - 1].link = written'[k].link /\ Inside(written'[k - 1])
           THEN /\ written'[k].is = "output" \/ End(written'[k])
                /\ written'[k].of = written'[k - 1].of
           ELSE written'[k].is = "event" \/ Begin(written'[k])
      BY <1>1, Zenon DEF WellFormed, Inside, Begin, End
    <2>1. k \in 1 .. Len(written) /\ written'[k] = written[k]
      BY <1>1, <1>3
    <2>2. k > 1 => written'[k - 1] = written[k - 1]
      <3>1. k > 1 => k - 1 \in 1 .. Len(written')
        BY <1>2
      <3> QED
        BY <1>1, <3>1
    <2> QED
      BY <2>1, <2>2, Zenon DEF WrittenInv, WellFormed
  <1>5. BlocksEnd'
    BY <1>1 DEF BlocksEnd
  <1>6. OneBlock' /\ Ungreeted'
    <2>1. OneBlock'
      <3> SUFFICES ASSUME NEW j \in 1 .. Len(written'), NEW k \in 1 .. Len(written'),
                          j < k, written'[j].is # "event", written'[k].is # "event",
                          written'[j].of = written'[k].of,
                          written'[j].of # 0 \/ written'[j].link = written'[k].link
                   PROVE  /\ written'[j].link = written'[k].link
                          /\ Inside(written'[j]) /\ ~ Begin(written'[k])
        BY Zenon DEF OneBlock, Inside, Begin
      <3>1. /\ j \in 1 .. Len(written) /\ written'[j] = written[j]
            /\ k \in 1 .. Len(written) /\ written'[k] = written[k]
        BY <1>1, <1>3
      <3> QED
        BY <3>1 DEF WrittenInv, OneBlock
    <2>2. Ungreeted'
      BY <1>1, <1>3, Zenon DEF WrittenInv, Ungreeted
    <2> QED
      BY <2>1, <2>2
  <1>7. Unanswered'
    BY <1>1, <1>3, Zenon DEF WrittenInv, Unanswered
  <1> QED
    BY <1>4, <1>5, <1>6, <1>7 DEF WrittenInv

\* A notification comes between blocks.
LEMMA EventWritten ==
    ASSUME TypeInv, WrittenInv, TypeInv', Notifies
    PROVE  WrittenInv'
  <1> DEFINE last == Len(written) + 1
  <1>1. /\ Len(written') = last
        /\ \A k \in 1 .. Len(written) : written'[k] = written[k]
        /\ written'[last].link = link /\ written'[last].of = 0
        /\ written'[last].is = "event" /\ written'[last].looks = "event"
        /\ tmux.alive /\ UNCHANGED <<tmux, read, command, link>>
    BY EventFacts
  <1>2. /\ Len(written) \in Nat /\ command \in Nat /\ link \in Nat
        /\ \A k \in 1..last : k \in 1 .. Len(written) \/ k = last
    BY WrittenTypes
  <1>3. Len(written) > 0 /\ written[Len(written)].link = link
           => ~ Inside(written[Len(written)])
    BY <1>1 DEF WrittenInv, BlocksEnd
  <1>4. WellFormed'
    <2> SUFFICES ASSUME NEW k \in 1..last
                 PROVE
        /\ written'[k].link <= link /\ (k > read => written'[k].link = link)
        /\ written'[k].of <= command
        /\ written'[k].is = "event" => written'[k].looks = "event" /\ written'[k].of = 0
        /\ IF k > 1 /\ written'[k - 1].link = written'[k].link /\ Inside(written'[k - 1])
           THEN /\ written'[k].is = "output" \/ End(written'[k])
                /\ written'[k].of = written'[k - 1].of
           ELSE written'[k].is = "event" \/ Begin(written'[k])
      BY <1>1, Zenon DEF WellFormed, Inside, Begin, End
    <2>1. CASE k \in 1 .. Len(written)
      <3>1. written'[k] = written[k]
        BY <1>1, <2>1
      <3>2. k > 1 => written'[k - 1] = written[k - 1]
        <4>1. k > 1 => k - 1 \in 1 .. Len(written)
          BY <1>2, <2>1
        <4> QED
          BY <1>1, <4>1
      <3> QED
        BY <2>1, <3>1, <3>2, Zenon DEF WrittenInv, WellFormed
    <2>2. CASE k = last
      <3>1. k > 1 => Len(written) > 0 /\ written'[k - 1] = written[Len(written)]
        BY <1>1, <1>2, <2>2
      <3>2. 0 <= command /\ link <= link
        BY <1>2
      <3> QED
        BY <1>1, <1>3, <2>2, <3>1, <3>2, Zenon
    <2> QED
      BY <1>2, <2>1, <2>2
  <1>5. BlocksEnd'
    BY <1>1, Zenon DEF BlocksEnd, Inside, Begin
  <1>6. Ungreeted'
    BY <1>1, <1>2, Zenon DEF WrittenInv, Ungreeted
  <1>7. OneBlock'
    <2> SUFFICES ASSUME NEW j \in 1..last, NEW k \in 1..last,
                        j < k, written'[j].is # "event", written'[k].is # "event",
                        written'[j].of = written'[k].of,
                        written'[j].of # 0 \/ written'[j].link = written'[k].link
                 PROVE  /\ written'[j].link = written'[k].link
                        /\ Inside(written'[j]) /\ ~ Begin(written'[k])
      BY <1>1, Zenon DEF OneBlock, Inside, Begin
    <2>1. /\ j \in 1 .. Len(written) /\ written'[j] = written[j]
          /\ k \in 1 .. Len(written) /\ written'[k] = written[k]
      BY <1>1, <1>2, Zenon
    <2>2. OneBlock
      BY DEF WrittenInv
    <2>3. /\ written[j].is # "event" /\ written[k].is # "event"
          /\ written[j].of = written[k].of
          /\ written[j].of # 0 \/ written[j].link = written[k].link
      BY <2>1, Zenon
    <2>4. written[j].link = written[k].link /\ Inside(written[j]) /\ ~ Begin(written[k])
      BY <2>1, <2>2, <2>3, Zenon DEF OneBlock
    <2> QED
      BY <2>1, <2>4, Zenon
  <1>8. Unanswered'
    <2>1. \A i \in DOMAIN tmux.unanswered : tmux.unanswered[i] # 0
      BY <1>2 DEF WrittenInv, Unanswered
    <2>2. ASSUME NEW i \in DOMAIN tmux.unanswered, NEW k \in 1..last
          PROVE  written'[k].of # tmux.unanswered[i]
      <3>1. CASE k \in 1 .. Len(written)
        <4>1. written[k].of # tmux.unanswered[i]
          BY <3>1 DEF WrittenInv, Unanswered
        <4> QED
          BY <1>1, <3>1, <4>1
      <3>2. CASE k = last
        BY <1>1, <2>1, <3>2
      <3> QED
        BY <1>2, <3>1, <3>2
    <2>3. /\ \A i \in DOMAIN tmux.unanswered : tmux.unanswered[i] \in 1..command
          /\ \A i, j \in DOMAIN tmux.unanswered :
                i < j => tmux.unanswered[i] # tmux.unanswered[j]
      BY DEF WrittenInv, Unanswered
    <2>4. tmux' = tmux /\ command' = command /\ Len(written') = last
      BY <1>1
    <2> HIDE DEF last
    <2> QED
      BY <2>2, <2>3, <2>4, Zenon DEF Unanswered
  <1> QED
    BY <1>4, <1>5, <1>6, <1>7, <1>8 DEF WrittenInv

\* A block is written whole, for what has waited longest.
LEMMA BlockWritten ==
    ASSUME TypeInv, WrittenInv, TypeInv', Greets \/ Answers
    PROVE  WrittenInv'
  <1> DEFINE whom == IF tmux.greeted THEN Head(tmux.unanswered) ELSE 0
             last == Len(written')
             first == Len(written) + 1
  <1>1. /\ last > first
        /\ \A k \in 1 .. Len(written) : written'[k] = written[k]
        /\ \A k \in first..last :
             /\ written'[k].link = link /\ written'[k].of = whom
             /\ k = first => Begin(written'[k])
             /\ k = last => End(written'[k])
             /\ k # first /\ k # last => written'[k].is = "output"
        /\ tmux.alive /\ tmux'.alive /\ tmux'.greeted
        /\ \/ tmux.greeted /\ tmux.unanswered # <<>>
              /\ tmux'.unanswered = Tail(tmux.unanswered)
           \/ ~ tmux.greeted /\ tmux'.unanswered = tmux.unanswered
        /\ UNCHANGED <<read, command, link>>
    BY BlockFacts
  <1>2. /\ Len(written) \in Nat /\ last \in Nat /\ read \in Nat /\ command \in Nat
        /\ link \in Nat /\ first \in Nat
    BY WrittenTypes, LenProperties DEF TypeInv
  <1>3. Len(written) > 0 /\ written[Len(written)].link = link
           => ~ Inside(written[Len(written)])
    BY <1>1 DEF WrittenInv, BlocksEnd
  <1>4. /\ tmux.greeted => /\ whom = tmux.unanswered[1]
                           /\ 1 \in DOMAIN tmux.unanswered /\ whom \in 1..command
                           /\ \A k \in 1 .. Len(written) : written[k].of # whom
        /\ ~ tmux.greeted => whom = 0
    <2>1. tmux.unanswered \in Seq(Nat)
      BY DEF TypeInv
    <2>2. CASE tmux.greeted
      <3>1. /\ whom = tmux.unanswered[1] /\ Len(tmux.unanswered) # 0
            /\ DOMAIN tmux.unanswered = 1 .. Len(tmux.unanswered)
            /\ Len(tmux.unanswered) \in Nat
        BY <1>1, <2>1, <2>2, HeadTailProperties, LenProperties, EmptySeq
      <3>2. 1 \in DOMAIN tmux.unanswered
        BY <3>1
      <3> QED
        BY <2>2, <3>1, <3>2 DEF WrittenInv, Unanswered
    <2> QED
      BY <2>2
  <1> HIDE DEF whom, last, first
  <1>5. \A k \in 1..last : k \in 1 .. Len(written) \/ k \in first..last
    BY <1>2 DEF first
  <1>6. whom \in 0..command
    BY <1>2, <1>4
  <1>7. WellFormed'
    <2> SUFFICES ASSUME NEW k \in 1..last
                 PROVE
        /\ written'[k].link <= link /\ (k > read => written'[k].link = link)
        /\ written'[k].of <= command
        /\ written'[k].is = "event" => written'[k].looks = "event" /\ written'[k].of = 0
        /\ IF k > 1 /\ written'[k - 1].link = written'[k].link /\ Inside(written'[k - 1])
           THEN /\ written'[k].is = "output" \/ End(written'[k])
                /\ written'[k].of = written'[k - 1].of
           ELSE written'[k].is = "event" \/ Begin(written'[k])
      BY <1>1, Zenon DEF WellFormed, Inside, Begin, End, last
    <2>1. CASE k \in 1 .. Len(written)
      <3>1. written'[k] = written[k]
        BY <1>1, <2>1
      <3>2. k > 1 => written'[k - 1] = written[k - 1]
        <4>1. k > 1 => k - 1 \in 1 .. Len(written)
          BY <1>2, <2>1
        <4> QED
          BY <1>1, <4>1
      <3> QED
        BY <2>1, <3>1, <3>2, Zenon DEF WrittenInv, WellFormed
    <2>2. CASE k = first
      <3>1. k > 1 => Len(written) > 0 /\ written'[k - 1] = written[Len(written)]
        BY <1>1, <1>2, <2>2 DEF first
      <3>2. first \in first..last
        BY <1>1, <1>2
      <3>3. written'[k].link = link /\ written'[k].of = whom /\ Begin(written'[k])
        BY <1>1, <2>2, <3>2
      <3>4. written'[k].link <= link /\ written'[k].of <= command
        BY <1>2, <1>6, <3>3
      <3>5. written'[k].is # "event"
        BY <3>3 DEF Begin
      <3> QED
        BY <1>3, <3>1, <3>3, <3>4, <3>5, Zenon
    <2>3. CASE k \in first..last /\ k # first
      <3>1. k \in first..last /\ k - 1 \in first..last /\ k - 1 # last /\ k > 1
        BY <1>1, <1>2, <2>3 DEF first
      <3>2. /\ written'[k].link = link /\ written'[k].of = whom
            /\ written'[k].is = "output" \/ End(written'[k])
        BY <1>1, <2>3, <3>1
      <3>3. /\ written'[k - 1].link = link /\ written'[k - 1].of = whom
            /\ Inside(written'[k - 1])
        <4>1. \A i \in first..last : i # last =>
                 /\ written'[i].link = link /\ written'[i].of = whom
                 /\ Inside(written'[i])
          BY <1>1 DEF Inside
        <4> QED
          BY <3>1, <4>1
      <3>4. written'[k].link <= link /\ written'[k].of <= command
        BY <1>2, <1>6, <3>2
      <3>5. written'[k].is # "event"
        BY <3>2 DEF End
      <3> QED
        BY <3>1, <3>2, <3>3, <3>4, <3>5, Zenon
    <2> QED
      BY <1>5, <2>1, <2>2, <2>3
  <1>8. BlocksEnd'
    <2>1. last \in first..last
      BY <1>1, <1>2
    <2>2. End(written'[last])
      BY <1>1, <2>1
    <2> QED
      BY <2>2 DEF BlocksEnd, Inside, Begin, End, last
  <1>9. Ungreeted'
    BY <1>1 DEF Ungreeted
  <1>10. OneBlock'
    <2> SUFFICES ASSUME NEW j \in 1..last, NEW k \in 1..last,
                        j < k, written'[j].is # "event", written'[k].is # "event",
                        written'[j].of = written'[k].of,
                        written'[j].of # 0 \/ written'[j].link = written'[k].link
                 PROVE  /\ written'[j].link = written'[k].link
                        /\ Inside(written'[j]) /\ ~ Begin(written'[k])
      BY <1>1, Zenon DEF OneBlock, Inside, Begin, last
    <2>1. CASE k \in 1 .. Len(written)
      <3>1. j \in 1 .. Len(written)
        BY <1>2, <2>1
      <3>2. written'[j] = written[j] /\ written'[k] = written[k]
        BY <1>1, <2>1, <3>1
      <3> QED
        BY <2>1, <3>1, <3>2 DEF WrittenInv, OneBlock
    <2>2. CASE j \in 1 .. Len(written) /\ k \in first..last
      <3>1. /\ written'[j] = written[j]
            /\ written'[k].link = link /\ written'[k].of = whom
        BY <1>1, <2>2
      <3>2. ~ tmux.greeted
        BY <1>4, <2>2, <3>1
      <3>3. written[j].link = link
        BY <1>4, <3>1, <3>2
      <3>4. written[j].is = "event"
        BY <2>2, <3>2, <3>3 DEF WrittenInv, Ungreeted
      <3> QED
        BY <3>1, <3>4
    <2>3. CASE j \in first..last /\ k \in first..last
      <3>1. k # first /\ j # last
        BY <1>1, <1>2, <2>3
      <3>2. /\ written'[j].link = link /\ (Begin(written'[j]) \/ written'[j].is = "output")
            /\ written'[k].link = link /\ (End(written'[k]) \/ written'[k].is = "output")
        BY <1>1, <2>3, <3>1
      <3> QED
        BY <3>2 DEF Inside, Begin, End
    <2> QED
      <3>1. j \in first..last /\ k \in 1 .. Len(written) => FALSE
        BY <1>2 DEF first
      <3> QED
        BY <1>5, <2>1, <2>2, <2>3, <3>1
  <1>11. Unanswered'
    <2> DEFINE queue == tmux.unanswered
               left == tmux'.unanswered
    <2>1. \A i \in DOMAIN left :
             \E j \in DOMAIN queue :
                left[i] = queue[j] /\ (tmux.greeted => i + 1 = j)
                /\ (~ tmux.greeted => i = j)
      <3>1. CASE tmux.greeted
        <4>1. queue \in Seq(Nat) /\ queue # <<>> /\ left = Tail(queue)
          BY <1>1, <3>1 DEF TypeInv
        <4>2. /\ Tail(queue) \in Seq(Nat) /\ Len(Tail(queue)) = Len(queue) - 1
              /\ \A i \in 1 .. Len(Tail(queue)) : Tail(queue)[i] = queue[i + 1]
          BY <4>1, HeadTailProperties
        <4>3. /\ Len(queue) \in Nat /\ DOMAIN queue = 1 .. Len(queue)
              /\ DOMAIN Tail(queue) = 1 .. Len(Tail(queue))
          BY <4>1, <4>2, LenProperties
        <4>4. \A i \in DOMAIN Tail(queue) :
                 i + 1 \in DOMAIN queue /\ Tail(queue)[i] = queue[i + 1]
          BY <4>2, <4>3
        <4> QED
          BY <3>1, <4>1, <4>4, Zenon
      <3>2. CASE ~ tmux.greeted
        BY <1>1, <3>2, Zenon
      <3> QED
        BY <3>1, <3>2
    <2>2. /\ queue \in Seq(Nat) /\ left \in Seq(Nat)
          /\ DOMAIN queue = 1 .. Len(queue) /\ DOMAIN left = 1 .. Len(left)
          /\ Len(queue) \in Nat /\ Len(left) \in Nat
      BY LenProperties DEF TypeInv
    <2>3. /\ \A i \in DOMAIN queue :
               /\ queue[i] \in 1..command
               /\ \A k \in 1 .. Len(written) : written[k].of # queue[i]
          /\ \A i, j \in DOMAIN queue : i < j => queue[i] # queue[j]
      BY DEF WrittenInv, Unanswered
    <2>4. tmux.greeted => 1 \in DOMAIN queue /\ whom = queue[1]
      BY <1>4
    <2> HIDE DEF queue, left
    <2>5. ASSUME NEW i \in DOMAIN left
          PROVE  /\ left[i] \in 1..command
                 /\ \A k \in 1..last : written'[k].of # left[i]
      <3>1. PICK j \in DOMAIN queue : left[i] = queue[j] /\ (tmux.greeted => i + 1 = j)
                                      /\ (~ tmux.greeted => i = j)
        BY <2>1
      <3>2. queue[j] \in 1..command /\ left[i] \in 1..command
        BY <2>3, <3>1
      <3>3. \A k \in 1 .. Len(written) : written'[k].of # left[i]
        BY <1>1, <2>3, <3>1
      <3>4. whom # left[i]
        <4>1. CASE tmux.greeted
          <5>1. 1 < j
            BY <2>2, <3>1, <4>1
          <5> QED
            BY <2>3, <2>4, <3>1, <4>1, <5>1
        <4>2. CASE ~ tmux.greeted
          BY <1>2, <1>4, <3>2, <4>2
        <4> QED
          BY <4>1, <4>2
      <3>5. \A k \in first..last : written'[k].of # left[i]
        BY <1>1, <3>4
      <3> QED
        BY <1>5, <3>2, <3>3, <3>5
    <2>6. ASSUME NEW i \in DOMAIN left, NEW m \in DOMAIN left, i < m
          PROVE  left[i] # left[m]
      <3>1. PICK j \in DOMAIN queue : left[i] = queue[j] /\ (tmux.greeted => i + 1 = j)
                                      /\ (~ tmux.greeted => i = j)
        BY <2>1
      <3>2. PICK n \in DOMAIN queue : left[m] = queue[n] /\ (tmux.greeted => m + 1 = n)
                                      /\ (~ tmux.greeted => m = n)
        BY <2>1
      <3>3. j < n
        BY <2>2, <2>6, <3>1, <3>2
      <3> QED
        BY <2>3, <3>1, <3>2, <3>3
    <2> USE DEF queue, left
    <2> QED
      BY <1>1, <2>5, <2>6 DEF Unanswered, last
  <1> QED
    BY <1>7, <1>8, <1>9, <1>10, <1>11 DEF WrittenInv

\* What is written stays right.
LEMMA WrittenIsKept ==
    ASSUME TypeInv, WrittenInv, TypeInv', [Next]_vars
    PROVE  WrittenInv'
  <1>1. CASE TmuxStep
    BY <1>1, BlockWritten, EventWritten, ExitWritten DEF TmuxStep
  <1>2. CASE Sends \/ Reconnect
    BY <1>2, SendsWritten, ReconnectWritten
  <1>3. CASE ReadStep \/ SendFails \/ FindsStray \/ DetachFails \/ Close \/ UNCHANGED vars
    <2>1. /\ written' = written /\ link' = link
          /\ read' \in {read, read + 1} /\ command' \in {command, command + 1}
          /\ tmux' \in {tmux, [tmux EXCEPT !.alive = FALSE]}
      BY <1>3 DEF ReadStep, ReadLine, ReadPart, ReadEof, ReadFails, ReadEnds, TakeReply,
                  SendFails, FindsStray, DetachFails, Close, Executing, vars
    <2>2. read' >= read /\ command' >= command
      BY <2>1, WrittenTypes
    <2>3. /\ tmux'.alive => tmux.alive
          /\ tmux'.greeted = tmux.greeted /\ tmux'.unanswered = tmux.unanswered
      BY <2>1 DEF TypeInv
    <2> QED
      BY <2>1, <2>2, <2>3, StillWritten
  <1> QED
    BY <1>1, <1>2, <1>3 DEF Next, ClientStep

-----------------------------------------------------------------------------
\* While no output has looked like the end of its block, a line is what it is
\* taken for.
LEMMA ReadCases ==
    ASSUME TypeInv, WrittenInv, ReaderInv, ReadLine, PlainSoFar',
           NEW line, line = written[read + 1]
    PROVE  /\ PlainSoFar /\ line.link = link
           /\ \/ /\ line.is = "output" /\ WithinBlock /\ line.of = written[read].of
                 /\ codec'.open /\ codec'.lines = Append(codec.lines, line)
                 /\ UNCHANGED <<replies, heard>>
              \/ /\ End(line) /\ WithinBlock /\ line.of = written[read].of
                 /\ ~ codec'.open /\ codec'.lines = <<>>
                 /\ replies' = Append(replies, ReplyOf(codec, line))
                 /\ UNCHANGED heard
              \/ /\ line.is = "event" /\ ~ WithinBlock
                 /\ ~ codec'.open /\ codec'.lines = <<>>
                 /\ heard' = Append(heard, line) /\ UNCHANGED replies
              \/ /\ Begin(line) /\ ~ WithinBlock
                 /\ codec'.open /\ codec'.lines = <<>>
                 /\ UNCHANGED <<replies, heard>>
  <1>1. /\ read < Len(written) /\ read' = read + 1
        /\ codec'.open = AfterLine(codec, line).open
        /\ codec'.lines = AfterLine(codec, line).lines
        /\ Dispatch(line)
        /\ UNCHANGED <<written, link>>
    BY ReadFacts
  <1>2. read \in Nat /\ Len(written) \in Nat /\ read + 1 \in 1 .. Len(written)
    BY <1>1, WrittenTypes
  <1>3. PlainSoFar
    <2>1. \A k \in 1..read : k \in 1 .. read'
      BY <1>1, <1>2
    <2> QED
      BY <1>1, <2>1, Zenon DEF PlainSoFar
  <1>4. /\ line.link = link
        /\ line.is = "event" => line.looks = "event"
        /\ IF WithinBlock
           THEN (line.is = "output" \/ End(line)) /\ line.of = written[read].of
           ELSE line.is = "event" \/ Begin(line)
    <2> PICK k \in 1 .. Len(written) : k = read + 1
      BY <1>2
    <2>1. k > read /\ (k > 1 <=> read > 0) /\ k - 1 = read /\ written[k] = line
      BY <1>2
    <2>2. line.link = link
      BY <2>1 DEF WrittenInv, WellFormed
    <2>3. /\ line.is = "event" => line.looks = "event"
          /\ IF k > 1 /\ written[k - 1].link = line.link /\ Inside(written[k - 1])
             THEN /\ line.is = "output" \/ End(line)
                  /\ line.of = written[k - 1].of
             ELSE line.is = "event" \/ Begin(line)
      BY <2>1, Zenon DEF WrittenInv, WellFormed
    <2> QED
      BY <2>1, <2>2, <2>3, Zenon DEF WithinBlock
  <1>5. line.is = "output" => ~ Closes(line)
    <2>1. read + 1 \in 1 .. read'
      BY <1>1, <1>2
    <2> QED
      BY <1>1, <1>4, <2>1 DEF PlainSoFar, Closes
  <1>6. codec.open = WithinBlock /\ (~ WithinBlock => codec.lines = <<>>)
    BY <1>3 DEF ReaderInv
  <1>7. codec \in [open : BOOLEAN, lines : Seq(Line), half : Seq(Line)]
    BY DEF TypeInv
  <1>8. CASE WithinBlock /\ line.is = "output"
    <2>1. IsOutput(codec, line)
      BY <1>5, <1>6, <1>8 DEF IsOutput
    <2>2. ~ IsEvent(codec, line)
      BY <2>1 DEF IsEvent
    <2>3. AfterLine(codec, line) = [codec EXCEPT !.lines = Append(@, line)]
      BY <2>1 DEF AfterLine
    <2>4. /\ codec'.open /\ codec'.lines = Append(codec.lines, line)
          /\ UNCHANGED <<replies, heard>>
      BY <1>1, <1>6, <1>7, <1>8, <2>1, <2>2, <2>3 DEF Dispatch
    <2> QED
      BY <1>3, <1>4, <1>8, <2>4
  <1>9. CASE WithinBlock /\ End(line)
    <2>1. /\ ~ IsOutput(codec, line) /\ ~ Begins(codec, line) /\ Settles(codec, line)
          /\ ~ IsEvent(codec, line)
      BY <1>6, <1>9 DEF IsOutput, Begins, Settles, IsEvent, Closes, End
    <2>2. AfterLine(codec, line) = [codec EXCEPT !.open = FALSE, !.lines = <<>>]
      BY <2>1 DEF AfterLine, LinesLeft
    <2>3. /\ ~ codec'.open /\ codec'.lines = <<>>
          /\ replies' = Append(replies, ReplyOf(codec, line)) /\ UNCHANGED heard
      BY <1>1, <1>7, <2>1, <2>2 DEF Dispatch
    <2> QED
      BY <1>3, <1>4, <1>9, <2>3
  <1>10. CASE ~ WithinBlock /\ line.is = "event"
    <2>1. line.looks = "event"
      BY <1>4, <1>10
    <2>2. /\ ~ IsOutput(codec, line) /\ ~ Begins(codec, line)
          /\ ~ Settles(codec, line) /\ IsEvent(codec, line)
      BY <1>6, <1>10, <2>1 DEF IsOutput, Begins, Settles, IsEvent
    <2>3. AfterLine(codec, line) = codec
      BY <2>2 DEF AfterLine
    <2>4. /\ ~ codec'.open /\ codec'.lines = <<>>
          /\ heard' = Append(heard, line) /\ UNCHANGED replies
      BY <1>1, <1>6, <1>10, <2>2, <2>3 DEF Dispatch
    <2> QED
      BY <1>3, <1>4, <1>10, <2>4
  <1>11. CASE ~ WithinBlock /\ Begin(line)
    <2>1. line.looks = "begin"
      BY <1>11 DEF Begin
    <2>2. /\ ~ IsOutput(codec, line) /\ Begins(codec, line)
          /\ ~ Settles(codec, line) /\ ~ IsEvent(codec, line)
      BY <1>6, <1>11, <2>1 DEF IsOutput, Begins, Settles, IsEvent
    <2>3. AfterLine(codec, line) = [codec EXCEPT !.open = TRUE]
      BY <2>2 DEF AfterLine
    <2>4. /\ codec'.open /\ codec'.lines = <<>> /\ UNCHANGED <<replies, heard>>
      BY <1>1, <1>6, <1>7, <1>11, <2>2, <2>3 DEF Dispatch
    <2> QED
      BY <1>3, <1>4, <1>11, <2>4
  <1> QED
    BY <1>4, <1>8, <1>9, <1>10, <1>11

\* What has been read stays as it is, tmux's exit included.
LEMMA ReadStays ==
    ASSUME TypeInv, TmuxStep \/ ReadPart \/ ReadEof \/ ReadFails \/ TakeReply
                    \/ Sends \/ SendFails \/ FindsStray \/ DetachFails \/ Close
                    \/ UNCHANGED vars
    PROVE  /\ read' = read /\ link' = link
           /\ \A k \in 1..read : written'[k] = written[k]
           /\ codec'.open = codec.open /\ codec'.lines = codec.lines
           /\ heard' = heard
  <1>0. \A k \in 1..read : k \in 1 .. Len(written)
    BY WrittenTypes
  <1>1. CASE TmuxStep
    <2>1. CASE Greets \/ Answers
      BY <1>0, <2>1, BlockFacts
    <2>2. CASE Notifies
      BY <1>0, <2>2, EventFacts
    <2>3. CASE Exits
      <3>1. /\ \A k \in 1 .. Len(written') : written'[k] = written[k]
            /\ read <= Len(written') /\ written' \in Seq(Line)
            /\ UNCHANGED <<read, codec, link, heard>>
        BY <2>3, ExitFacts
      <3>2. \A k \in 1..read : k \in 1 .. Len(written')
        BY <3>1, LenProperties, WrittenTypes
      <3> QED
        BY <3>1, <3>2
    <2> QED
      BY <1>1, <2>1, <2>2, <2>3 DEF TmuxStep
  <1>2. CASE ReadPart
    BY <1>2 DEF ReadPart, TypeInv
  <1>3. CASE ReadEof \/ ReadFails \/ TakeReply
    BY <1>3 DEF ReadEof, ReadFails, ReadEnds, TakeReply
  <1>4. CASE Sends \/ SendFails \/ FindsStray \/ DetachFails \/ Close
    BY <1>4 DEF Sends, SendFails, FindsStray, DetachFails, Close
  <1>5. CASE UNCHANGED vars
    BY <1>5 DEF vars
  <1> QED
    BY <1>1, <1>2, <1>3, <1>4, <1>5

\* Whether a block is open, and what it holds, is known from what was read.
LEMMA ReaderIsKept ==
    ASSUME TypeInv, WrittenInv, ReaderInv, [Next]_vars
    PROVE  ReaderInv'
  <1>0. /\ read \in Nat /\ Len(written) \in Nat /\ read <= Len(written)
        /\ codec.lines \in Seq(Line) /\ Len(codec.lines) \in Nat
    BY WrittenTypes, LenProperties DEF TypeInv
  <1>1. CASE ReadLine
    <2> SUFFICES ASSUME PlainSoFar'
                 PROVE  ReaderInv'
      BY DEF ReaderInv
    <2> DEFINE line == written[read + 1]
    <2>1. read' = read + 1 /\ UNCHANGED <<written, link>> /\ line \in Line
      BY <1>1, ReadFacts
    <2>2. /\ PlainSoFar /\ line.link = link
          /\ \/ /\ line.is = "output" /\ WithinBlock /\ line.of = written[read].of
                /\ codec'.open /\ codec'.lines = Append(codec.lines, line)
             \/ /\ End(line) /\ ~ codec'.open /\ codec'.lines = <<>>
             \/ /\ line.is = "event" /\ ~ codec'.open /\ codec'.lines = <<>>
             \/ /\ Begin(line) /\ codec'.open /\ codec'.lines = <<>>
      BY <1>1, ReadCases
    <2>3. WithinBlock' <=> Inside(line)
      BY <1>0, <2>1, <2>2 DEF WithinBlock, Inside, Begin
    <2>9. codec'.open \in BOOLEAN
      BY <1>1, ReadFacts
    <2>4. written'[read'] = line /\ read' - 0 = read'
      BY <1>0, <2>1
    <2>5. WithinBlock' \in BOOLEAN
      BY DEF WithinBlock
    <2> HIDE DEF line
    <2>6. CASE ~ Inside(line)
      <3>1. ~ codec'.open /\ codec'.lines = <<>>
        BY <2>2, <2>6 DEF Inside
      <3> QED
        BY <2>3, <2>5, <2>6, <2>9, <3>1 DEF ReaderInv
    <2>7. CASE Begin(line)
      <3>1. codec'.open /\ codec'.lines = <<>>
        BY <2>2, <2>7 DEF Begin, End
      <3>2. WithinBlock'
        BY <2>3, <2>7 DEF Inside
      <3>3. Len(codec'.lines) = 0 /\ 0 < read'
        BY <1>0, <2>1, <3>1
      <3> QED
        BY <2>4, <2>7, <2>9, <3>1, <3>2, <3>3 DEF ReaderInv, Begin
    <2>8. CASE line.is = "output"
      <3> DEFINE size == Len(codec.lines)
      <3>1. /\ WithinBlock /\ line.of = written[read].of
            /\ codec'.open /\ codec'.lines = Append(codec.lines, line)
        BY <2>2, <2>8 DEF Begin, End
      <3>2. WithinBlock'
        BY <2>3, <2>8 DEF Inside
      <3>3. /\ Len(codec'.lines) = size + 1 /\ codec'.lines[size + 1] = line
            /\ \A i \in 1..size : codec'.lines[i] = codec.lines[i]
        BY <1>0, <2>1, <3>1, AppendProperties
      <3>4. /\ size < read /\ Begin(written[read - size])
            /\ written[read - size].of = line.of
            /\ \A i \in 1..size :
                 /\ codec.lines[i] = written[read - size + i]
                 /\ codec.lines[i].is = "output" /\ codec.lines[i].of = line.of
        BY <2>2, <3>1 DEF ReaderInv
      <3>5. size \in Nat /\ read' - (size + 1) = read - size /\ read - size \in Nat
        BY <1>0, <2>1, <3>4
      <3> HIDE DEF size
      <3>6. \A i \in 1 .. size + 1 :
               /\ codec'.lines[i] = written[read - size + i]
               /\ codec'.lines[i].is = "output" /\ codec'.lines[i].of = line.of
        <4> SUFFICES ASSUME NEW i \in 1 .. size + 1
                     PROVE  /\ codec'.lines[i] = written[read - size + i]
                            /\ codec'.lines[i].is = "output"
                            /\ codec'.lines[i].of = line.of
          OBVIOUS
        <4>1. CASE i \in 1..size
          BY <3>3, <3>4, <4>1
        <4>2. CASE i = size + 1
          <5>1. read - size + i = read'
            BY <1>0, <2>1, <3>5, <4>2
          <5> QED
            BY <2>1, <2>4, <2>8, <3>3, <4>2, <5>1
        <4> QED
          BY <3>5, <4>1, <4>2
      <3>7. Len(codec'.lines) < read'
        BY <1>0, <2>1, <3>3, <3>4, <3>5
      <3>8. /\ Begin(written'[read' - Len(codec'.lines)])
            /\ written'[read' - Len(codec'.lines)].of = written'[read'].of
        BY <2>1, <2>4, <3>3, <3>4, <3>5
      <3>9. \A i \in 1 .. Len(codec'.lines) :
               /\ codec'.lines[i] = written'[read' - Len(codec'.lines) + i]
               /\ codec'.lines[i].is = "output"
               /\ codec'.lines[i].of = written'[read'].of
        BY <2>1, <2>4, <3>3, <3>5, <3>6
      <3> QED
        BY <2>9, <3>1, <3>2, <3>7, <3>8, <3>9 DEF ReaderInv, Begin
    <2> QED
      BY <2>6, <2>7, <2>8 DEF Inside
  <1>2. CASE Reconnect
    <2>1. /\ read' = Len(written) /\ written' = written /\ link' = link + 1
          /\ codec'.open = FALSE /\ codec'.lines = <<>>
      BY <1>2 DEF Reconnect, NewCodec, Fresh
    <2>2. ~ WithinBlock'
      <3>1. \A k \in 1 .. Len(written) : written[k].link # link + 1
        BY WrittenTypes DEF WrittenInv, WellFormed
      <3>2. Len(written) > 0 => Len(written) \in 1 .. Len(written)
        BY <1>0
      <3> QED
        BY <2>1, <3>1, <3>2 DEF WithinBlock
    <2>3. WithinBlock' \in BOOLEAN /\ ~ codec'.open
      BY <2>1 DEF WithinBlock
    <2> QED
      BY <2>1, <2>2, <2>3 DEF ReaderInv
  <1>3. CASE ~ ReadLine /\ ~ Reconnect
    <2>1. /\ read' = read /\ link' = link
          /\ \A k \in 1..read : written'[k] = written[k]
          /\ codec'.open = codec.open /\ codec'.lines = codec.lines
      BY <1>3, ReadStays DEF Next, ClientStep, ReadStep
    <2>2. PlainSoFar' <=> PlainSoFar
      BY <2>1, Zenon DEF PlainSoFar, Closes
    <2>3. read > 0 => written'[read] = written[read]
      BY <1>0, <2>1
    <2>4. WithinBlock' <=> WithinBlock
      BY <2>1, <2>3, Zenon DEF WithinBlock, Inside, Begin
    <2> SUFFICES ASSUME PlainSoFar
                 PROVE  ReaderInv'
      BY <2>2 DEF ReaderInv
    <2>5. codec.open = WithinBlock /\ (~ WithinBlock => codec.lines = <<>>)
      BY DEF ReaderInv
    <2>6. CASE ~ WithinBlock
      <3>1. WithinBlock \in BOOLEAN /\ WithinBlock' \in BOOLEAN
        BY DEF WithinBlock
      <3>2. ~ WithinBlock' /\ ~ codec'.open /\ codec'.lines = <<>>
        BY <2>1, <2>4, <2>5, <2>6, <3>1
      <3>3. codec'.open \in BOOLEAN
        BY <2>1 DEF TypeInv
      <3> QED
        BY <3>1, <3>2, <3>3 DEF ReaderInv
    <2>7. CASE WithinBlock
      <3> DEFINE size == Len(codec.lines)
      <3>1. /\ size < read /\ Begin(written[read - size])
            /\ written[read - size].of = written[read].of
            /\ \A i \in 1..size :
                 /\ codec.lines[i] = written[read - size + i]
                 /\ codec.lines[i].is = "output"
                 /\ codec.lines[i].of = written[read].of
        BY <2>7 DEF ReaderInv
      <3>2. size \in Nat /\ read - size \in 1..read
            /\ \A i \in 1..size : read - size + i \in 1..read
        BY <1>0, <3>1
      <3>3. read \in 1..read
        BY <1>0, <3>1
      <3> HIDE DEF size
      <3>4. /\ size < read /\ Begin(written'[read - size])
            /\ written'[read - size].of = written'[read].of
            /\ \A i \in 1..size :
                 /\ codec.lines[i] = written'[read - size + i]
                 /\ codec.lines[i].is = "output"
                 /\ codec.lines[i].of = written'[read].of
        BY <2>1, <3>1, <3>2, <3>3
      <3> USE DEF size
      <3> QED
        BY <2>1, <2>4, <2>5, <2>7, <3>4 DEF ReaderInv, Begin
    <2> QED
      BY <2>6, <2>7
  <1> QED
    BY <1>1, <1>2, <1>3

-----------------------------------------------------------------------------
\* What a sequence with one more, or without its first, is made of.
LEMMA RangeFacts ==
    ASSUME NEW S, NEW s \in Seq(S), NEW x \in S
    PROVE  /\ \A y \in Range(Append(s, x)) : y \in Range(s) \/ y = x
           /\ s # <<>> => Range(Tail(s)) \subseteq Range(s) /\ Head(s) \in Range(s)
                          /\ Head(s) = s[1] /\ 1 \in DOMAIN s
  <1>1. /\ Len(s) \in Nat /\ DOMAIN s = 1 .. Len(s)
        /\ DOMAIN Append(s, x) = 1 .. Len(s) + 1
        /\ \A i \in 1 .. Len(s) : Append(s, x)[i] = s[i]
        /\ Append(s, x)[Len(s) + 1] = x
    BY LenProperties, AppendProperties
  <1>2. ASSUME NEW y \in Range(Append(s, x))
        PROVE  y \in Range(s) \/ y = x
    <2>1. PICK i \in 1 .. Len(s) + 1 : y = Append(s, x)[i]
      BY <1>1 DEF Range
    <2>2. CASE i \in 1 .. Len(s)
      BY <1>1, <2>1, <2>2, Zenon DEF Range
    <2>3. CASE i = Len(s) + 1
      BY <1>1, <2>1, <2>3, Zenon
    <2> QED
      BY <1>1, <2>2, <2>3
  <1>3. ASSUME s # <<>>
        PROVE  /\ Range(Tail(s)) \subseteq Range(s) /\ Head(s) \in Range(s)
               /\ Head(s) = s[1] /\ 1 \in DOMAIN s
    <2>1. /\ Tail(s) \in Seq(S) /\ Len(Tail(s)) = Len(s) - 1
          /\ \A i \in 1 .. Len(Tail(s)) : Tail(s)[i] = s[i + 1]
          /\ Head(s) = s[1] /\ Len(s) # 0
      BY <1>3, HeadTailProperties, EmptySeq
    <2>2. DOMAIN Tail(s) = 1 .. Len(Tail(s))
      BY <2>1, LenProperties
    <2>3. \A i \in DOMAIN Tail(s) : i + 1 \in DOMAIN s /\ Tail(s)[i] = s[i + 1]
      BY <1>1, <2>1, <2>2
    <2>4. 1 \in DOMAIN s
      BY <1>1, <2>1
    <2>5. Range(Tail(s)) \subseteq Range(s)
      BY <2>3 DEF Range
    <2>6. Head(s) \in Range(s)
      BY <2>1, <2>4 DEF Range
    <2> QED
      BY <2>1, <2>4, <2>5, <2>6
  <1> QED
    BY <1>2, <1>3

\* The lines of a command whose block has been read are there, and no others
\* ever will be.
LEMMA OutputStays ==
    ASSUME TypeInv, WrittenInv, TmuxStep, NEW at \in 1..read,
           End(written[at]), written[at].of # 0
    PROVE  {line \in Lines' : line.is = "output" /\ line.of = written[at].of}
           = {line \in Lines : line.is = "output" /\ line.of = written[at].of}
  <1> DEFINE n == written[at].of
  <1>1. /\ read \in Nat /\ Len(written) \in Nat /\ read <= Len(written)
        /\ at \in 1 .. Len(written) /\ n \in Nat /\ n # 0
        /\ DOMAIN written = 1 .. Len(written)
    BY WrittenTypes
  <1>2. /\ written' \in Seq(Line) /\ Len(written') \in Nat
        /\ DOMAIN written' = 1 .. Len(written')
        /\ \A k \in 1 .. Len(written') :
             \/ k \in 1 .. Len(written) /\ written'[k] = written[k]
             \/ written'[k].of # n
        /\ \A k \in 1 .. read :
             k \in 1 .. Len(written') /\ written'[k] = written[k]
    <2>1. CASE Greets \/ Answers
      <3>1. /\ written' \in Seq(Line) /\ Len(written') > Len(written) + 1
            /\ \A k \in 1 .. Len(written) : written'[k] = written[k]
            /\ \A k \in Len(written) + 1 .. Len(written') :
                 written'[k].of = IF tmux.greeted THEN Head(tmux.unanswered) ELSE 0
            /\ tmux.greeted => tmux.unanswered # <<>>
        BY <2>1, BlockFacts
      <3>2. Len(written') \in Nat /\ DOMAIN written' = 1 .. Len(written')
        BY <3>1, LenProperties
      <3>3. tmux.greeted => Head(tmux.unanswered) # n
        <4>1. tmux.unanswered \in Seq(Nat)
          BY DEF TypeInv
        <4>2. tmux.greeted => /\ Head(tmux.unanswered) = tmux.unanswered[1]
                              /\ 1 \in DOMAIN tmux.unanswered
          BY <3>1, <4>1, RangeFacts, 0 \in Nat
        <4> QED
          BY <1>1, <4>2 DEF WrittenInv, Unanswered
      <3>4. \A k \in Len(written) + 1 .. Len(written') : written'[k].of # n
        BY <1>1, <3>1, <3>3
      <3>5. /\ \A k \in 1 .. Len(written') :
                  k \in 1 .. Len(written) \/ k \in Len(written) + 1 .. Len(written')
            /\ \A k \in 1 .. Len(written) : k \in 1 .. Len(written')
            /\ \A k \in 1..read : k \in 1 .. Len(written)
        BY <1>1, <3>1, <3>2
      <3> HIDE DEF n
      <3> QED
        BY <3>1, <3>2, <3>4, <3>5, Zenon
    <2>2. CASE Notifies
      <3>1. /\ written' \in Seq(Line) /\ Len(written') = Len(written) + 1
            /\ \A k \in 1 .. Len(written) : written'[k] = written[k]
            /\ written'[Len(written) + 1].of = 0
        BY <2>2, EventFacts
      <3>2. /\ Len(written') \in Nat /\ DOMAIN written' = 1 .. Len(written')
            /\ \A k \in 1 .. Len(written') :
                  k \in 1 .. Len(written) \/ k = Len(written) + 1
            /\ \A k \in 1 .. Len(written) : k \in 1 .. Len(written')
            /\ \A k \in 1..read : k \in 1 .. Len(written)
        BY <1>1, <3>1, LenProperties
      <3> HIDE DEF n
      <3> QED
        BY <1>1, <3>1, <3>2, Zenon
    <2>3. CASE Exits
      <3>1. /\ written' \in Seq(Line) /\ Len(written') <= Len(written)
            /\ \A k \in 1 .. Len(written') : written'[k] = written[k]
            /\ read <= Len(written')
        BY <2>3, ExitFacts
      <3>2. /\ Len(written') \in Nat /\ DOMAIN written' = 1 .. Len(written')
        BY <3>1, LenProperties
      <3>3. /\ \A k \in 1 .. Len(written') : k \in 1 .. Len(written)
            /\ \A k \in 1..read : k \in 1 .. Len(written')
        BY <1>1, <3>1, <3>2
      <3> HIDE DEF n
      <3> QED
        BY <2>3, <3>1, <3>2, <3>3, Zenon
    <2> QED
      BY <2>1, <2>2, <2>3 DEF TmuxStep
  <1>3. ASSUME NEW k \in 1 .. Len(written), written[k].is = "output", written[k].of = n
        PROVE  k \in 1..read
    <2>1. k # at
      BY <1>3 DEF End
    <2>2. ~ (at < k)
      <3> SUFFICES ASSUME at < k
                   PROVE  FALSE
        OBVIOUS
      <3>1. Inside(written[at])
        BY <1>1, <1>3 DEF WrittenInv, OneBlock, End
      <3> QED
        BY <3>1 DEF Inside, Begin, End
    <2> QED
      BY <1>1, <2>1, <2>2
  <1> HIDE DEF n
  <1>4. ASSUME NEW line \in Lines, line.is = "output", line.of = n
        PROVE  line \in Lines'
    <2>1. PICK k \in 1 .. Len(written) : line = written[k]
      BY <1>1 DEF Lines, Range
    <2>2. k \in 1..read
      BY <1>3, <1>4, <2>1
    <2> QED
      BY <1>2, <2>1, <2>2, Zenon DEF Lines, Range
  <1>5. ASSUME NEW line \in Lines', line.is = "output", line.of = n
        PROVE  line \in Lines
    <2>1. PICK k \in 1 .. Len(written') : line = written'[k]
      BY <1>2, Zenon DEF Lines, Range
    <2>2. k \in 1 .. Len(written) /\ written'[k] = written[k]
      BY <1>2, <1>5, <2>1, Zenon
    <2> QED
      BY <1>1, <2>1, <2>2, Zenon DEF Lines, Range
  <1> QED
    <2>1. {line \in Lines' : line.is = "output" /\ line.of = n}
          = {line \in Lines : line.is = "output" /\ line.of = n}
      BY <1>4, <1>5
    <2> QED
      BY <2>1 DEF n

\* What has been gathered when a block ends is its command's output, all of it.
LEMMA GatheredWhole ==
    ASSUME TypeInv, WrittenInv, ReaderInv, PlainSoFar, read < Len(written),
           NEW line, line = written[read + 1], End(line), WithinBlock,
           line.of = written[read].of, line.of # 0
    PROVE  AreOutputOf(codec.lines, line.of)
  <1> DEFINE lines == codec.lines
             begin == read - Len(lines)
  <1>1. /\ read \in Nat /\ Len(written) \in Nat /\ read + 1 \in 1 .. Len(written)
        /\ written \in Seq(Line) /\ DOMAIN written = 1 .. Len(written)
        /\ \A k \in 1 .. Len(written) : written[k].at = k /\ written[k].of \in Nat
        /\ lines \in Seq(Line) /\ Len(lines) \in Nat /\ DOMAIN lines = 1 .. Len(lines)
    BY WrittenTypes, LenProperties DEF TypeInv
  <1>2. /\ Len(lines) < read /\ Begin(written[begin]) /\ written[begin].of = line.of
        /\ \A i \in 1 .. Len(lines) :
             lines[i] = written[begin + i] /\ lines[i].is = "output" /\ lines[i].of = line.of
    BY DEF ReaderInv
  <1>3. /\ begin \in 1..read /\ begin + Len(lines) = read
        /\ \A i \in 1 .. Len(lines) : begin + i \in 1 .. Len(written)
    <2>1. /\ read \in Nat /\ Len(written) \in Nat /\ read + 1 <= Len(written)
          /\ Len(lines) \in Nat /\ Len(lines) < read
      BY <1>1, <1>2
    <2> HIDE DEF lines
    <2> QED
      BY <2>1
  <1> HIDE DEF lines, begin
  <1>4. InOrder(lines)
    <2> SUFFICES ASSUME NEW i \in 1 .. Len(lines), NEW j \in 1 .. Len(lines), i < j
                 PROVE  lines[i].at < lines[j].at
      BY <1>1 DEF InOrder
    <2>1. lines[i].at = begin + i /\ lines[j].at = begin + j
      BY <1>1, <1>2, <1>3
    <2> QED
      BY <1>1, <1>3, <2>1
  <1>5. ASSUME NEW i \in 1 .. Len(lines)
        PROVE  lines[i] \in Lines /\ lines[i].is = "output" /\ lines[i].of = line.of
    BY <1>1, <1>2, <1>3, Zenon DEF Lines, Range
  <1>6. ASSUME NEW k \in 1 .. Len(written), written[k].is = "output",
               written[k].of = line.of
        PROVE  \E i \in 1 .. Len(lines) : lines[i] = written[k]
    <2>1. begin \in 1 .. Len(written)
      BY <1>1, <1>3
    <2>2. /\ \A j, m \in 1 .. Len(written) :
               /\ j < m /\ written[j].is # "event" /\ written[m].is # "event"
               /\ written[j].of = line.of /\ written[m].of = line.of
               => Inside(written[j]) /\ ~ Begin(written[m])
      BY DEF WrittenInv, OneBlock
    <2>3. ~ (k < begin)
      BY <1>2, <1>6, <2>1, <2>2 DEF Begin
    <2>4. k # begin /\ k # read + 1
      BY <1>2, <1>6 DEF Begin, End
    <2>5. ~ (read + 1 < k)
      <3>1. line.is # "event" /\ ~ Inside(line)
        BY DEF End, Inside, Begin
      <3> QED
        BY <1>1, <1>6, <2>2, <3>1
    <2>6. k - begin \in 1 .. Len(lines) /\ begin + (k - begin) = k
      BY <1>1, <1>3, <2>3, <2>4, <2>5
    <2> QED
      BY <1>2, <2>6
  <1>7. Range(lines) = {l \in Lines : l.is = "output" /\ l.of = line.of}
    <2>1. \A l \in Range(lines) : l \in Lines /\ l.is = "output" /\ l.of = line.of
      BY <1>1, <1>5 DEF Range
    <2>2. ASSUME NEW l \in Lines, l.is = "output", l.of = line.of
          PROVE  l \in Range(lines)
      <3>1. PICK k \in 1 .. Len(written) : l = written[k]
        BY <1>1 DEF Lines, Range
      <3>2. PICK i \in 1 .. Len(lines) : lines[i] = written[k]
        BY <1>6, <2>2, <3>1
      <3> QED
        BY <1>1, <3>1, <3>2, Zenon DEF Range
    <2> QED
      BY <2>1, <2>2
  <1> USE DEF lines
  <1> QED
    BY <1>4, <1>7 DEF AreOutputOf

\* A block that has settled stays whole.
LEMMA WholeStays ==
    ASSUME TypeInv, WrittenInv, TmuxStep, NEW reply \in Reply, reply.at \in 1..read,
           IsWhole(reply)
    PROVE  IsWhole(reply)'
  <1> DEFINE line == written[reply.at]
  <1>1. written'[reply.at] = line
    BY ReadStays
  <1>2. End(line)
    BY DEF IsWhole
  <1>3. line.of # 0 =>
          {l \in Lines' : l.is = "output" /\ l.of = line.of}
          = {l \in Lines : l.is = "output" /\ l.of = line.of}
    BY <1>2, OutputStays
  <1> HIDE DEF line
  <1>4. /\ reply.how = line.looks
        /\ IF line.looks = "broken" THEN reply.lines = <<>>
           ELSE line.of # 0 =>
                  /\ InOrder(reply.lines)
                  /\ Range(reply.lines)
                     = {l \in Lines : l.is = "output" /\ l.of = line.of}
    BY DEF IsWhole, AreOutputOf, line
  <1>5. /\ reply.how = line.looks
        /\ IF line.looks = "broken" THEN reply.lines = <<>>
           ELSE line.of # 0 =>
                  /\ InOrder(reply.lines)
                  /\ Range(reply.lines)
                     = {l \in Lines' : l.is = "output" /\ l.of = line.of}
    BY <1>3, <1>4, Zenon
  <1> QED
    BY <1>1, <1>2, <1>5, Zenon DEF IsWhole, AreOutputOf, End, InOrder

\* What has settled was read since the call began, and whole.
LEMMA SettledIsKept ==
    ASSUME TypeInv, WrittenInv, ReaderInv, SettledInv, TypeInv', [Next]_vars
    PROVE  SettledInv'
  <1>0. /\ read \in Nat /\ since \in 0..read /\ replies \in Seq(Reply)
        /\ \A reply \in Range(replies) : reply \in Reply /\ reply.at \in 1..read
        /\ read <= Len(written) /\ Len(written) \in Nat
    <2>1. replies \in Seq(Reply) /\ DOMAIN replies = 1 .. Len(replies)
      BY LenProperties DEF TypeInv
    <2>2. \A i \in DOMAIN replies : replies[i] \in Reply /\ replies[i].at \in 1..read
      BY <2>1, ElementOfSeq DEF TypeInv
    <2>3. \A reply \in Range(replies) : reply \in Reply /\ reply.at \in 1..read
      BY <2>2, Zenon DEF Range
    <2>4. since \in 0..read
      BY DEF TypeInv
    <2> QED
      BY <2>1, <2>3, <2>4, WrittenTypes
  <1>1. CASE ReadLine
    <2> PICK line \in Line : line = written[read + 1]
      BY <1>1, ReadFacts
    <2>1. /\ read' = read + 1 /\ read < Len(written) /\ line.at = read + 1
          /\ Dispatch(line) /\ UNCHANGED <<written, since, link>>
      BY <1>1, ReadFacts
    <2>2. line.link = link
      <3>1. read + 1 \in 1 .. Len(written) /\ read + 1 > read
        BY <1>0, <2>1
      <3> QED
        BY <3>1 DEF WrittenInv, WellFormed
    <2>3. PlainSoFar' => PlainSoFar
      BY <1>1, ReadCases
    <2>4. ASSUME NEW reply \in Range(replies)
          PROVE  /\ reply.at > since' /\ written'[reply.at].link = link'
                 /\ PlainSoFar' => IsWhole(reply)'
      <3>1. /\ reply.at > since /\ written[reply.at].link = link
            /\ PlainSoFar => IsWhole(reply)
        BY DEF SettledInv
      <3>2. IsWhole(reply) => IsWhole(reply)'
        BY <2>1 DEF IsWhole, End, AreOutputOf, InOrder, Lines
      <3> QED
        BY <2>1, <2>3, <3>1, <3>2
    <2>5. CASE replies' = replies
      BY <2>4, <2>5 DEF SettledInv
    <2>6. CASE replies' = Append(replies, ReplyOf(codec, line))
      <3>1. ReplyOf(codec, line) \in Reply
        <4>1. codec.lines \in Seq(Line) /\ <<>> \in Seq(Line)
          BY EmptySeq DEF TypeInv
        <4> QED
          BY <4>1 DEF ReplyOf, Reply, Line
      <3> PICK reply \in Reply : reply = ReplyOf(codec, line)
        BY <3>1
      <3>2. /\ reply.at = read + 1 /\ reply.how = line.looks
            /\ reply.lines = IF line.looks = "broken" THEN <<>> ELSE codec.lines
        BY <2>1 DEF ReplyOf
      <3>3. reply.at > since' /\ written'[reply.at].link = link'
        BY <1>0, <2>1, <2>2, <3>2
      <3>4. ASSUME PlainSoFar'
            PROVE  IsWhole(reply)'
        <4>1. End(line) /\ WithinBlock /\ line.of = written[read].of /\ PlainSoFar
          <5>1. replies' # replies
            <6>1. Len(replies') = Len(replies) + 1 /\ Len(replies) \in Nat
              BY <1>0, <2>6, <3>1, AppendProperties, LenProperties
            <6> QED
              BY <6>1
          <5> QED
            BY <1>1, <3>4, <5>1, ReadCases
        <4>2. line.of # 0 => AreOutputOf(codec.lines, line.of)
          BY <2>1, <4>1, GatheredWhole
        <4>3. written'[reply.at] = line
          BY <2>1, <3>2
        <4>4. IF line.looks = "broken" THEN reply.lines = <<>>
              ELSE line.of # 0 =>
                     /\ InOrder(reply.lines)
                     /\ Range(reply.lines)
                        = {l \in Lines' : l.is = "output" /\ l.of = line.of}
          <5>1. line.looks # "broken" => reply.lines = codec.lines
            BY <3>2
          <5>2. line.of # 0 =>
                   /\ InOrder(codec.lines)
                   /\ Range(codec.lines)
                      = {l \in Lines' : l.is = "output" /\ l.of = line.of}
            BY <2>1, <4>2 DEF AreOutputOf, Lines
          <5> QED
            BY <3>2, <5>1, <5>2, Zenon
        <4> QED
          BY <3>2, <4>1, <4>3, <4>4, Zenon DEF IsWhole, AreOutputOf, End, InOrder
      <3>5. \A r \in Range(replies') : r \in Range(replies) \/ r = reply
        BY <1>0, <2>6, <3>1, RangeFacts
      <3> QED
        BY <2>4, <3>3, <3>4, <3>5, Zenon DEF SettledInv
    <2> QED
      BY <2>1, <2>5, <2>6 DEF Dispatch
  <1>2. CASE TmuxStep
    <2>1. replies' = replies /\ since' = since
      BY <1>2 DEF TmuxStep, Greets, Answers, Notifies, Write, Exits
    <2>2. /\ read' = read /\ link' = link
          /\ \A k \in 1..read : written'[k] = written[k]
      BY <1>2, ReadStays
    <2>3. PlainSoFar' => PlainSoFar
      BY <2>2, Zenon DEF PlainSoFar, Closes
    <2>4. ASSUME NEW reply \in Range(replies)
          PROVE  /\ reply.at > since /\ written'[reply.at].link = link
                 /\ PlainSoFar' => IsWhole(reply)'
      <3>1. reply \in Reply /\ reply.at \in 1..read
        BY <1>0
      <3>2. IsWhole(reply) => IsWhole(reply)'
        BY <1>2, <3>1, WholeStays
      <3> QED
        BY <2>2, <2>3, <3>1, <3>2 DEF SettledInv
    <2> QED
      BY <2>1, <2>2, <2>4, Zenon DEF SettledInv
  <1>3. CASE ReadPart \/ ReadEof \/ ReadFails \/ TakeReply \/ SendFails \/ FindsStray
             \/ DetachFails \/ Close \/ UNCHANGED vars
    <2>1. UNCHANGED <<written, read, link, since>>
      BY <1>3 DEF ReadPart, ReadEof, ReadFails, ReadEnds, TakeReply, SendFails,
                  FindsStray, DetachFails, Close, vars
    <2>2. replies' = replies \/ (replies # <<>> /\ replies' = Tail(replies))
      BY <1>3 DEF ReadPart, ReadEof, ReadFails, ReadEnds, TakeReply, SendFails,
                  FindsStray, DetachFails, Close, vars, NothingLeft
    <2>3. Range(replies') \subseteq Range(replies)
      <3>1. CASE replies' = replies
        BY <3>1
      <3>2. CASE replies # <<>> /\ replies' = Tail(replies)
        <4>1. PICK i \in DOMAIN replies : TRUE
          <5>1. Len(replies) \in Nat /\ Len(replies) # 0
                /\ DOMAIN replies = 1 .. Len(replies)
            BY <1>0, <3>2, EmptySeq, LenProperties
          <5>2. 1 \in DOMAIN replies
            BY <5>1
          <5> QED
            BY <5>2
        <4>2. replies[i] \in Reply
          BY <1>0 DEF Range
        <4> QED
          BY <1>0, <3>2, <4>2, RangeFacts
      <3> QED
        BY <2>2, <3>1, <3>2
    <2>4. ASSUME NEW reply \in Range(replies)
          PROVE  /\ reply.at > since' /\ written'[reply.at].link = link'
                 /\ PlainSoFar' => IsWhole(reply)'
      <3>1. PlainSoFar' => PlainSoFar
        BY <2>1 DEF PlainSoFar, Closes
      <3>2. IsWhole(reply) => IsWhole(reply)'
        BY <2>1 DEF IsWhole, End, AreOutputOf, InOrder, Lines
      <3> QED
        BY <2>1, <3>1, <3>2 DEF SettledInv
    <2> QED
      BY <2>3, <2>4 DEF SettledInv
  <1>4. CASE Sends \/ Reconnect
    <2>1. replies' = <<>>
      BY <1>4 DEF Sends, Reconnect, NothingLeft
    <2>2. Range(replies') = {}
      BY <2>1 DEF Range
    <2> QED
      BY <2>2 DEF SettledInv
  <1> QED
    BY <1>1, <1>2, <1>3, <1>4 DEF Next, ClientStep, ReadStep

-----------------------------------------------------------------------------
\* No more than one block is due, and the call that waits is the one it is for.
LEMMA AskedIsKept ==
    ASSUME TypeInv, WrittenInv, ReaderInv, AskedInv, [Next]_vars
    PROVE  AskedInv'
  <1> SUFFICES ASSUME PlainSoFar', state' \notin Reasons
               PROVE  AskedInv'
    BY DEF AskedInv
  <1>0. /\ read \in Nat /\ Len(written) \in Nat /\ read <= Len(written)
        /\ command \in Nat /\ replies \in Seq(Reply) /\ tmux.unanswered \in Seq(Nat)
        /\ \A k \in 1 .. Len(written) : written[k].of \in Nat
        /\ replies # <<>> => replies[1].at \in 1..read
    <2>1. replies \in Seq(Reply) /\ replies # <<>> => 1 \in DOMAIN replies
      <3>1. replies \in Seq(Reply) => Len(replies) \in Nat
                                      /\ DOMAIN replies = 1 .. Len(replies)
        BY LenProperties
      <3>2. replies \in Seq(Reply) /\ replies # <<>> => Len(replies) # 0
        BY EmptySeq
      <3> QED
        BY <3>1, <3>2
    <2>2. replies \in Seq(Reply) /\ tmux.unanswered \in Seq(Nat)
          /\ \A i \in DOMAIN replies : replies[i].at \in 1..read
      BY DEF TypeInv
    <2> QED
      BY <2>1, <2>2, WrittenTypes
  <1>1. ASSUME PlainSoFar, state \notin Reasons
        PROVE  /\ Len(replies) <= 1
               /\ replies # <<>> => Calling /\ written[replies[1].at].of = Asked
               /\ \A k \in read + 1 .. Len(written) :
                    written[k].is # "event" =>
                       Calling /\ written[k].of = Asked /\ replies = <<>>
                       /\ tmux.unanswered = <<>> /\ tmux.greeted
               /\ tmux.unanswered # <<>> =>
                    call = "executing" /\ tmux.unanswered = <<command>>
                    /\ replies = <<>>
               /\ ~ tmux.greeted => call = "greeting" /\ replies = <<>>
    BY <1>1 DEF AskedInv
  <1>2. CASE TmuxStep \/ ReadPart \/ UNCHANGED vars
    <2>1. /\ UNCHANGED <<read, replies, state, call, command, link>>
          /\ \A k \in 1..read : written'[k] = written[k]
      <3>1. UNCHANGED <<read, replies, state, call, command, link>>
        BY <1>2 DEF TmuxStep, Greets, Answers, Notifies, Write, Exits, ReadPart, vars
      <3> QED
        BY <1>2, <3>1, ReadStays
    <2>2. PlainSoFar
      BY <2>1, Zenon DEF PlainSoFar, Closes
    <2>3. /\ Asked' = Asked /\ Calling' = Calling /\ state \notin Reasons
          /\ replies # <<>> => written'[replies[1].at] = written[replies[1].at]
      BY <1>0, <2>1 DEF Asked, Calling
    <2>4. CASE Greets \/ Answers
      <3>1. /\ Len(written') > Len(written) + 1 /\ written' \in Seq(Line)
            /\ \A k \in 1 .. Len(written) : written'[k] = written[k]
            /\ \A k \in Len(written) + 1 .. Len(written') :
                 written'[k].of = IF tmux.greeted THEN Head(tmux.unanswered) ELSE 0
            /\ tmux'.greeted
            /\ \/ tmux.greeted /\ tmux.unanswered # <<>>
                  /\ tmux'.unanswered = Tail(tmux.unanswered)
               \/ ~ tmux.greeted /\ tmux'.unanswered = tmux.unanswered
        BY <2>4, BlockFacts
      <3>2. \A k \in read + 1 .. Len(written) : written[k].is = "event"
        BY <1>1, <2>2, <2>3, <3>1, Zenon
      <3>3. /\ Calling /\ replies = <<>> /\ tmux'.unanswered = <<>>
            /\ Asked = IF tmux.greeted THEN Head(tmux.unanswered) ELSE 0
        <4>1. CASE tmux.greeted
          <5>1. tmux.unanswered = <<command>> /\ call = "executing" /\ replies = <<>>
            BY <1>1, <2>2, <2>3, <3>1, <4>1
          <5>2. Head(<<command>>) = command /\ Tail(<<command>>) = <<>>
            BY <1>0
          <5> QED
            BY <3>1, <4>1, <5>1, <5>2 DEF Asked, Calling
        <4>2. CASE ~ tmux.greeted
          <5>1. call = "greeting" /\ replies = <<>>
            BY <1>1, <2>2, <2>3, <4>2
          <5>2. tmux.unanswered = <<>>
            BY <1>1, <2>2, <2>3, <5>1
          <5> QED
            BY <3>1, <4>2, <5>1, <5>2 DEF Asked, Calling
        <4> QED
          BY <4>1, <4>2
      <3>4. \A k \in read + 1 .. Len(written') :
               \/ k \in read + 1 .. Len(written) /\ k \in 1 .. Len(written)
               \/ k \in Len(written) + 1 .. Len(written')
        BY <1>0, <3>1, LenProperties
      <3>5. \A k \in read + 1 .. Len(written') :
               written'[k].is # "event" => written'[k].of = Asked
        BY <3>1, <3>2, <3>3, <3>4, Zenon
      <3>6. Len(replies) <= 1
        BY <1>1, <2>2, <2>3
      <3> QED
        BY <2>1, <2>3, <3>1, <3>3, <3>5, <3>6, Zenon DEF AskedInv
    <2>5. CASE Notifies \/ Exits \/ ReadPart \/ UNCHANGED vars
      <3>1. tmux'.unanswered = tmux.unanswered /\ tmux'.greeted = tmux.greeted
        <4>1. CASE Notifies \/ Exits
          BY <4>1, EventFacts, ExitFacts
        <4> QED
          BY <2>5, <4>1 DEF ReadPart, vars
      <3>2. \A k \in read + 1 .. Len(written') :
               \/ k \in read + 1 .. Len(written) /\ written'[k] = written[k]
               \/ written'[k].is = "event"
        <4>1. CASE Notifies
          <5>1. /\ Len(written') = Len(written) + 1
                /\ \A k \in 1 .. Len(written) : written'[k] = written[k]
                /\ written'[Len(written) + 1].is = "event"
            BY <4>1, EventFacts
          <5>2. \A k \in read + 1 .. Len(written) + 1 :
                   \/ k \in read + 1 .. Len(written) /\ k \in 1 .. Len(written)
                   \/ k = Len(written) + 1
            BY <1>0
          <5> QED
            BY <5>1, <5>2, Zenon
        <4>2. CASE Exits
          <5>1. /\ Len(written') <= Len(written) /\ written' \in Seq(Line)
                /\ \A k \in 1 .. Len(written') : written'[k] = written[k]
            BY <4>2, ExitFacts
          <5>2. \A k \in read + 1 .. Len(written') :
                   k \in read + 1 .. Len(written) /\ k \in 1 .. Len(written')
            BY <1>0, <5>1, LenProperties
          <5> QED
            BY <5>1, <5>2, Zenon
        <4>3. CASE ReadPart \/ UNCHANGED vars
          BY <4>3 DEF ReadPart, vars
        <4> QED
          BY <2>5, <4>1, <4>2, <4>3
      <3> QED
        BY <1>1, <2>1, <2>2, <2>3, <3>1, <3>2, Zenon DEF AskedInv
    <2> QED
      BY <1>2, <2>4, <2>5 DEF TmuxStep
  <1>3. CASE ReadLine
    <2> PICK line \in Line : line = written[read + 1]
      BY <1>3, ReadFacts
    <2>1. /\ read' = read + 1 /\ read < Len(written) /\ line.at = read + 1 /\ Calling
          /\ UNCHANGED <<tmux, written, state, call, command, link>>
      BY <1>3, ReadFacts
    <2>2. /\ PlainSoFar /\ line.link = link
          /\ \/ replies' = replies
             \/ /\ End(line) /\ replies' = Append(replies, ReplyOf(codec, line))
      BY <1>3, ReadCases
    <2>3. Asked' = Asked /\ Calling' /\ state \notin Reasons
      BY <2>1 DEF Asked, Calling
    <2>4. CASE replies' = replies
      <3>1. \A k \in read' + 1 .. Len(written') : k \in read + 1 .. Len(written)
        BY <1>0, <2>1
      <3> QED
        BY <1>1, <2>1, <2>2, <2>3, <2>4, <3>1, Zenon DEF AskedInv
    <2>5. CASE End(line) /\ replies' = Append(replies, ReplyOf(codec, line))
      <3>1. read + 1 \in read + 1 .. Len(written) /\ read + 1 \in 1 .. Len(written)
        BY <1>0, <2>1
      <3>2. line.is # "event" /\ ~ Inside(line)
        BY <2>5 DEF End, Inside, Begin
      <3>3. /\ line.of = Asked /\ replies = <<>> /\ tmux.unanswered = <<>>
            /\ tmux.greeted
        BY <1>1, <2>2, <2>3, <3>1, <3>2
      <3>4. Len(replies') <= 1 /\ written'[replies'[1].at].of = Asked
        <4>1. replies' = <<ReplyOf(codec, line)>>
          BY <2>5, <3>3
        <4>2. ReplyOf(codec, line).at = read + 1
          BY <2>1 DEF ReplyOf
        <4>3. Len(<<ReplyOf(codec, line)>>) = 1
              /\ <<ReplyOf(codec, line)>>[1] = ReplyOf(codec, line)
          OBVIOUS
        <4> QED
          BY <2>1, <3>3, <4>1, <4>2, <4>3
      <3>5. ASSUME NEW k \in read' + 1 .. Len(written'), written'[k].is # "event"
            PROVE  FALSE
        <4>1. /\ k \in read + 1 .. Len(written) /\ k \in 1 .. Len(written)
              /\ read + 1 < k /\ k > read
          BY <1>0, <2>1
        <4>2. written[k].of = line.of /\ written[k].is # "event"
          BY <1>1, <2>1, <2>2, <2>3, <3>3, <3>5, <4>1, Zenon
        <4>3. written[k].link = line.link
          BY <2>2, <4>1 DEF WrittenInv, WellFormed
        <4> QED
          BY <3>1, <3>2, <4>1, <4>2, <4>3 DEF WrittenInv, OneBlock
      <3> QED
        BY <2>1, <2>3, <3>3, <3>4, <3>5, Zenon DEF AskedInv
    <2> QED
      BY <2>2, <2>4, <2>5
  <1>4. CASE ReadEof \/ ReadFails \/ SendFails \/ FindsStray \/ DetachFails \/ Close
    BY <1>4 DEF ReadEof, ReadFails, ReadEnds, SendFails, FindsStray, DetachFails, Close,
                ClosedBy, Reasons
  <1>5. CASE TakeReply
    <2>1. /\ Calling /\ replies # <<>> /\ replies' = Tail(replies)
          /\ UNCHANGED <<tmux, written, read, command, link>>
      BY <1>5 DEF TakeReply
    <2>2. PlainSoFar
      BY <2>1 DEF PlainSoFar, Closes
    <2>3. state \notin Reasons
      BY <1>5, <2>1 DEF TypeInv, Calling, Reasons
    <2>4. replies' = <<>>
      <3>1. Len(replies) <= 1
        BY <1>1, <2>2, <2>3
      <3>2. Len(Tail(replies)) = Len(replies) - 1 /\ Tail(replies) \in Seq(Reply)
            /\ Len(replies) \in Nat /\ Len(replies) # 0
        BY <1>0, <2>1, HeadTailProperties, LenProperties, EmptySeq
      <3>3. Len(Tail(replies)) = 0
        BY <3>1, <3>2
      <3> QED
        BY <2>1, <3>2, <3>3, EmptySeq
    <2>5. /\ \A k \in read + 1 .. Len(written) : written[k].is = "event"
          /\ tmux.unanswered = <<>> /\ tmux.greeted
      BY <1>1, <2>1, <2>2, <2>3
    <2>6. Len(replies') <= 1
      BY <2>4
    <2> QED
      BY <2>1, <2>4, <2>5, <2>6, Zenon DEF AskedInv
  <1>6. CASE Sends
    <2>1. /\ call = "none" /\ state = "ready" /\ replies = <<>>
          /\ tmux' = [tmux EXCEPT !.unanswered = Append(@, command + 1)]
          /\ call' = "executing" /\ command' = command + 1
          /\ UNCHANGED <<written, read, replies, state, link>>
      BY <1>6 DEF Sends, Executing, IsReady, NothingLeft
    <2>2. PlainSoFar /\ ~ Calling /\ state \notin Reasons
      BY <2>1 DEF PlainSoFar, Closes, Calling, Reasons
    <2>3. /\ tmux.unanswered = <<>> /\ tmux.greeted
          /\ \A k \in read + 1 .. Len(written) : written[k].is = "event"
      BY <1>1, <2>1, <2>2
    <2>4. tmux'.greeted = tmux.greeted /\ tmux'.unanswered = <<command'>>
      <3>1. tmux'.unanswered = Append(<<>>, command') /\ tmux'.greeted = tmux.greeted
        BY <2>1, <2>3 DEF TypeInv
      <3>2. Append(<<>>, command') = <<command'>>
        OBVIOUS
      <3> QED
        BY <3>1, <3>2
    <2>5. Len(replies') <= 1
      BY <2>1
    <2> QED
      BY <2>1, <2>3, <2>4, <2>5, Zenon DEF AskedInv
  <1>7. CASE Reconnect
    <2>1. /\ tmux' = Attached /\ read' = Len(written) /\ replies' = <<>>
          /\ call' = "greeting" /\ written' = written
      BY <1>7 DEF Reconnect
    <2>2. /\ tmux'.unanswered = <<>> /\ Len(replies') <= 1
          /\ read' + 1 .. Len(written') = {}
      BY <1>0, <2>1 DEF Attached
    <2> QED
      BY <2>1, <2>2, Zenon DEF AskedInv
  <1> QED
    BY <1>2, <1>3, <1>4, <1>5, <1>6, <1>7 DEF Next, ClientStep, ReadStep

\* The sinks are given each event as it is read.
LEMMA HeardIsKept ==
    ASSUME TypeInv, WrittenInv, ReaderInv, HeardInv, [Next]_vars
    PROVE  HeardInv'
  <1>0. /\ read \in Nat /\ Len(written) \in Nat /\ read <= Len(written) /\ link \in Nat
        /\ heard \in Seq(Line) /\ Len(heard) \in Nat /\ DOMAIN heard = 1 .. Len(heard)
        /\ \A k \in 1 .. Len(written) : written[k].link \in Nat
        /\ \A i \in DOMAIN heard : heard[i].link \in Nat
    <2>1. heard \in Seq(Line)
      BY DEF TypeInv
    <2>2. \A i \in DOMAIN heard : heard[i] \in Line
      BY <2>1, ElementOfSeq, LenProperties
    <2>3. \A i \in DOMAIN heard : heard[i].link \in Nat
      BY <2>2 DEF Line
    <2> QED
      BY <2>1, <2>3, WrittenTypes, LenProperties
  <1>1. /\ \A i, j \in 1 .. Len(heard) : i < j => heard[i].at < heard[j].at
        /\ \A i \in 1 .. Len(heard) : heard[i].at \in 1..read /\ heard[i].link <= link
        /\ PlainSoFar =>
             /\ \A i \in 1 .. Len(heard) : heard[i].link = link =>
                   heard[i].is = "event" /\ heard[i] = written[heard[i].at]
             /\ \A k \in 1..read : written[k].link = link /\ written[k].is = "event"
                   => \E i \in 1 .. Len(heard) : heard[i] = written[k]
    BY <1>0 DEF HeardInv, InOrder
  <1>2. CASE ReadLine
    <2> PICK line \in Line : line = written[read + 1]
      BY <1>2, ReadFacts
    <2>1. /\ read' = read + 1 /\ read < Len(written) /\ line.at = read + 1
          /\ Dispatch(line) /\ UNCHANGED <<written, link>>
      BY <1>2, ReadFacts
    <2>2. line.link = link
      <3>1. read + 1 \in 1 .. Len(written) /\ read + 1 > read
        BY <1>0, <2>1
      <3> QED
        BY <3>1 DEF WrittenInv, WellFormed
    <2>3. ASSUME PlainSoFar'
          PROVE  /\ PlainSoFar
                 /\ \/ line.is # "event" /\ heard' = heard
                    \/ line.is = "event" /\ heard' = Append(heard, line)
      <3>1. /\ PlainSoFar
            /\ \/ line.is = "output" /\ heard' = heard
               \/ End(line) /\ heard' = heard
               \/ line.is = "event" /\ heard' = Append(heard, line)
               \/ Begin(line) /\ heard' = heard
        BY <1>2, <2>3, ReadCases
      <3> QED
        BY <3>1 DEF End, Begin
    <2>4. \A k \in 1 .. read' : k \in 1..read \/ k = read + 1
      BY <1>0, <2>1
    <2>5. \A k \in 1..read : k \in 1 .. read'
      BY <1>0, <2>1
    <2>6. CASE heard' = heard
      <3>1. \A i \in 1 .. Len(heard) : heard[i].at \in 1 .. read' /\ heard[i].link <= link
        BY <1>1, <2>5
      <3>2. ASSUME PlainSoFar'
            PROVE  line.is # "event"
        <4>1. heard' # Append(heard, line)
          <5>1. Len(Append(heard, line)) # Len(heard)
            <6>1. Len(Append(heard, line)) = Len(heard) + 1
              BY <1>0, AppendProperties
            <6>2. \A m \in Nat : m + 1 # m
              OBVIOUS
            <6> QED
              BY <1>0, <6>1, <6>2, Zenon
          <5> QED
            BY <2>6, <5>1, Zenon
        <4> QED
          BY <2>3, <3>2, <4>1
      <3>3. ASSUME PlainSoFar', NEW k \in 1 .. read', written[k].link = link,
                   written[k].is = "event"
            PROVE  \E i \in 1 .. Len(heard) : heard[i] = written[k]
        BY <1>1, <2>3, <2>4, <3>2, <3>3, Zenon
      <3> QED
        BY <1>0, <1>1, <2>1, <2>3, <2>6, <3>1, <3>3, Zenon DEF HeardInv, InOrder
    <2>7. CASE heard' = Append(heard, line)
      <3> DEFINE last == Len(heard) + 1
      <3>1. /\ Len(heard') = last /\ DOMAIN heard' = 1..last
            /\ \A i \in 1 .. Len(heard) : heard'[i] = heard[i]
            /\ heard'[last] = line
        BY <1>0, <2>7, LenProperties, AppendProperties
      <3>2. /\ \A i \in 1..last : i \in 1 .. Len(heard) \/ i = last
            /\ \A i \in 1 .. Len(heard) : i \in 1..last /\ i < last /\ ~ (last < i)
            /\ last \in 1..last /\ ~ (last < last)
        BY <1>0
      <3> HIDE DEF last
      <3>3. InOrder(heard')
        <4>1. \A i \in 1 .. Len(heard) : heard[i].at < line.at
          BY <1>0, <1>1, <2>1
        <4>2. \A i, j \in 1..last : i < j => heard'[i].at < heard'[j].at
          <5> SUFFICES ASSUME NEW i \in 1..last, NEW j \in 1..last, i < j
                       PROVE  heard'[i].at < heard'[j].at
            OBVIOUS
          <5>1. i \in 1 .. Len(heard)
            BY <1>0 DEF last
          <5>2. CASE j \in 1 .. Len(heard)
            BY <1>1, <3>1, <5>1, <5>2
          <5>3. CASE j = last
            BY <3>1, <4>1, <5>1, <5>3
          <5> QED
            BY <3>2, <5>2, <5>3
        <4> QED
          BY <3>1, <4>2 DEF InOrder
      <3>4. \A i \in 1..last : heard'[i].at \in 1 .. read' /\ heard'[i].link <= link
        <4>1. line.at \in 1 .. read' /\ line.link <= link
          BY <1>0, <2>1, <2>2
        <4> QED
          BY <1>1, <2>5, <3>1, <3>2, <4>1, Zenon
      <3>5. ASSUME PlainSoFar'
            PROVE  /\ \A i \in 1..last : heard'[i].link = link =>
                         heard'[i].is = "event" /\ heard'[i] = written[heard'[i].at]
                   /\ \A k \in 1 .. read' :
                         written[k].link = link /\ written[k].is = "event"
                         => \E i \in 1..last : heard'[i] = written[k]
        <4>1. line.is = "event" /\ PlainSoFar
          <5>1. heard' # heard
            <6>1. Len(heard') # Len(heard)
              <7>1. \A m \in Nat : m + 1 # m
                OBVIOUS
              <7> QED
                BY <1>0, <3>1, <7>1, Zenon DEF last
            <6> QED
              BY <6>1, Zenon
          <5> QED
            BY <2>3, <3>5, <5>1
        <4>2. line = written[line.at]
          BY <2>1
        <4>3. ASSUME NEW i \in 1..last, heard'[i].link = link
              PROVE  heard'[i].is = "event" /\ heard'[i] = written[heard'[i].at]
          BY <1>1, <3>1, <3>2, <4>1, <4>2, <4>3, Zenon
        <4>4. ASSUME NEW k \in 1 .. read', written[k].link = link,
                     written[k].is = "event"
              PROVE  \E i \in 1..last : heard'[i] = written[k]
          <5>1. CASE k \in 1..read
            <6>1. PICK i \in 1 .. Len(heard) : heard[i] = written[k]
              BY <1>1, <4>1, <4>4, <5>1
            <6>2. i \in 1..last /\ heard'[i] = written[k]
              BY <3>1, <3>2, <6>1
            <6> QED
              BY <6>2
          <5>2. CASE k = read + 1
            <6>1. heard'[last] = written[k]
              BY <3>1, <5>2
            <6> QED
              BY <3>2, <6>1
          <5> QED
            BY <2>4, <5>1, <5>2
        <4> QED
          BY <4>3, <4>4
      <3> QED
        BY <2>1, <3>1, <3>3, <3>4, <3>5, Zenon DEF HeardInv, InOrder
    <2> QED
      BY <2>1, <2>6, <2>7 DEF Dispatch
  <1>3. CASE Reconnect
    <2>1. /\ read' = Len(written) /\ link' = link + 1 /\ UNCHANGED <<written, heard>>
      BY <1>3 DEF Reconnect
    <2>2. /\ \A k \in 1 .. Len(written) : written[k].link # link'
          /\ \A i \in 1 .. Len(heard) :
               /\ heard[i].at \in 1 .. read'
               /\ heard[i].link <= link' /\ heard[i].link # link'
      <3>1. \A k \in 1 .. Len(written) : written[k].link <= link
        BY DEF WrittenInv, WellFormed
      <3>2. \A n \in Nat : n <= link => n <= link' /\ n # link'
        BY <1>0, <2>1
      <3>3. \A k \in 1..read : k \in 1 .. read'
        BY <1>0, <2>1
      <3> QED
        BY <1>0, <1>1, <3>1, <3>2, <3>3, Zenon
    <2>3. \A k \in 1 .. read' : k \in 1 .. Len(written)
      BY <2>1
    <2> QED
      BY <1>0, <1>1, <2>1, <2>2, <2>3, Zenon DEF HeardInv, InOrder
  <1>4. CASE ~ ReadLine /\ ~ Reconnect
    <2>1. /\ read' = read /\ link' = link /\ heard' = heard
          /\ \A k \in 1..read : written'[k] = written[k]
      BY <1>4, ReadStays DEF Next, ClientStep, ReadStep
    <2>2. PlainSoFar' => PlainSoFar
      BY <2>1, Zenon DEF PlainSoFar, Closes
    <2>3. ASSUME PlainSoFar'
          PROVE  /\ \A i \in 1 .. Len(heard) : heard[i].link = link =>
                       heard[i].is = "event" /\ heard[i] = written'[heard[i].at]
                 /\ \A k \in 1..read : written'[k].link = link /\ written'[k].is = "event"
                       => \E i \in 1 .. Len(heard) : heard[i] = written'[k]
      BY <1>1, <2>1, <2>2, <2>3, Zenon
    <2> QED
      BY <1>0, <1>1, <2>1, <2>3, Zenon DEF HeardInv, InOrder
  <1> QED
    BY <1>2, <1>3, <1>4
-----------------------------------------------------------------------------
\* What all of the above rest on, of every state.
Inv == WrittenInv /\ ReaderInv /\ SettledInv /\ AskedInv /\ HeardInv

\* What tmux wrote, what the driver gathered of it and whom it is for hold
\* together in every state.
THEOREM InvIsKept ==
    Spec => []Inv
  <1>1. Init => Inv
    <2> SUFFICES ASSUME Init
                 PROVE  Inv
      OBVIOUS
    <2>1. /\ tmux = Attached /\ written = <<>> /\ read = 0 /\ codec = Fresh
          /\ replies = <<>> /\ call = "greeting" /\ heard = <<>>
      BY DEF Init
    <2>2. Len(<<>>) = 0 /\ DOMAIN <<>> = {} /\ 1..0 = {} /\ 0 + 1 .. 0 = {}
      OBVIOUS
    <2>3. WrittenInv
      BY <2>1, <2>2 DEF WrittenInv, WellFormed, BlocksEnd, OneBlock, Unanswered,
                        Ungreeted, Attached
    <2>4. ReaderInv
      <3>1. ~ WithinBlock /\ WithinBlock \in BOOLEAN
        BY <2>1 DEF WithinBlock
      <3>2. ~ codec.open /\ codec.open \in BOOLEAN /\ codec.lines = <<>>
        BY <2>1 DEF Fresh
      <3> QED
        BY <3>1, <3>2 DEF ReaderInv
    <2>5. SettledInv
      BY <2>1, <2>2 DEF SettledInv, Range
    <2>6. AskedInv
      BY <2>1, <2>2 DEF AskedInv, Attached
    <2>7. HeardInv
      BY <2>1, <2>2 DEF HeardInv, InOrder
    <2> QED
      BY <2>3, <2>4, <2>5, <2>6, <2>7 DEF Inv
  <1>2. TypeInv /\ TypeInv' /\ Inv /\ [Next]_vars => Inv'
    <2> SUFFICES ASSUME TypeInv, TypeInv', Inv, [Next]_vars
                 PROVE  Inv'
      OBVIOUS
    <2>1. WrittenInv /\ ReaderInv /\ SettledInv /\ AskedInv /\ HeardInv
      BY DEF Inv
    <2>2. WrittenInv'
      BY <2>1, WrittenIsKept
    <2>3. ReaderInv'
      BY <2>1, ReaderIsKept
    <2>4. SettledInv'
      BY <2>1, SettledIsKept
    <2>5. AskedInv'
      BY <2>1, AskedIsKept
    <2>6. HeardInv'
      BY <2>1, HeardIsKept
    <2> QED
      BY <2>2, <2>3, <2>4, <2>5, <2>6 DEF Inv
  <1> QED
    BY <1>1, <1>2, TypesAreKept, PTL DEF Spec

\* The sinks are given what tmux notified: all of what was read, in order,
\* once, and nothing that is a command's output, however it looks.
THEOREM HeardIsRight ==
    Spec => []HeardRightly
  <1>1. TypeInv /\ Inv => HeardRightly
    <2> SUFFICES ASSUME TypeInv, Inv
                 PROVE  HeardRightly
      OBVIOUS
    <2>1. HeardInv
      BY DEF Inv
    <2>2. /\ read \in Nat /\ Len(written) \in Nat /\ read <= Len(written)
          /\ DOMAIN written = 1 .. Len(written)
          /\ \A k \in 1 .. Len(written) : written[k].at = k
      BY WrittenTypes
    <2>3. InOrder(heard)
      BY <2>1 DEF HeardInv
    <2>4. ASSUME Plain(link)
          PROVE  {line \in Range(heard) : line.link = link}
                 = {line \in Lines :
                       line.is = "event" /\ line.link = link /\ line.at <= read}
      <3>1. PlainSoFar
        <4>1. \A k \in 1..read : k \in DOMAIN written
          BY <2>2
        <4> QED
          BY <2>4, <4>1 DEF Plain, PlainSoFar, Lines, Range
      <3>2. ASSUME NEW line \in Range(heard), line.link = link
            PROVE  line \in Lines /\ line.is = "event" /\ line.at <= read
        <4>1. PICK i \in DOMAIN heard : line = heard[i]
          BY DEF Range
        <4>2. line.at \in 1..read /\ line.is = "event" /\ line = written[line.at]
          BY <2>1, <3>1, <3>2, <4>1 DEF HeardInv
        <4>3. line.at \in DOMAIN written /\ line.at <= read
          BY <2>2, <4>2
        <4> QED
          BY <4>2, <4>3, Zenon DEF Lines, Range
      <3>3. ASSUME NEW line \in Lines, line.is = "event", line.link = link,
                   line.at <= read
            PROVE  line \in Range(heard)
        <4>1. PICK k \in DOMAIN written : line = written[k]
          BY DEF Lines, Range
        <4>2. k \in 1..read
          BY <2>2, <3>3, <4>1
        <4>3. PICK i \in DOMAIN heard : heard[i] = line
          BY <2>1, <3>1, <3>3, <4>1, <4>2 DEF HeardInv
        <4> QED
          BY <4>3 DEF Range
      <3> QED
        BY <3>2, <3>3
    <2> QED
      BY <2>3, <2>4 DEF HeardRightly
  <1> QED
    BY <1>1, TypesAreKept, InvIsKept, PTL

\* A command is answered by its own block, read since the call began, outcome
\* and lines, whatever died, broke or was notified before it.
THEOREM RepliesAreOwn ==
    Spec => OwnReply
  <1>1. TypeInv /\ Inv /\ [Next]_vars =>
          [\A n \in Commands :
             results[n] # results'[n] /\ results'[n].is = "reply" =>
                results'[n].at > since /\ IsOwn(n)']_vars
    <2> SUFFICES ASSUME TypeInv, Inv, Next,
                        NEW n \in Commands, results[n] # results'[n],
                        results'[n].is = "reply"
                 PROVE  results'[n].at > since /\ IsOwn(n)'
      OBVIOUS
    <2>1. CASE TakeReply /\ call = "executing"
      <3>1. /\ replies # <<>> /\ ~ (call = "greeting")
            /\ results' = [results EXCEPT ![command] = Head(replies)]
            /\ UNCHANGED <<written, state, command, link>>
        BY <2>1 DEF TakeReply
      <3>2. /\ replies \in Seq(Reply) /\ state = "ready" /\ command # 0
            /\ results \in [Commands -> Reply \cup {Pending, Failed}]
        BY <2>1 DEF TypeInv
      <3>3. n = command /\ results'[n] = Head(replies)
        BY <3>1, <3>2
      <3>4. Head(replies) \in Range(replies) /\ Head(replies) = replies[1]
        <4>1. Head(replies) \in Reply
          BY <3>1, <3>2, HeadTailProperties
        <4> QED
          BY <3>1, <3>2, <4>1, RangeFacts
      <3> PICK reply \in Range(replies) : reply = Head(replies)
        BY <3>4
      <3>5. /\ reply.at > since /\ written[reply.at].link = link
            /\ PlainSoFar => IsWhole(reply)
        BY DEF Inv, SettledInv
      <3>6. ASSUME Plain(link)
            PROVE  PlainSoFar
        <4>1. \A k \in 1..read : k \in DOMAIN written
          BY WrittenTypes
        <4> QED
          BY <3>6, <4>1 DEF Plain, PlainSoFar, Lines, Range
      <3>7. ASSUME PlainSoFar
            PROVE  written[reply.at].of = command
        <4>1. state \notin Reasons
          BY <3>2 DEF Reasons
        <4>2. written[replies[1].at].of = Asked
          BY <3>1, <3>7, <4>1 DEF Inv, AskedInv
        <4> QED
          BY <2>1, <3>4, <4>2 DEF Asked
      <3>8. Plain(link) =>
              /\ written[reply.at].is = "frame" /\ written[reply.at].of = n
              /\ reply.how = written[reply.at].looks
              /\ IF written[reply.at].looks = "broken" THEN reply.lines = <<>>
                 ELSE AreOutputOf(reply.lines, n)
        BY <3>2, <3>3, <3>5, <3>6, <3>7 DEF IsWhole, End
      <3>9. Lines' = Lines /\ results'[n] = reply /\ written' = written
        BY <3>1, <3>3 DEF Lines
      <3>10. IsOwn(n)'
        BY <3>5, <3>8, <3>9, Zenon DEF IsOwn, Plain, AreOutputOf, InOrder, Closes
      <3> QED
        BY <3>5, <3>9, <3>10
    <2>2. CASE ~ (TakeReply /\ call = "executing")
      <3>1. \/ results' = results
            \/ results' = [results EXCEPT ![command] = Failed]
            \/ results' = [results EXCEPT ![command + 1] = Failed]
        <4>1. CASE TmuxStep
          BY <4>1 DEF TmuxStep, Greets, Answers, Notifies, Write, Exits
        <4>2. CASE TakeReply
          BY <2>2, <4>2 DEF TakeReply, Calling
        <4>3. CASE ClientStep /\ ~ TakeReply
          BY <4>3 DEF ClientStep, ReadStep, ReadLine, ReadPart, ReadEof, ReadFails,
                      ReadEnds, Sends, SendFails, FindsStray, DetachFails, Close,
                      Reconnect
        <4> QED
          BY <4>1, <4>2, <4>3 DEF Next
      <3>2. results \in [Commands -> Reply \cup {Pending, Failed}]
        BY DEF TypeInv
      <3>3. results'[n] = Failed
        BY <3>1, <3>2
      <3> QED
        BY <3>3 DEF Failed
    <2> QED
      BY <2>1, <2>2
  <1> QED
    BY <1>1, TypesAreKept, InvIsKept, PTL DEF Spec, OwnReply
=============================================================================
