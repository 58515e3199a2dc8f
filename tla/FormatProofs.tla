----------------------------- MODULE FormatProofs -----------------------------
(***************************************************************************)
(* What is written to a generation file is read back: for every snapshot,  *)
(* field by field, through the readers of sequences, options and records;  *)
(* and of a file that was damaged, the same body or nothing.               *)
(***************************************************************************)
EXTENDS FileFormat, FiniteSetTheorems, SequenceTheorems, WellFoundedInduction, TLAPS

LEMMA LeastElement ==
    ASSUME NEW S \in SUBSET Nat, S # {}
    PROVE  \E m \in S : \A n \in S : m <= n
  <1> DEFINE R == OpToRel(<, Nat)
  <1>1. IsWellFoundedOn(R, Nat)
    BY NatLessThanWellFounded
  <1>2. \A m, n \in Nat : <<n, m>> \in R <=> n < m
    BY DEF OpToRel
  <1> HIDE DEF R
  <1>3. PICK m \in S : \A n \in S : ~ <<n, m>> \in R
    BY <1>1, WFMin
  <1>4. ASSUME NEW n \in S
        PROVE  m <= n
    <2>1. m \in Nat /\ n \in Nat /\ ~ n < m
      BY <1>2, <1>3
    <2> QED
      BY <2>1
  <1> QED
    BY <1>4

\* Induction: a set with 0 and the successors of its members is all of Nat.
LEMMA Induction ==
    ASSUME NEW S \in SUBSET Nat, 0 \in S, \A n \in S : n + 1 \in S
    PROVE  S = Nat
  <1> SUFFICES ASSUME Nat \ S # {}
               PROVE  FALSE
    OBVIOUS
  <1> DEFINE T == Nat \ S
  <1>1. T \in SUBSET Nat /\ T # {}
    OBVIOUS
  <1> HIDE DEF T
  <1>2. PICK m \in T : \A n \in T : m <= n
    BY <1>1, LeastElement
  <1>3. m \in Nat /\ m # 0
    BY <1>1, <1>2 DEF T
  <1>4. m - 1 \in S
    BY <1>2, <1>3 DEF T
  <1> QED
    BY <1>2, <1>3, <1>4 DEF T

Flattens(f, n, seqs) ==
    f = [i \in 1..n |-> IF i = 1 THEN seqs[i] ELSE f[i - 1] \o seqs[i]]

LEMMA FlattenIsDefined ==
    ASSUME NEW n \in Nat, NEW seqs
    PROVE  \E f : Flattens(f, n, seqs)
  <1> DEFINE S == {k \in Nat : \E f : Flattens(f, k, seqs)}
  <1>1. S \in SUBSET Nat
    OBVIOUS
  <1>2. 0 \in S
    <2> DEFINE f == [i \in 1..0 |-> 0]
    <2>1. Flattens(f, 0, seqs)
      BY DEF Flattens
    <2> QED
      BY <2>1
  <1>3. ASSUME NEW k \in S
        PROVE  k + 1 \in S
    <2>1. PICK f : Flattens(f, k, seqs)
      OBVIOUS
    <2> DEFINE g == [i \in 1 .. k + 1 |->
                        IF i = 1 THEN seqs[i]
                        ELSE f[i - 1] \o seqs[i]]
    <2>2. k \in Nat
      OBVIOUS
    <2>3. \A i \in 1..k : f[i] = IF i = 1 THEN seqs[i] ELSE f[i - 1] \o seqs[i]
      BY <2>1 DEF Flattens
    <2>4. \A i \in 1..k : g[i] = f[i]
      BY <2>2, <2>3
    <2>5. \A i \in 1 .. k + 1 : i # 1 => i - 1 \in 1..k
      BY <2>2
    <2>6. g = [i \in 1 .. k + 1 |-> IF i = 1 THEN seqs[i] ELSE g[i - 1] \o seqs[i]]
      BY <2>4, <2>5
    <2> HIDE DEF g
    <2>7. Flattens(g, k + 1, seqs)
      BY <2>6 DEF Flattens
    <2> QED
      BY <2>2, <2>7
  <1> HIDE DEF S
  <1>4. S = Nat
    BY <1>1, <1>2, <1>3, Induction
  <1> QED
    BY <1>4 DEF S

-----------------------------------------------------------------------------
(***************************************************************************)
(* Sequences of fields, whatever is in them.                               *)
(***************************************************************************)
IsFields(s) == \E T : s \in Seq(T)

LEMMA FieldsAreSeq ==
    ASSUME NEW s, IsFields(s)
    PROVE  Len(s) \in Nat /\ DOMAIN s = 1 .. Len(s) /\ s = [i \in 1 .. Len(s) |-> s[i]]
  BY DEF IsFields

LEMMA ManyAreFields ==
    ASSUME NEW s, NEW t, IsFields(s), IsFields(t)
    PROVE  \E T : s \in Seq(T) /\ t \in Seq(T)
  <1>1. PICK S : s \in Seq(S)
    BY DEF IsFields
  <1>2. PICK T : t \in Seq(T)
    BY DEF IsFields
  <1>3. s \in Seq(S \cup T) /\ t \in Seq(S \cup T)
    BY <1>1, <1>2, SeqMonotonic
  <1> QED
    BY <1>3

LEMMA JoinedFields ==
    ASSUME NEW s, NEW t, IsFields(s), IsFields(t)
    PROVE  /\ IsFields(s \o t) /\ Len(s \o t) = Len(s) + Len(t)
           /\ \A i \in 1 .. Len(s) : (s \o t)[i] = s[i]
           /\ \A i \in 1 .. Len(t) : (s \o t)[Len(s) + i] = t[i]
  <1>1. PICK T : s \in Seq(T) /\ t \in Seq(T)
    BY ManyAreFields
  <1>2. s \o t \in Seq(T)
    BY <1>1
  <1>3. IsFields(s \o t)
    BY <1>2 DEF IsFields
  <1> QED
    BY <1>1, <1>3

LEMMA JoinedThrice ==
    ASSUME NEW s, NEW t, NEW u, IsFields(s), IsFields(t), IsFields(u)
    PROVE  (s \o t) \o u = s \o (t \o u)
  <1>1. PICK S : s \in Seq(S) /\ t \in Seq(S)
    BY ManyAreFields
  <1>2. PICK T : u \in Seq(T)
    BY DEF IsFields
  <1>3. s \in Seq(S \cup T) /\ t \in Seq(S \cup T) /\ u \in Seq(S \cup T)
    BY <1>1, <1>2, SeqMonotonic
  <1> QED
    BY <1>3, ConcatAssociative

\* A longer file, read from its beginning.
RegroupsThree(a, b, rest) == (a \o b) \o rest = a \o (b \o rest)

LEMMA JoinedThree ==
    ASSUME NEW a, NEW b, NEW rest, IsFields(a), IsFields(b), IsFields(rest)
    PROVE  RegroupsThree(a, b, rest)
  BY JoinedThrice DEF RegroupsThree

RegroupsFour(a, b, c, rest) == ((a \o b) \o c) \o rest = a \o (b \o (c \o rest))

RegroupsSix(a, b, c, d, e, rest) ==
    ((((a \o b) \o c) \o d) \o e) \o rest = a \o (b \o (c \o (d \o (e \o rest))))

RegroupsEight(a, b, c, d, e, f, g, rest) ==
    ((((((a \o b) \o c) \o d) \o e) \o f) \o g) \o rest
        = a \o (b \o (c \o (d \o (e \o (f \o (g \o rest))))))

LEMMA JoinedFour ==
    ASSUME NEW a, NEW b, NEW c, NEW rest,
           IsFields(a), IsFields(b), IsFields(c), IsFields(rest)
    PROVE  RegroupsFour(a, b, c, rest)
  <1> DEFINE ab == a \o b
             more == c \o rest
  <1>1. IsFields(ab) /\ IsFields(more)
    BY JoinedFields
  <1> HIDE DEF ab, more
  <1>2. RegroupsThree(a, b, more)
    BY <1>1, JoinedThree
  <1>3. RegroupsThree(ab, c, rest)
    BY <1>1, JoinedThree
  <1> QED
    BY <1>2, <1>3 DEF ab, more, RegroupsThree, RegroupsFour

LEMMA JoinedSix ==
    ASSUME NEW a, NEW b, NEW c, NEW d, NEW e, NEW rest,
           IsFields(a), IsFields(b), IsFields(c), IsFields(d), IsFields(e), IsFields(rest)
    PROVE  RegroupsSix(a, b, c, d, e, rest)
  <1> DEFINE ab == a \o b
             abc == ab \o c
             er == e \o rest
             more == d \o er
  <1>1. IsFields(ab) /\ IsFields(er)
    BY JoinedFields
  <1>2. IsFields(abc) /\ IsFields(more)
    <2> HIDE DEF ab, er
    <2> QED
      BY <1>1, JoinedFields
  <1>3. RegroupsFour(a, b, c, more)
    <2> HIDE DEF more
    <2> QED
      BY <1>2, JoinedFour
  <1>4. RegroupsFour(abc, d, e, rest)
    <2> HIDE DEF abc
    <2> QED
      BY <1>2, JoinedFour
  <1>5. abc \o more = a \o (b \o (c \o more))
    <2> HIDE DEF more
    <2> QED
      BY <1>3 DEF RegroupsFour
  <1>6. ((abc \o d) \o e) \o rest = abc \o more
    <2> HIDE DEF abc
    <2> QED
      BY <1>4 DEF RegroupsFour
  <1> QED
    BY <1>5, <1>6 DEF RegroupsSix

LEMMA JoinedEight ==
    ASSUME NEW a, NEW b, NEW c, NEW d, NEW e, NEW f, NEW g, NEW rest,
           IsFields(a), IsFields(b), IsFields(c), IsFields(d), IsFields(e), IsFields(f),
           IsFields(g), IsFields(rest)
    PROVE  RegroupsEight(a, b, c, d, e, f, g, rest)
  <1> DEFINE ab == a \o b
             abc == ab \o c
             abcd == abc \o d
             abcde == abcd \o e
             gr == g \o rest
             more == f \o gr
  <1>1. IsFields(ab) /\ IsFields(gr)
    BY JoinedFields
  <1>2. IsFields(abc) /\ IsFields(more)
    <2> HIDE DEF ab, gr
    <2> QED
      BY <1>1, JoinedFields
  <1>3. IsFields(abcd)
    <2> HIDE DEF abc
    <2> QED
      BY <1>2, JoinedFields
  <1>4. IsFields(abcde)
    <2> HIDE DEF abcd
    <2> QED
      BY <1>3, JoinedFields
  <1>5. RegroupsSix(a, b, c, d, e, more)
    <2> HIDE DEF more
    <2> QED
      BY <1>2, JoinedSix
  <1>6. RegroupsFour(abcde, f, g, rest)
    <2> HIDE DEF abcde
    <2> QED
      BY <1>4, JoinedFour
  <1>7. abcde \o more = a \o (b \o (c \o (d \o (e \o more))))
    <2> HIDE DEF more
    <2> QED
      BY <1>5 DEF RegroupsSix
  <1>8. ((abcde \o f) \o g) \o rest = abcde \o more
    <2> HIDE DEF abcde
    <2> QED
      BY <1>6 DEF RegroupsFour
  <1> QED
    BY <1>7, <1>8 DEF RegroupsEight

LEMMA JoinedWithNone ==
    ASSUME NEW s, IsFields(s)
    PROVE  IsFields(<<>>) /\ s \o <<>> = s /\ <<>> \o s = s
  <1>1. PICK T : s \in Seq(T)
    BY DEF IsFields
  <1>2. <<>> \in Seq(T)
    OBVIOUS
  <1> QED
    BY <1>1, <1>2, ConcatEmptySeq DEF IsFields

LEMMA OneField ==
    ASSUME NEW field
    PROVE  IsFields(<<field>>)
  <1>1. <<field>> \in Seq({field})
    OBVIOUS
  <1> QED
    BY <1>1 DEF IsFields

\* A file begins with a field: that, and the rest.
LEMMA FirstField ==
    ASSUME NEW field, NEW rest, IsFields(rest)
    PROVE  /\ IsFields(<<field>>) /\ IsFields(<<field>> \o rest)
           /\ <<field>> \o rest # <<>>
           /\ Head(<<field>> \o rest) = field /\ Tail(<<field>> \o rest) = rest
  <1>1. PICK S : rest \in Seq(S)
    BY DEF IsFields
  <1> DEFINE T == S \cup {field}
             all == <<field>> \o rest
  <1>2. <<field>> \in Seq(T) /\ rest \in Seq(T)
    BY <1>1, SeqMonotonic
  <1> HIDE DEF T
  <1>3. /\ all \in Seq(T) /\ Len(all) = 1 + Len(rest) /\ Len(rest) \in Nat
        /\ all[1] = field
        /\ \A i \in 1 .. Len(rest) : all[i + 1] = rest[i]
    BY <1>2
  <1>4. all # <<>> /\ Head(all) = field
    BY <1>3
  <1>5. Tail(all) \in Seq(T) /\ Len(Tail(all)) = Len(rest)
        /\ \A i \in 1 .. Len(rest) : Tail(all)[i] = rest[i]
    BY <1>3, <1>4
  <1>6. Tail(all) = rest
    BY <1>2, <1>5
  <1> QED
    BY <1>2, <1>3, <1>4, <1>6 DEF IsFields

-----------------------------------------------------------------------------
(***************************************************************************)
(* A reader that runs, with these fields left.                             *)
(***************************************************************************)
State(value, got, left) ==
    [value |-> value, got |-> got, left |-> left, error |-> "none"]

IsAt(r, left) ==
    /\ \E value, got : r = State(value, got, left)
    /\ IsFields(left)

\* It has read this, and what is left begins there.
HasRead(r, value, left) == IsAt(r, left) /\ r.value = value

\* It has read this, or it stopped, which it does not unless something is amiss.
Reads(r, value, left, isWhole) ==
    \/ HasRead(r, value, left)
    \/ ~ isWhole /\ ~ Runs(r)

Fresh(r) == [r EXCEPT !.got = <<>>]

LEMMA FieldIsTaken ==
    ASSUME NEW r, NEW as, NEW x, NEW rest, IsFields(rest),
           IsAt(r, <<[as |-> as, is |-> x]>> \o rest)
    PROVE  HasRead(Take(r, as), x, rest) /\ Take(r, as).got = r.got
  <1> DEFINE field == [as |-> as, is |-> x]
             left == <<field>> \o rest
  <1>1. left # <<>> /\ Head(left) = field /\ Tail(left) = rest
    BY FirstField
  <1>2. PICK value, got : r = State(value, got, left)
    BY DEF IsAt
  <1>3. field.as = as /\ field.is = x
    OBVIOUS
  <1> HIDE DEF left, field
  <1>4. Runs(r) /\ r.left = left /\ r.got = got
    BY <1>2 DEF State, Runs
  <1>5. Take(r, as) = [r EXCEPT !.value = x, !.left = rest]
    BY <1>1, <1>3, <1>4 DEF Take
  <1>6. Take(r, as) = State(x, got, rest)
    BY <1>2, <1>5 DEF State
  <1>7. State(x, got, rest).value = x /\ State(x, got, rest).got = got
    BY DEF State
  <1> QED
    BY <1>4, <1>6, <1>7 DEF HasRead, IsAt

LEMMA FreshIsAt ==
    ASSUME NEW r, NEW left, IsAt(r, left)
    PROVE  IsAt(Fresh(r), left) /\ Fresh(r).got = <<>>
  <1>1. PICK value, got : r = State(value, got, left)
    BY DEF IsAt
  <1>2. Fresh(r) = State(value, <<>>, left)
    BY <1>1 DEF Fresh, State
  <1>3. State(value, <<>>, left).got = <<>>
    BY DEF State
  <1> QED
    BY <1>2, <1>3 DEF IsAt

\* One item more: it is kept beside the others.
LEMMA ItemIsGot ==
    ASSUME NEW before, NEW item, NEW x, NEW left, HasRead(item, x, left)
    PROVE  IsAt(Got(before, item), left) /\ Got(before, item).got = Append(before.got, x)
  <1>1. PICK value, got : item = State(value, got, left)
    BY DEF HasRead, IsAt
  <1>2. Runs(item) /\ item.value = x /\ IsFields(left)
    BY <1>1 DEF State, Runs, HasRead, IsAt
  <1>3. Got(before, item) = [item EXCEPT !.got = Append(before.got, x)]
    BY <1>2 DEF Got
  <1>4. Got(before, item) = State(value, Append(before.got, x), left)
    BY <1>1, <1>3 DEF State
  <1>5. State(value, Append(before.got, x), left).got = Append(before.got, x)
    BY DEF State
  <1> QED
    BY <1>2, <1>4, <1>5 DEF IsAt

\* A reader that has stopped stays stopped.
LEMMA StoppedIsStopped ==
    ASSUME NEW r, ~ Runs(r), NEW as, NEW before
    PROVE  /\ Take(r, as) = r /\ ~ Runs(Fresh(r)) /\ Got(before, r) = r
           /\ \A value : Yield(r, value) = r
           /\ \A holds, error : StopUnless(holds, r, error) = r
  BY DEF Take, Runs, Fresh, Got, Yield, StopUnless
-----------------------------------------------------------------------------
(***************************************************************************)
(* What the readers of items are made of.                                  *)
(***************************************************************************)
\* The place of a field among those named.
PlaceOf(fields, f) == SelectInSeq(fields, LAMBDA g : g = f)

LEMMA FieldIsFound ==
    ASSUME NEW n \in Nat, NEW T, NEW fields \in [1..n -> T],
           \A i, j \in 1..n : fields[i] = fields[j] => i = j,
           NEW i \in 1..n
    PROVE  PlaceOf(fields, fields[i]) = i
  <1> DEFINE I == {j \in 1 .. Len(fields) : fields[j] = fields[i]}
  <1>1. fields \in Seq(T) /\ Len(fields) = n
    OBVIOUS
  <1>2. I = {i}
    BY <1>1
  <1>3. Min({i}) = i
    <2>1. \E m \in {i} : \A k \in {i} : m <= k
      OBVIOUS
    <2> QED
      BY <2>1 DEF Min
  <1>4. PlaceOf(fields, fields[i]) = IF I # {} THEN Min(I) ELSE 0
    BY DEF PlaceOf, SelectInSeq
  <1> QED
    BY <1>2, <1>3, <1>4

\* What has been got, as the record it was written from.
LEMMA RecordIsMade ==
    ASSUME NEW n \in Nat, NEW T, NEW fields \in [1..n -> T],
           \A i, j \in 1..n : fields[i] = fields[j] => i = j,
           NEW r, NEW left, IsAt(r, left), NEW record,
           record = [f \in ToSet(fields) |-> record[f]],
           \A i \in 1..n : record[fields[i]] = r.got[i]
    PROVE  HasRead(AsRecord(r, fields), record, left)
  <1> DEFINE made == [f \in ToSet(fields) |-> r.got[PlaceOf(fields, f)]]
  <1>1. PICK value, got : r = State(value, got, left)
    BY DEF IsAt
  <1>2. Runs(r)
    BY <1>1 DEF State, Runs
  <1>3. AsRecord(r, fields) = [r EXCEPT !.value = made]
    BY <1>2 DEF AsRecord, Yield, PlaceOf
  <1>4. ToSet(fields) = {fields[i] : i \in 1..n}
    BY DEF ToSet
  <1>5. ASSUME NEW f \in ToSet(fields)
        PROVE  made[f] = record[f]
    <2>1. PICK i \in 1..n : f = fields[i]
      BY <1>4
    <2>2. PlaceOf(fields, fields[i]) = i
      BY FieldIsFound
    <2>3. made[f] = r.got[PlaceOf(fields, fields[i])]
      BY <2>1
    <2> QED
      BY <2>1, <2>2, <2>3
  <1>6. made = [f \in ToSet(fields) |-> record[f]]
    BY <1>5
  <1>7. made = record
    BY <1>6
  <1> HIDE DEF made
  <1>8. AsRecord(r, fields) = State(record, got, left)
    BY <1>1, <1>3, <1>7 DEF State
  <1>9. State(record, got, left).value = record
    BY DEF State
  <1> QED
    BY <1>8, <1>9 DEF HasRead, IsAt

LEMMA SeqIsMade ==
    ASSUME NEW r, NEW left, IsAt(r, left)
    PROVE  HasRead(AsSeq(r), r.got, left)
  <1>1. PICK value, got : r = State(value, got, left)
    BY DEF IsAt
  <1>2. Runs(r) /\ r.got = got
    BY <1>1 DEF State, Runs
  <1>3. AsSeq(r) = State(got, got, left)
    BY <1>1, <1>2 DEF AsSeq, Yield, State
  <1>4. State(got, got, left).value = got
    BY DEF State
  <1> QED
    BY <1>2, <1>3, <1>4 DEF HasRead, IsAt

LEMMA ValueIsYielded ==
    ASSUME NEW r, NEW left, IsAt(r, left), NEW x
    PROVE  HasRead(Yield(r, x), x, left) /\ Yield(r, x).got = r.got
  <1>1. PICK value, got : r = State(value, got, left)
    BY DEF IsAt
  <1>2. Runs(r) /\ r.got = got
    BY <1>1 DEF State, Runs
  <1>3. Yield(r, x) = State(x, got, left)
    BY <1>1, <1>2 DEF Yield, State
  <1>4. State(x, got, left).value = x /\ State(x, got, left).got = got
    BY DEF State
  <1> QED
    BY <1>2, <1>3, <1>4 DEF HasRead, IsAt

LEMMA StillRuns ==
    ASSUME NEW r, NEW left, IsAt(r, left)
    PROVE  Runs(r) /\ r.left = left /\ \A error : StopUnless(TRUE, r, error) = r
  BY DEF IsAt, State, Runs, StopUnless

\* A field more, as one operator each.
AfterU32(r) == Then(r, TakeU32)
AfterI64(r) == Then(r, TakeI64)
AfterU64(r) == Then(r, TakeU64)
AfterSum(r) == Then(r, TakeSum)
AfterName(r) == Then(r, TakeName)

LEMMA NextU32 ==
    ASSUME NEW r, NEW x, NEW rest, IsFields(rest), IsAt(r, U32(x) \o rest)
    PROVE  IsAt(AfterU32(r), rest) /\ AfterU32(r).got = Append(r.got, x)
  <1>1. IsAt(Fresh(r), <<[as |-> "u32", is |-> x]>> \o rest)
    BY FreshIsAt DEF U32
  <1>2. HasRead(Take(Fresh(r), "u32"), x, rest)
    BY <1>1, FieldIsTaken
  <1>3. AfterU32(r) = Got(r, Take(Fresh(r), "u32"))
    BY DEF AfterU32, Then, TakeU32, Fresh
  <1> QED
    BY <1>2, <1>3, ItemIsGot

LEMMA NextI64 ==
    ASSUME NEW r, NEW x, NEW rest, IsFields(rest), IsAt(r, I64(x) \o rest)
    PROVE  IsAt(AfterI64(r), rest) /\ AfterI64(r).got = Append(r.got, x)
  <1>1. IsAt(Fresh(r), <<[as |-> "i64", is |-> x]>> \o rest)
    BY FreshIsAt DEF I64
  <1>2. HasRead(Take(Fresh(r), "i64"), x, rest)
    BY <1>1, FieldIsTaken
  <1>3. AfterI64(r) = Got(r, Take(Fresh(r), "i64"))
    BY DEF AfterI64, Then, TakeI64, Fresh
  <1> QED
    BY <1>2, <1>3, ItemIsGot

LEMMA NextU64 ==
    ASSUME NEW r, NEW x, NEW rest, IsFields(rest), IsAt(r, U64(x) \o rest)
    PROVE  IsAt(AfterU64(r), rest) /\ AfterU64(r).got = Append(r.got, x)
  <1>1. IsAt(Fresh(r), <<[as |-> "u64", is |-> x]>> \o rest)
    BY FreshIsAt DEF U64
  <1>2. HasRead(Take(Fresh(r), "u64"), x, rest)
    BY <1>1, FieldIsTaken
  <1>3. AfterU64(r) = Got(r, Take(Fresh(r), "u64"))
    BY DEF AfterU64, Then, TakeU64, Fresh
  <1> QED
    BY <1>2, <1>3, ItemIsGot

LEMMA NextSum ==
    ASSUME NEW r, NEW x, NEW rest, IsFields(rest), IsAt(r, Sum(x) \o rest)
    PROVE  IsAt(AfterSum(r), rest) /\ AfterSum(r).got = Append(r.got, x)
  <1>1. IsAt(Fresh(r), <<[as |-> "sum", is |-> x]>> \o rest)
    BY FreshIsAt DEF Sum
  <1>2. HasRead(Take(Fresh(r), "sum"), x, rest)
    BY <1>1, FieldIsTaken
  <1>3. AfterSum(r) = Got(r, Take(Fresh(r), "sum"))
    BY DEF AfterSum, Then, TakeSum, Fresh
  <1> QED
    BY <1>2, <1>3, ItemIsGot

LEMMA NameIsTaken ==
    ASSUME NEW r, NEW x, x # 0, NEW rest, IsFields(rest), IsAt(r, Str(x) \o rest)
    PROVE  HasRead(TakeName(r), x, rest)
  <1>1. HasRead(Take(r, "str"), x, rest)
    BY FieldIsTaken DEF Str
  <1>2. TakeName(r) = Take(r, "str")
    BY <1>1 DEF TakeName, TakeStr, NotEmpty, StopUnless, HasRead
  <1> QED
    BY <1>1, <1>2

LEMMA NextName ==
    ASSUME NEW r, NEW x, x # 0, NEW rest, IsFields(rest), IsAt(r, Str(x) \o rest)
    PROVE  IsAt(AfterName(r), rest) /\ AfterName(r).got = Append(r.got, x)
  <1>1. HasRead(TakeName(Fresh(r)), x, rest)
    BY FreshIsAt, NameIsTaken
  <1>2. AfterName(r) = Got(r, TakeName(Fresh(r)))
    BY DEF AfterName, Then, Fresh
  <1> QED
    BY <1>1, <1>2, ItemIsGot

LEMMA NothingAfterStopped ==
    ASSUME NEW r, ~ Runs(r)
    PROVE  /\ AfterU32(r) = Fresh(r) /\ AfterI64(r) = Fresh(r) /\ AfterU64(r) = Fresh(r)
           /\ AfterSum(r) = Fresh(r) /\ AfterName(r) = Fresh(r)
           /\ ~ Runs(Fresh(r))
  <1>1. ~ Runs(Fresh(r))
    BY StoppedIsStopped
  <1>2. \A as : Take(Fresh(r), as) = Fresh(r) /\ Got(r, Fresh(r)) = Fresh(r)
    BY <1>1, StoppedIsStopped
  <1>3. NotEmpty(Fresh(r)) = Fresh(r)
    BY <1>1, StoppedIsStopped DEF NotEmpty
  <1>4. AfterU32(r) = Got(r, Take(Fresh(r), "u32"))
    BY DEF AfterU32, Then, TakeU32, Fresh
  <1>5. AfterI64(r) = Got(r, Take(Fresh(r), "i64"))
    BY DEF AfterI64, Then, TakeI64, Fresh
  <1>6. AfterU64(r) = Got(r, Take(Fresh(r), "u64"))
    BY DEF AfterU64, Then, TakeU64, Fresh
  <1>7. AfterSum(r) = Got(r, Take(Fresh(r), "sum"))
    BY DEF AfterSum, Then, TakeSum, Fresh
  <1>8. AfterName(r) = Got(r, NotEmpty(Take(Fresh(r), "str")))
    BY DEF AfterName, Then, TakeName, TakeStr, Fresh
  <1> QED
    BY <1>1, <1>2, <1>3, <1>4, <1>5, <1>6, <1>7, <1>8
-----------------------------------------------------------------------------
(***************************************************************************)
(* One item after another.                                                 *)
(***************************************************************************)
ArePieces(pieces, n) == \A k \in 1..n : IsFields(pieces[k])

\* What the first k pieces come to, for each k.
LEMMA PiecesJoin ==
    ASSUME NEW n \in Nat, NEW pieces, IsFields(pieces), Len(pieces) = n,
           ArePieces(pieces, n)
    PROVE  \E upto : /\ upto[0] = <<>> /\ upto[n] = FlattenSeq(pieces)
                     /\ \A k \in 0..n : IsFields(upto[k])
                     /\ \A k \in 1..n : upto[k] = upto[k - 1] \o pieces[k]
  <1> DEFINE flatten[i \in 1..n] == IF i = 1 THEN pieces[i] ELSE flatten[i - 1] \o pieces[i]
             upto == [k \in 0..n |-> IF k = 0 THEN <<>> ELSE flatten[k]]
  <1>1. FlattenSeq(pieces) = IF n = 0 THEN pieces ELSE flatten[n]
    BY DEF FlattenSeq
  <1>2. flatten = [i \in 1..n |-> IF i = 1 THEN pieces[i] ELSE flatten[i - 1] \o pieces[i]]
    <2>1. \E f : Flattens(f, n, pieces)
      BY FlattenIsDefined
    <2> QED
      BY <2>1 DEF Flattens
  <1>3. n = 0 => pieces = <<>>
    BY DEF IsFields
  <1> HIDE DEF flatten
  <1>4. upto[0] = <<>> /\ upto[n] = FlattenSeq(pieces)
    BY <1>1, <1>3
  <1>5. IsFields(<<>>)
    <2>1. <<>> \in Seq({})
      OBVIOUS
    <2> QED
      BY <2>1 DEF IsFields
  <1>6. ASSUME NEW k \in 1..n
        PROVE  upto[k] = upto[k - 1] \o pieces[k]
    <2>1. CASE k = 1
      <3>1. upto[1] = pieces[1] /\ upto[0] = <<>>
        BY <1>2, <2>1
      <3>2. <<>> \o pieces[1] = pieces[1]
        BY <2>1, JoinedWithNone DEF ArePieces
      <3>3. upto[1] = upto[0] \o pieces[1] /\ 1 - 1 = 0
        BY <3>1, <3>2
      <3> QED
        BY <2>1, <3>3
    <2>2. CASE k # 1
      <3>1. k - 1 \in 1..n /\ k - 1 \in 0..n /\ k - 1 # 0 /\ k \in 0..n /\ k # 0
        BY <2>2
      <3> QED
        BY <1>2, <2>2, <3>1
    <2> QED
      BY <2>1, <2>2
  <1> HIDE DEF upto
  <1> DEFINE S == {k \in Nat : k \in 0..n => IsFields(upto[k])}
  <1>7. S \in SUBSET Nat /\ 0 \in S
    BY <1>4, <1>5
  <1>8. ASSUME NEW k \in S
        PROVE  k + 1 \in S
    <2> SUFFICES ASSUME k + 1 \in 0..n
                 PROVE  IsFields(upto[k + 1])
      OBVIOUS
    <2>1. k \in Nat /\ k \in 0..n /\ k + 1 \in 1..n /\ (k + 1) - 1 = k
      OBVIOUS
    <2>2. upto[k + 1] = upto[k] \o pieces[k + 1]
      BY <1>6, <2>1
    <2>3. IsFields(upto[k]) /\ IsFields(pieces[k + 1])
      BY <2>1 DEF ArePieces
    <2> HIDE DEF S
    <2> QED
      BY <2>2, <2>3, JoinedFields
  <1> HIDE DEF S
  <1>9. S = Nat
    BY <1>7, <1>8, Induction
  <1>10. \A k \in 0..n : IsFields(upto[k])
    BY <1>9 DEF S
  <1> QED
    BY <1>4, <1>6, <1>10

\* What is left behind the first k pieces, for each k.
AreBehind(behind, n, pieces, rest) ==
    /\ behind[0] = FlattenSeq(pieces) \o rest /\ behind[n] = rest
    /\ \A k \in 0..n : IsFields(behind[k])
    /\ \A k \in 1..n : behind[k - 1] = pieces[k] \o behind[k]

LEMMA PiecesAreLeft ==
    ASSUME NEW n \in Nat, NEW pieces, IsFields(pieces), Len(pieces) = n,
           ArePieces(pieces, n), NEW rest, IsFields(rest)
    PROVE  /\ IsFields(FlattenSeq(pieces))
           /\ \E behind : AreBehind(behind, n, pieces, rest)
  <1>1. PICK upto : /\ upto[0] = <<>> /\ upto[n] = FlattenSeq(pieces)
                    /\ \A k \in 0..n : IsFields(upto[k])
                    /\ \A k \in 1..n : upto[k] = upto[k - 1] \o pieces[k]
    BY PiecesJoin
  <1> DEFINE all == FlattenSeq(pieces) \o rest
             IsBehind(k, s) == IsFields(s) /\ all = upto[k] \o s
             behind == [k \in 0..n |-> CHOOSE s : IsBehind(k, s)]
  <1>2. IsFields(FlattenSeq(pieces))
    BY <1>1
  <1>3. IsFields(all) /\ IsBehind(n, rest)
    BY <1>1, <1>2, JoinedFields
  <1>4. ASSUME NEW k \in 0..n, NEW s, NEW t, IsBehind(k, s), IsBehind(k, t)
        PROVE  s = t
    <2>1. PICK S : s \in Seq(S) /\ t \in Seq(S)
      BY <1>4, ManyAreFields
    <2>2. PICK T : upto[k] \in Seq(T)
      BY <1>1 DEF IsFields
    <2>3. upto[k] \in Seq(S \cup T) /\ s \in Seq(S \cup T) /\ t \in Seq(S \cup T)
      BY <2>1, <2>2, SeqMonotonic
    <2> QED
      BY <1>4, <2>3, ConcatSimplifications
  <1>5. ASSUME NEW k \in 1..n, NEW s, IsBehind(k, s)
        PROVE  IsBehind(k - 1, pieces[k] \o s)
    <2>1. k \in 0..n /\ k - 1 \in 0..n
      OBVIOUS
    <2>2. IsFields(upto[k - 1]) /\ IsFields(pieces[k]) /\ IsFields(s)
      BY <1>1, <1>5, <2>1 DEF ArePieces
    <2> HIDE DEF all
    <2>3. (upto[k - 1] \o pieces[k]) \o s = upto[k - 1] \o (pieces[k] \o s)
      <3> DEFINE a == upto[k - 1]
                 b == pieces[k]
      <3>1. IsFields(a) /\ IsFields(b) /\ IsFields(s)
        BY <2>2
      <3> HIDE DEF a, b
      <3>2. (a \o b) \o s = a \o (b \o s)
        BY <3>1, JoinedThrice
      <3> QED
        BY <3>2 DEF a, b
    <2>4. IsFields(pieces[k] \o s)
      BY <2>2, JoinedFields
    <2> QED
      BY <1>1, <1>5, <2>3, <2>4
  <1> DEFINE S == {k \in Nat : k \in 0..n => \E s : IsBehind(n - k, s)}
  <1> HIDE DEF IsBehind
  <1>6. S \in SUBSET Nat /\ 0 \in S
    <2>1. n - 0 = n
      OBVIOUS
    <2> QED
      BY <1>3, <2>1
  <1>7. ASSUME NEW k \in S
        PROVE  k + 1 \in S
    <2> SUFFICES ASSUME k + 1 \in 0..n
                 PROVE  \E s : IsBehind(n - (k + 1), s)
      OBVIOUS
    <2>1. k \in Nat /\ k \in 0..n /\ n - k \in 1..n /\ (n - k) - 1 = n - (k + 1)
      OBVIOUS
    <2>2. PICK s : IsBehind(n - k, s)
      BY <2>1
    <2> HIDE DEF S
    <2>3. IsBehind((n - k) - 1, pieces[n - k] \o s)
      BY <1>5, <2>1, <2>2
    <2> QED
      BY <2>1, <2>3
  <1> HIDE DEF S
  <1>8. S = Nat
    BY <1>6, <1>7, Induction
  <1>9. ASSUME NEW k \in 0..n
        PROVE  IsBehind(k, behind[k])
    <2>1. n - k \in Nat /\ n - k \in 0..n /\ n - (n - k) = k
      OBVIOUS
    <2>2. \E s : IsBehind(n - (n - k), s)
      BY <1>8, <2>1 DEF S
    <2>3. \E s : IsBehind(k, s)
      BY <2>1, <2>2
    <2> QED
      BY <2>3
  <1> HIDE DEF behind
  <1>10. behind[n] = rest
    <2>1. n \in 0..n
      OBVIOUS
    <2> QED
      BY <1>3, <1>4, <1>9, <2>1
  <1>11. behind[0] = all
    <2>1. 0 \in 0..n /\ IsBehind(0, behind[0])
      BY <1>9
    <2>2. all = <<>> \o behind[0] /\ IsFields(behind[0])
      BY <1>1, <2>1 DEF IsBehind
    <2> QED
      BY <2>2, JoinedWithNone
  <1>12. ASSUME NEW k \in 1..n
         PROVE  behind[k - 1] = pieces[k] \o behind[k]
    <2>1. k \in 0..n /\ k - 1 \in 0..n
      OBVIOUS
    <2>2. IsBehind(k - 1, pieces[k] \o behind[k])
      BY <1>5, <1>9, <2>1
    <2> QED
      BY <1>4, <1>9, <2>1, <2>2
  <1>13. \A k \in 0..n : IsFields(behind[k])
    BY <1>9 DEF IsBehind
  <1>14. AreBehind(behind, n, pieces, rest)
    BY <1>10, <1>11, <1>12, <1>13 DEF AreBehind
  <1> QED
    BY <1>2, <1>14

\* r has got one item more than before, or it stopped for what is amiss.
HasGot(r, before, x, left, isWhole) ==
    \/ IsAt(r, left) /\ r.got = Append(before.got, x)
    \/ ~ isWhole /\ ~ Runs(r)

LEMMA ItemIsGotOrStops ==
    ASSUME NEW before, NEW item, NEW x, NEW left, NEW isWhole,
           Reads(item, x, left, isWhole)
    PROVE  HasGot(Got(before, item), before, x, left, isWhole)
  <1>1. CASE HasRead(item, x, left)
    BY <1>1, ItemIsGot DEF HasGot
  <1>2. CASE ~ isWhole /\ ~ Runs(item)
    BY <1>2 DEF HasGot, Got
  <1> QED
    BY <1>1, <1>2 DEF Reads

LEMMA ItemsAreRead ==
    ASSUME NEW n \in Nat, NEW pieces, IsFields(pieces), Len(pieces) = n,
           ArePieces(pieces, n), NEW rest, IsFields(rest),
           NEW X, NEW xs \in Seq(X), Len(xs) = n, NEW items, NEW isWhole,
           IsAt(items[0], FlattenSeq(pieces) \o rest), items[0].got = <<>>,
           \A k \in 1..n : \A left :
              IsFields(left) /\ IsAt(items[k - 1], pieces[k] \o left)
                 => HasGot(items[k], items[k - 1], xs[k], left, isWhole),
           \A k \in 1..n : ~ Runs(items[k - 1]) => ~ Runs(items[k])
    PROVE  \/ IsAt(items[n], rest) /\ items[n].got = xs
           \/ ~ isWhole /\ ~ Runs(items[n])
  <1>0. PICK behind : AreBehind(behind, n, pieces, rest)
    BY PiecesAreLeft
  <1>1. /\ behind[0] = FlattenSeq(pieces) \o rest /\ behind[n] = rest
        /\ \A k \in 0..n : IsFields(behind[k])
        /\ \A k \in 1..n : behind[k - 1] = pieces[k] \o behind[k]
    BY <1>0 DEF AreBehind
  <1> DEFINE Holds(k) ==
                \/ IsAt(items[k], behind[k]) /\ items[k].got = SubSeq(xs, 1, k)
                \/ ~ isWhole /\ ~ Runs(items[k])
             S == {k \in Nat : k \in 0..n => Holds(k)}
  <1>2. S \in SUBSET Nat /\ 0 \in S
    <2>1. SubSeq(xs, 1, 0) = <<>>
      OBVIOUS
    <2> QED
      BY <1>1, <2>1
  <1>3. ASSUME NEW k \in S
        PROVE  k + 1 \in S
    <2> SUFFICES ASSUME k + 1 \in 0..n
                 PROVE  Holds(k + 1)
      OBVIOUS
    <2>1. k \in Nat /\ k \in 0..n /\ k + 1 \in 1..n /\ (k + 1) - 1 = k
      OBVIOUS
    <2>2. Holds(k)
      BY <2>1
    <2> HIDE DEF S
    <2>3. CASE IsAt(items[k], behind[k]) /\ items[k].got = SubSeq(xs, 1, k)
      <3>1. behind[k] = pieces[k + 1] \o behind[k + 1] /\ IsFields(behind[k + 1])
        BY <1>1, <2>1
      <3>2. HasGot(items[k + 1], items[k], xs[k + 1], behind[k + 1], isWhole)
        BY <2>1, <2>3, <3>1
      <3>3. Append(SubSeq(xs, 1, k), xs[k + 1]) = SubSeq(xs, 1, k + 1)
        <4>1. k + 1 \in 1 .. Len(xs) /\ k + 1 \in 1 .. k + 1 /\ k \in 0 .. Len(xs)
          BY <2>1
        <4>2. \A i \in 1..k : xs[i] \in X
          BY <4>1
        <4>3. /\ SubSeq(xs, 1, k) \in Seq(X) /\ xs[k + 1] \in X
              /\ Len(SubSeq(xs, 1, k)) = k
              /\ \A i \in 1..k : SubSeq(xs, 1, k)[i] = xs[i]
          BY <2>1, <4>1, <4>2
        <4>4. /\ SubSeq(xs, 1, k + 1) \in Seq(X) /\ Len(SubSeq(xs, 1, k + 1)) = k + 1
              /\ \A i \in 1 .. k + 1 : SubSeq(xs, 1, k + 1)[i] = xs[i]
          BY <2>1, <4>1
        <4> QED
          BY <2>1, <4>3, <4>4
      <3> QED
        BY <2>3, <3>2, <3>3 DEF HasGot
    <2>4. CASE ~ isWhole /\ ~ Runs(items[k])
      BY <2>1, <2>4
    <2> QED
      BY <2>2, <2>3, <2>4
  <1> HIDE DEF S
  <1>4. S = Nat
    BY <1>2, <1>3, Induction
  <1>5. Holds(n)
    BY <1>4 DEF S
  <1>6. SubSeq(xs, 1, n) = xs
    BY SubSeqFull
  <1> QED
    BY <1>1, <1>5, <1>6
\* The readers of what comes as a sequence.
ItemOf(kind, r, blobs) ==
    CASE kind = "argument" -> TakeStr(r)
      [] kind = "pane" -> DecodePane(r, blobs)
      [] kind = "window" -> DecodeWindow(r, blobs)
      [] kind = "link" -> ReadLink(r)
      [] kind = "session" -> DecodeSession(r)
      [] kind = "client" -> ReadClient(r)
      [] kind = "old pane" -> DecodePaneV1(r, blobs)
      [] kind = "old window" -> DecodeWindowV1(r, blobs)
      [] kind = "old session" -> DecodeSessionV1(r, blobs)

NextItem(kind, r, blobs) == Got(r, ItemOf(kind, Fresh(r), blobs))

\* A reader before each item, as ReadVec computes them, up to the n-th.
AreItems(f, N, kind, first, blobs) ==
    f = [n \in N |-> IF n = 0 THEN first ELSE NextItem(kind, f[n - 1], blobs)]

LEMMA ItemsAreDefined ==
    ASSUME NEW kind, NEW first, NEW blobs
    PROVE  \E f : AreItems(f, Nat, kind, first, blobs)
  <1> DEFINE Upto(f, m) == AreItems(f, 0..m, kind, first, blobs)
             Step(r) == NextItem(kind, r, blobs)
             S == {m \in Nat : \E f : Upto(f, m)}
             at == [m \in Nat |-> CHOOSE f : Upto(f, m)]
             f == [m \in Nat |-> at[m][m]]
  <1>1. ASSUME NEW m \in Nat, NEW g, Upto(g, m)
        PROVE  g[0] = first /\ \A n \in 1..m : g[n] = Step(g[n - 1])
    <2>1. \A n \in 0..m : g[n] = IF n = 0 THEN first ELSE Step(g[n - 1])
      BY <1>1 DEF AreItems
    <2>2. 0 \in 0..m /\ \A n \in 1..m : n \in 0..m /\ n # 0
      OBVIOUS
    <2> HIDE DEF Step
    <2> QED
      BY <2>1, <2>2
  <1>2. ASSUME NEW m \in Nat, NEW g, Upto(g, m)
        PROVE  \E h : Upto(h, m + 1)
    <2> DEFINE h == [n \in 0 .. m + 1 |-> IF n = 0 THEN first ELSE Step(g[n - 1])]
    <2>1. \A n \in 0..m : g[n] = IF n = 0 THEN first ELSE Step(g[n - 1])
      BY <1>2 DEF AreItems
    <2> HIDE DEF Step
    <2>2. \A n \in 0..m : h[n] = g[n]
      BY <2>1
    <2>3. \A n \in 0 .. m + 1 : n # 0 => n - 1 \in 0..m
      OBVIOUS
    <2>4. h = [n \in 0 .. m + 1 |-> IF n = 0 THEN first ELSE Step(h[n - 1])]
      BY <2>2, <2>3
    <2> HIDE DEF h
    <2>5. Upto(h, m + 1)
      BY <2>4 DEF AreItems, Step
    <2> QED
      BY <2>5
  <1>3. S \in SUBSET Nat /\ 0 \in S
    <2> DEFINE g == [n \in 0..0 |-> first]
    <2>1. g = [n \in 0..0 |-> IF n = 0 THEN first ELSE Step(g[n - 1])]
      <3> HIDE DEF Step
      <3> QED
        OBVIOUS
    <2> HIDE DEF g
    <2>2. Upto(g, 0)
      BY <2>1 DEF AreItems
    <2> QED
      BY <2>2
  <1>4. ASSUME NEW m \in S
        PROVE  m + 1 \in S
    <2> HIDE DEF Upto
    <2> QED
      BY <1>2
  <1> HIDE DEF S
  <1>5. S = Nat
    BY <1>3, <1>4, Induction
  <1>6. ASSUME NEW m \in Nat
        PROVE  Upto(at[m], m)
    <2>1. \E g : Upto(g, m)
      BY <1>5 DEF S
    <2> HIDE DEF Upto
    <2> QED
      BY <2>1
  <1> HIDE DEF at
  <1>7. ASSUME NEW m \in Nat
        PROVE  at[m + 1][m] = at[m][m]
    <2> DEFINE g == at[m]
               h == at[m + 1]
               T == {n \in Nat : n \in 0..m => h[n] = g[n]}
    <2>1. g[0] = first /\ \A n \in 1..m : g[n] = Step(g[n - 1])
      BY <1>1, <1>6
    <2>2. m + 1 \in Nat /\ Upto(h, m + 1)
      BY <1>6
    <2> HIDE DEF g, h
    <2>3. h[0] = first /\ \A n \in 1 .. m + 1 : h[n] = Step(h[n - 1])
      BY <1>1, <2>2
    <2> HIDE DEF Upto, Step
    <2>4. T \in SUBSET Nat /\ 0 \in T
      BY <2>1, <2>3
    <2>5. ASSUME NEW n \in T
          PROVE  n + 1 \in T
      <3> SUFFICES ASSUME n + 1 \in 0..m
                   PROVE  h[n + 1] = g[n + 1]
        OBVIOUS
      <3>1. n \in Nat /\ n + 1 \in 1..m /\ n + 1 \in 1 .. m + 1 /\ n \in 0..m /\ (n + 1) - 1 = n
        OBVIOUS
      <3>2. h[n] = g[n]
        BY <3>1
      <3> QED
        BY <2>1, <2>3, <3>1, <3>2
    <2> HIDE DEF T
    <2>6. T = Nat
      BY <2>4, <2>5, Induction
    <2>7. m \in T /\ m \in 0..m
      BY <2>6
    <2> QED
      BY <2>7 DEF T, g, h
  <1>8. ASSUME NEW n \in Nat
        PROVE  f[n] = IF n = 0 THEN first ELSE Step(f[n - 1])
    <2>1. CASE n = 0
      <3>1. at[0][0] = first
        BY <1>1, <1>6
      <3> QED
        BY <2>1, <3>1
    <2>2. CASE n # 0
      <3>1. n - 1 \in Nat /\ (n - 1) + 1 = n /\ n \in 1..n
        BY <2>2
      <3>2. at[n][n] = Step(at[n][n - 1])
        BY <1>1, <1>6, <3>1
      <3>3. at[n][n - 1] = at[n - 1][n - 1]
        BY <1>7, <3>1
      <3>4. f[n] = at[n][n] /\ f[n - 1] = at[n - 1][n - 1]
        BY <3>1
      <3> HIDE DEF Step, f
      <3> QED
        BY <2>2, <3>2, <3>3, <3>4
    <2> QED
      BY <2>1, <2>2
  <1>9. f = [n \in Nat |-> IF n = 0 THEN first ELSE Step(f[n - 1])]
    <2>1. f = [n \in Nat |-> f[n]]
      OBVIOUS
    <2> HIDE DEF f, Step
    <2> QED
      BY <1>8, <2>1
  <1> HIDE DEF f
  <1> QED
    BY <1>9 DEF AreItems

\* A sequence is read as what was written, item for item.
LEMMA VecIsRead ==
    ASSUME NEW n \in Nat, NEW pieces, IsFields(pieces), Len(pieces) = n,
           ArePieces(pieces, n), NEW rest, IsFields(rest),
           NEW X, NEW xs \in Seq(X), Len(xs) = n, NEW isWhole, NEW kind, NEW blobs,
           NEW r, IsAt(r, (U32(n) \o FlattenSeq(pieces)) \o rest),
           \A s : ~ Runs(s) => ~ Runs(ItemOf(kind, s, blobs)),
           \A k \in 1..n : \A s, left :
              IsFields(left) /\ IsAt(s, pieces[k] \o left) /\ s.got = <<>>
                 => Reads(ItemOf(kind, s, blobs), xs[k], left, isWhole),
           NEW items, AreItems(items, Nat, kind, Fresh(Take(r, "u32")), blobs)
    PROVE  /\ Runs(Take(r, "u32")) /\ Take(r, "u32").value = n
           /\ Reads(AsSeq(items[n]), xs, rest, isWhole)
  <1> DEFINE count == Take(r, "u32")
             all == FlattenSeq(pieces) \o rest
  <1>1. IsFields(FlattenSeq(pieces))
    BY PiecesAreLeft
  <1>2. IsFields(U32(n)) /\ IsFields(all)
    BY <1>1, JoinedFields, FirstField DEF U32
  <1>3. (U32(n) \o FlattenSeq(pieces)) \o rest = U32(n) \o all
    <2> DEFINE s == FlattenSeq(pieces)
    <2> HIDE DEF s
    <2>1. IsFields(s)
      BY <1>1 DEF s
    <2>2. RegroupsThree(U32(n), s, rest)
      BY <1>2, <2>1, JoinedThree
    <2> QED
      BY <2>2 DEF s, RegroupsThree
  <1> HIDE DEF all
  <1>4. HasRead(count, n, all)
    BY <1>2, <1>3, FieldIsTaken DEF U32
  <1>5. Runs(count) /\ count.value = n /\ IsAt(Fresh(count), all) /\ Fresh(count).got = <<>>
    BY <1>4, FreshIsAt, StillRuns DEF HasRead
  <1> HIDE DEF count
  <1>6. /\ items[0] = Fresh(count)
        /\ \A k \in 1..n : items[k] = NextItem(kind, items[k - 1], blobs)
    <2>1. \A k \in Nat : items[k] = IF k = 0 THEN Fresh(count)
                                    ELSE NextItem(kind, items[k - 1], blobs)
      BY DEF AreItems, count
    <2>2. \A k \in 1..n : k \in Nat /\ k # 0
      OBVIOUS
    <2> QED
      BY <2>1, <2>2
  <1>7. ASSUME NEW k \in 1..n, NEW left,
               IsFields(left), IsAt(items[k - 1], pieces[k] \o left)
        PROVE  HasGot(items[k], items[k - 1], xs[k], left, isWhole)
    <2>1. /\ IsAt(Fresh(items[k - 1]), pieces[k] \o left)
          /\ Fresh(items[k - 1]).got = <<>>
      BY <1>7, FreshIsAt
    <2>2. Reads(ItemOf(kind, Fresh(items[k - 1]), blobs), xs[k], left, isWhole)
      BY <1>7, <2>1
    <2> QED
      BY <1>6, <2>2, ItemIsGotOrStops DEF NextItem
  <1>8. ASSUME NEW k \in 1..n, ~ Runs(items[k - 1])
        PROVE  ~ Runs(items[k])
    <2>1. ~ Runs(Fresh(items[k - 1]))
      BY <1>8, StoppedIsStopped
    <2>2. ~ Runs(ItemOf(kind, Fresh(items[k - 1]), blobs))
      BY <2>1
    <2> QED
      BY <1>6, <2>2, StoppedIsStopped DEF NextItem
  <1>9. \/ IsAt(items[n], rest) /\ items[n].got = xs
        \/ ~ isWhole /\ ~ Runs(items[n])
    <2>1. IsAt(items[0], FlattenSeq(pieces) \o rest) /\ items[0].got = <<>>
      BY <1>5, <1>6 DEF all
    <2> QED
      BY <1>7, <1>8, <2>1, ItemsAreRead
  <1>10. Reads(AsSeq(items[n]), xs, rest, isWhole)
    <2>1. CASE IsAt(items[n], rest) /\ items[n].got = xs
      BY <2>1, SeqIsMade DEF Reads
    <2>2. CASE ~ isWhole /\ ~ Runs(items[n])
      BY <2>2, StoppedIsStopped DEF AsSeq, Reads
    <2> QED
      BY <1>9, <2>1, <2>2
  <1> QED
    BY <1>5, <1>10 DEF count
-----------------------------------------------------------------------------
(***************************************************************************)
(* Options.                                                                *)
(***************************************************************************)
IsOption(option) == option # None => option = Some(option[1])

OptionFields(option, fields) == IF option = None THEN U8(0) ELSE U8(1) \o fields

OptionOf(tag, item) ==
    IF ~ Runs(tag) THEN tag
    ELSE IF tag.value = 0 THEN Yield(tag, None)
    ELSE IF tag.value = 1 THEN Present(item)
    ELSE Stop(tag, "InvalidTag")

LEMMA OptionIsRead ==
    ASSUME NEW option, IsOption(option), NEW fields, option # None => IsFields(fields),
           NEW rest, IsFields(rest), NEW r, IsAt(r, OptionFields(option, fields) \o rest),
           NEW item,
           option # None /\ IsAt(Take(r, "u8"), fields \o rest)
              /\ Take(r, "u8").got = r.got => HasRead(item, option[1], rest)
    PROVE  /\ IsFields(OptionFields(option, fields))
           /\ HasRead(OptionOf(Take(r, "u8"), item), option, rest)
  <1> DEFINE tag == Take(r, "u8")
  <1>1. CASE option = None
    <2>1. OptionFields(option, fields) = <<[as |-> "u8", is |-> 0]>>
      BY <1>1 DEF OptionFields, U8
    <2>2. HasRead(tag, 0, rest) /\ IsFields(OptionFields(option, fields))
      BY <2>1, FieldIsTaken, FirstField
    <2> HIDE DEF tag
    <2>3. Runs(tag) /\ tag.value = 0 /\ IsAt(tag, rest)
      BY <2>2, StillRuns DEF HasRead
    <2>4. OptionOf(tag, item) = Yield(tag, None)
      BY <2>3 DEF OptionOf
    <2> QED
      BY <1>1, <2>2, <2>3, <2>4, ValueIsYielded DEF tag
  <1>2. CASE option # None
    <2> DEFINE first == [as |-> "u8", is |-> 1]
    <2>1. OptionFields(option, fields) = <<first>> \o fields
      BY <1>2 DEF OptionFields, U8
    <2>2. IsFields(<<first>>) /\ IsFields(fields) /\ IsFields(fields \o rest)
      BY <1>2, FirstField, JoinedFields
    <2> HIDE DEF first
    <2>3. (<<first>> \o fields) \o rest = <<first>> \o (fields \o rest)
      BY <2>2, JoinedThrice
    <2>4. HasRead(tag, 1, fields \o rest) /\ tag.got = r.got
      BY <2>1, <2>2, <2>3, FieldIsTaken DEF first
    <2>5. HasRead(item, option[1], rest)
      BY <1>2, <2>4 DEF HasRead
    <2>6. IsFields(OptionFields(option, fields))
      BY <2>1, <2>2, JoinedFields
    <2> HIDE DEF tag
    <2>7. Runs(tag) /\ tag.value = 1
      BY <2>4, StillRuns DEF HasRead
    <2>8. OptionOf(tag, item) = Yield(item, Some(item.value))
      BY <2>7 DEF OptionOf, Present
    <2>9. item.value = option[1] /\ IsAt(item, rest)
      BY <2>5 DEF HasRead
    <2>10. HasRead(Yield(item, option), option, rest)
      BY <2>9, ValueIsYielded
    <2> QED
      BY <1>2, <2>6, <2>8, <2>9, <2>10 DEF IsOption, tag
  <1> QED
    BY <1>1, <1>2

LEMMA NoOptionOfStopped ==
    ASSUME NEW r, ~ Runs(r), NEW item
    PROVE  OptionOf(Take(r, "u8"), item) = r
  BY StoppedIsStopped DEF OptionOf

\* The optional items there are, as one operator each.
NameOption(r) == ReadOption(r, TakeName)
StampOption(r) == ReadOption(r, ReadStamp)
NumberOption(r) == ReadOption(r, TakeU32)
TimeOption(r) == ReadOption(r, TakeI64)
OriginOption(r) == ReadOption(r, ReadOrigin)

LEMMA OptionsAre ==
    ASSUME NEW r
    PROVE  /\ NameOption(r) = OptionOf(Take(r, "u8"), TakeName(Take(r, "u8")))
           /\ StampOption(r) = OptionOf(Take(r, "u8"), ReadStamp(Take(r, "u8")))
           /\ NumberOption(r) = OptionOf(Take(r, "u8"), TakeU32(Take(r, "u8")))
           /\ TimeOption(r) = OptionOf(Take(r, "u8"), TakeI64(Take(r, "u8")))
           /\ OriginOption(r) = OptionOf(Take(r, "u8"), ReadOrigin(Take(r, "u8")))
  <1>1. NameOption(r) = OptionOf(Take(r, "u8"), TakeName(Take(r, "u8")))
    BY DEF NameOption, ReadOption, OptionOf
  <1>2. StampOption(r) = OptionOf(Take(r, "u8"), ReadStamp(Take(r, "u8")))
    BY DEF StampOption, ReadOption, OptionOf
  <1>3. NumberOption(r) = OptionOf(Take(r, "u8"), TakeU32(Take(r, "u8")))
    BY DEF NumberOption, ReadOption, OptionOf
  <1>4. TimeOption(r) = OptionOf(Take(r, "u8"), TakeI64(Take(r, "u8")))
    BY DEF TimeOption, ReadOption, OptionOf
  <1>5. OriginOption(r) = OptionOf(Take(r, "u8"), ReadOrigin(Take(r, "u8")))
    BY DEF OriginOption, ReadOption, OptionOf
  <1> QED
    BY <1>1, <1>2, <1>3, <1>4, <1>5

\* And as they are written.
LEMMA OptionsAreWritten ==
    ASSUME NEW option
    PROVE  /\ WriteOption(option, Str) = OptionFields(option, Str(option[1]))
           /\ WriteOption(option, U32) = OptionFields(option, U32(option[1]))
           /\ WriteOption(option, I64) = OptionFields(option, I64(option[1]))
           /\ WriteOption(option, WriteOrigin) = OptionFields(option, WriteOrigin(option[1]))
  BY DEF WriteOption, OptionFields

IsNamed(option) == IsOption(option) /\ (option # None => option[1] # 0)

LEMMA NameOptionIsRead ==
    ASSUME NEW option, IsNamed(option), NEW rest, IsFields(rest),
           NEW r, IsAt(r, WriteOption(option, Str) \o rest)
    PROVE  HasRead(NameOption(r), option, rest)
  <1>1. IsAt(r, OptionFields(option, Str(option[1])) \o rest)
    BY OptionsAreWritten
  <1>2. IsFields(Str(option[1]))
    BY FirstField DEF Str
  <1>3. option # None /\ IsAt(Take(r, "u8"), Str(option[1]) \o rest)
           => HasRead(TakeName(Take(r, "u8")), option[1], rest)
    BY NameIsTaken DEF IsNamed
  <1> QED
    BY <1>1, <1>2, <1>3, OptionIsRead, OptionsAre DEF IsNamed

LEMMA NumberOptionIsRead ==
    ASSUME NEW option, IsOption(option), NEW rest, IsFields(rest),
           NEW r, IsAt(r, WriteOption(option, U32) \o rest)
    PROVE  HasRead(NumberOption(r), option, rest)
  <1>1. IsAt(r, OptionFields(option, U32(option[1])) \o rest)
    BY OptionsAreWritten
  <1>2. IsFields(U32(option[1]))
    BY FirstField DEF U32
  <1>3. IsAt(Take(r, "u8"), U32(option[1]) \o rest)
           => HasRead(TakeU32(Take(r, "u8")), option[1], rest)
    BY FieldIsTaken DEF U32, TakeU32
  <1> QED
    BY <1>1, <1>2, <1>3, OptionIsRead, OptionsAre

LEMMA TimeOptionIsRead ==
    ASSUME NEW option, IsOption(option), NEW rest, IsFields(rest),
           NEW r, IsAt(r, WriteOption(option, I64) \o rest)
    PROVE  HasRead(TimeOption(r), option, rest)
  <1>1. IsAt(r, OptionFields(option, I64(option[1])) \o rest)
    BY OptionsAreWritten
  <1>2. IsFields(I64(option[1]))
    BY FirstField DEF I64
  <1>3. IsAt(Take(r, "u8"), I64(option[1]) \o rest)
           => HasRead(TakeI64(Take(r, "u8")), option[1], rest)
    BY FieldIsTaken DEF I64, TakeI64
  <1> QED
    BY <1>1, <1>2, <1>3, OptionIsRead, OptionsAre

\* What is written of options is fields.
LEMMA OptionsAreFields ==
    ASSUME NEW option
    PROVE  /\ IsFields(WriteOption(option, Str)) /\ IsFields(WriteOption(option, U32))
           /\ IsFields(WriteOption(option, I64))
           /\ IsFields(WriteOption(option, WriteOrigin))
  <1>1. \A x : /\ IsFields(Str(x)) /\ IsFields(U32(x)) /\ IsFields(I64(x))
               /\ IsFields(U8(x)) /\ IsFields(WriteOrigin(x))
    <2> TAKE x
    <2>1. /\ IsFields(Str(x)) /\ IsFields(U32(x)) /\ IsFields(I64(x)) /\ IsFields(U8(x))
          /\ IsFields(U32(x.pid)) /\ IsFields(I64(x.start))
      BY OneField DEF Str, U32, I64, U8
    <2> QED
      BY <2>1, JoinedFields DEF WriteOrigin
  <1>2. \A fields : IsFields(fields) => IsFields(OptionFields(option, fields))
    BY <1>1, JoinedFields DEF OptionFields
  <1> QED
    BY <1>1, <1>2, OptionsAreWritten
-----------------------------------------------------------------------------
(***************************************************************************)
(* The sequences there are, as one operator each.                          *)
(***************************************************************************)
Arguments(r) == ReadVec(r, TakeStr)
Links(r) == ReadVec(r, ReadLink)
Sessions(r) == ReadVec(r, DecodeSession)
Clients(r) == ReadVec(r, ReadClient)
Panes(r, blobs) == ReadVec(r, LAMBDA q : DecodePane(q, blobs))
Windows(r, blobs) == ReadVec(r, LAMBDA v : DecodeWindow(v, blobs))

IsVecOf(vec, r, kind, blobs) ==
    \E items :
        /\ AreItems(items, Nat, kind, Fresh(Take(r, "u32")), blobs)
        /\ vec = IF Runs(Take(r, "u32")) THEN AsSeq(items[Take(r, "u32").value])
                 ELSE Take(r, "u32")

LEMMA ArgumentsAreItems ==
    ASSUME NEW r, NEW blobs
    PROVE  IsVecOf(Arguments(r), r, "argument", blobs)
  <1> DEFINE count == Take(r, "u32")
             items[n \in Nat] == IF n = 0 THEN [count EXCEPT !.got = <<>>]
                                 ELSE Then(items[n - 1], TakeStr)
             Items(f) == f = [n \in Nat |-> IF n = 0 THEN [count EXCEPT !.got = <<>>]
                                            ELSE Then(f[n - 1], TakeStr)]
  <1>1. Arguments(r) = IF Runs(count) THEN AsSeq(items[count.value]) ELSE count
    BY DEF Arguments, ReadVec, TakeU32
  <1>2. PICK f : AreItems(f, Nat, "argument", Fresh(count), blobs)
    BY ItemsAreDefined
  <1>3. \A s : Then(s, TakeStr) = NextItem("argument", s, blobs)
    BY DEF Then, NextItem, ItemOf, Fresh
  <1>4. Items(f)
    BY <1>2, <1>3 DEF AreItems, Fresh
  <1>5. Items(items)
    BY <1>4
  <1> HIDE DEF items
  <1>6. AreItems(items, Nat, "argument", Fresh(count), blobs)
    BY <1>3, <1>5 DEF AreItems, Fresh
  <1> QED
    BY <1>1, <1>6 DEF IsVecOf

LEMMA PanesAreItems ==
    ASSUME NEW r, NEW blobs
    PROVE  IsVecOf(Panes(r, blobs), r, "pane", blobs)
  <1> DEFINE count == Take(r, "u32")
             items[n \in Nat] == IF n = 0 THEN [count EXCEPT !.got = <<>>]
                                 ELSE Then(items[n - 1], LAMBDA q : DecodePane(q, blobs))
             Items(f) == f = [n \in Nat |-> IF n = 0 THEN [count EXCEPT !.got = <<>>]
                                 ELSE Then(f[n - 1], LAMBDA q : DecodePane(q, blobs))]
  <1>1. Panes(r, blobs) = IF Runs(count) THEN AsSeq(items[count.value]) ELSE count
    BY DEF Panes, ReadVec, TakeU32
  <1>2. PICK f : AreItems(f, Nat, "pane", Fresh(count), blobs)
    BY ItemsAreDefined
  <1>3. \A s : Then(s, LAMBDA q : DecodePane(q, blobs)) = NextItem("pane", s, blobs)
    BY DEF Then, NextItem, ItemOf, Fresh
  <1>4. Items(f)
    BY <1>2, <1>3 DEF AreItems, Fresh
  <1>5. Items(items)
    BY <1>4
  <1> HIDE DEF items
  <1>6. AreItems(items, Nat, "pane", Fresh(count), blobs)
    BY <1>3, <1>5 DEF AreItems, Fresh
  <1> QED
    BY <1>1, <1>6 DEF IsVecOf

LEMMA LinksAreItems ==
    ASSUME NEW r, NEW blobs
    PROVE  IsVecOf(Links(r), r, "link", blobs)
  <1> DEFINE count == Take(r, "u32")
             items[n \in Nat] == IF n = 0 THEN [count EXCEPT !.got = <<>>]
                                 ELSE Then(items[n - 1], ReadLink)
             Items(f) == f = [n \in Nat |-> IF n = 0 THEN [count EXCEPT !.got = <<>>]
                                            ELSE Then(f[n - 1], ReadLink)]
  <1>1. Links(r) = IF Runs(count) THEN AsSeq(items[count.value]) ELSE count
    BY DEF Links, ReadVec, TakeU32
  <1>2. PICK f : AreItems(f, Nat, "link", Fresh(count), blobs)
    BY ItemsAreDefined
  <1>3. \A s : Then(s, ReadLink) = NextItem("link", s, blobs)
    BY DEF Then, NextItem, ItemOf, Fresh
  <1>4. Items(f)
    BY <1>2, <1>3 DEF AreItems, Fresh
  <1>5. Items(items)
    BY <1>4
  <1> HIDE DEF items
  <1>6. AreItems(items, Nat, "link", Fresh(count), blobs)
    BY <1>3, <1>5 DEF AreItems, Fresh
  <1> QED
    BY <1>1, <1>6 DEF IsVecOf

LEMMA SessionsAreItems ==
    ASSUME NEW r, NEW blobs
    PROVE  IsVecOf(Sessions(r), r, "session", blobs)
  <1> DEFINE count == Take(r, "u32")
             items[n \in Nat] == IF n = 0 THEN [count EXCEPT !.got = <<>>]
                                 ELSE Then(items[n - 1], DecodeSession)
             Items(f) == f = [n \in Nat |-> IF n = 0 THEN [count EXCEPT !.got = <<>>]
                                            ELSE Then(f[n - 1], DecodeSession)]
  <1>1. Sessions(r) = IF Runs(count) THEN AsSeq(items[count.value]) ELSE count
    BY DEF Sessions, ReadVec, TakeU32
  <1>2. PICK f : AreItems(f, Nat, "session", Fresh(count), blobs)
    BY ItemsAreDefined
  <1>3. \A s : Then(s, DecodeSession) = NextItem("session", s, blobs)
    BY DEF Then, NextItem, ItemOf, Fresh
  <1>4. Items(f)
    BY <1>2, <1>3 DEF AreItems, Fresh
  <1>5. Items(items)
    BY <1>4
  <1> HIDE DEF items
  <1>6. AreItems(items, Nat, "session", Fresh(count), blobs)
    BY <1>3, <1>5 DEF AreItems, Fresh
  <1> QED
    BY <1>1, <1>6 DEF IsVecOf

LEMMA ClientsAreItems ==
    ASSUME NEW r, NEW blobs
    PROVE  IsVecOf(Clients(r), r, "client", blobs)
  <1> DEFINE count == Take(r, "u32")
             items[n \in Nat] == IF n = 0 THEN [count EXCEPT !.got = <<>>]
                                 ELSE Then(items[n - 1], ReadClient)
             Items(f) == f = [n \in Nat |-> IF n = 0 THEN [count EXCEPT !.got = <<>>]
                                            ELSE Then(f[n - 1], ReadClient)]
  <1>1. Clients(r) = IF Runs(count) THEN AsSeq(items[count.value]) ELSE count
    BY DEF Clients, ReadVec, TakeU32
  <1>2. PICK f : AreItems(f, Nat, "client", Fresh(count), blobs)
    BY ItemsAreDefined
  <1>3. \A s : Then(s, ReadClient) = NextItem("client", s, blobs)
    BY DEF Then, NextItem, ItemOf, Fresh
  <1>4. Items(f)
    BY <1>2, <1>3 DEF AreItems, Fresh
  <1>5. Items(items)
    BY <1>4
  <1> HIDE DEF items
  <1>6. AreItems(items, Nat, "client", Fresh(count), blobs)
    BY <1>3, <1>5 DEF AreItems, Fresh
  <1> QED
    BY <1>1, <1>6 DEF IsVecOf

LEMMA WindowsAreItems ==
    ASSUME NEW r, NEW blobs
    PROVE  IsVecOf(Windows(r, blobs), r, "window", blobs)
  <1> DEFINE count == Take(r, "u32")
             items[n \in Nat] == IF n = 0 THEN [count EXCEPT !.got = <<>>]
                                 ELSE Then(items[n - 1], LAMBDA v : DecodeWindow(v, blobs))
             Items(f) == f = [n \in Nat |-> IF n = 0 THEN [count EXCEPT !.got = <<>>]
                                 ELSE Then(f[n - 1], LAMBDA v : DecodeWindow(v, blobs))]
  <1>1. Windows(r, blobs) = IF Runs(count) THEN AsSeq(items[count.value]) ELSE count
    BY DEF Windows, ReadVec, TakeU32
  <1>2. PICK f : AreItems(f, Nat, "window", Fresh(count), blobs)
    BY ItemsAreDefined
  <1>3. \A s : Then(s, LAMBDA v : DecodeWindow(v, blobs)) = NextItem("window", s, blobs)
    BY DEF Then, NextItem, ItemOf, Fresh
  <1>4. Items(f)
    BY <1>2, <1>3 DEF AreItems, Fresh
  <1>5. Items(items)
    BY <1>4
  <1> HIDE DEF items
  <1>6. AreItems(items, Nat, "window", Fresh(count), blobs)
    BY <1>3, <1>5 DEF AreItems, Fresh
  <1> QED
    BY <1>1, <1>6 DEF IsVecOf

\* A sequence of items, however they were written.
LEMMA SequenceIsRead ==
    ASSUME NEW n \in Nat, NEW pieces, IsFields(pieces), Len(pieces) = n,
           ArePieces(pieces, n), NEW rest, IsFields(rest),
           NEW X, NEW xs \in Seq(X), Len(xs) = n, NEW isWhole, NEW kind, NEW blobs,
           NEW r, IsAt(r, (U32(n) \o FlattenSeq(pieces)) \o rest),
           \A s : ~ Runs(s) => ~ Runs(ItemOf(kind, s, blobs)),
           \A k \in 1..n : \A s, left :
              IsFields(left) /\ IsAt(s, pieces[k] \o left) /\ s.got = <<>>
                 => Reads(ItemOf(kind, s, blobs), xs[k], left, isWhole),
           NEW vec, IsVecOf(vec, r, kind, blobs)
    PROVE  Reads(vec, xs, rest, isWhole)
  <1> DEFINE count == Take(r, "u32")
  <1>1. PICK items :
           /\ AreItems(items, Nat, kind, Fresh(count), blobs)
           /\ vec = IF Runs(count) THEN AsSeq(items[count.value]) ELSE count
    BY DEF IsVecOf
  <1>2. /\ Runs(count) /\ count.value = n
        /\ Reads(AsSeq(items[n]), xs, rest, isWhole)
    BY <1>1, VecIsRead, ZenonT(40)
  <1> HIDE DEF count
  <1> QED
    BY <1>1, <1>2

LEMMA StoppedHasNoItems ==
    ASSUME NEW r, ~ Runs(r), NEW vec, NEW kind, NEW blobs, IsVecOf(vec, r, kind, blobs)
    PROVE  vec = r /\ SomeItem(vec) = r
  <1>1. Take(r, "u32") = r
    BY StoppedIsStopped
  <1>2. vec = r
    BY <1>1 DEF IsVecOf
  <1> QED
    BY <1>2, StoppedIsStopped DEF SomeItem

\* One that is not empty is not refused for that.
LEMMA SomeItemIsRead ==
    ASSUME NEW vec, NEW xs, xs # <<>>, NEW rest, NEW isWhole,
           Reads(vec, xs, rest, isWhole)
    PROVE  Reads(SomeItem(vec), xs, rest, isWhole)
  <1>1. CASE HasRead(vec, xs, rest)
    <2>1. SomeItem(vec) = vec
      BY <1>1 DEF SomeItem, StopUnless, HasRead
    <2> QED
      BY <1>1, <2>1 DEF Reads
  <1>2. CASE ~ isWhole /\ ~ Runs(vec)
    <2>1. SomeItem(vec) = vec
      BY <1>2 DEF SomeItem, StopUnless
    <2> QED
      BY <1>2, <2>1 DEF Reads
  <1> QED
    BY <1>1, <1>2 DEF Reads
-----------------------------------------------------------------------------
(***************************************************************************)
(* Panes.                                                                  *)
(***************************************************************************)
LEMMA ReasonIsRead ==
    ASSUME NEW n \in Nat, NEW T, NEW reasons \in [1..n -> T],
           \A i, j \in 1..n : reasons[i] = reasons[j] => i = j,
           NEW i \in 1..n, NEW rest, IsFields(rest),
           NEW r, IsAt(r, WriteReason(reasons, reasons[i]) \o rest)
    PROVE  HasRead(ReadReason(r, reasons), reasons[i], rest)
  <1> DEFINE reason == reasons[i]
             more == IF reason \in {"Os", "CapturePane"} THEN Str(1) ELSE <<>>
             tag == Take(r, "u8")
             read == IF reason \in {"Os", "CapturePane"} THEN TakeStr(tag) ELSE tag
  <1>1. TagOf(reasons, reason) = i - 1
    <2>1. PlaceOf(reasons, reasons[i]) = i
      BY FieldIsFound
    <2> QED
      BY <2>1 DEF TagOf, PlaceOf
  <1> DEFINE first == [as |-> "u8", is |-> i - 1]
  <1>2. WriteReason(reasons, reason) = <<first>> \o more
    BY <1>1 DEF WriteReason, U8
  <1>3. IsFields(<<first>>) /\ IsFields(more) /\ IsFields(more \o rest)
    <2>1. IsFields(Str(1)) /\ IsFields(<<>>)
      BY OneField, JoinedWithNone DEF Str
    <2> HIDE DEF first
    <2> QED
      BY <2>1, OneField, JoinedFields
  <1> HIDE DEF first, more, reason
  <1>4. (<<first>> \o more) \o rest = <<first>> \o (more \o rest)
    BY <1>3, JoinedThrice
  <1>5. HasRead(tag, i - 1, more \o rest)
    BY <1>2, <1>3, <1>4, FieldIsTaken DEF first, reason
  <1>6. Runs(tag) /\ tag.value = i - 1 /\ IsAt(tag, more \o rest)
    BY <1>5, StillRuns DEF HasRead
  <1> HIDE DEF tag
  <1>7. IsAt(read, rest)
    <2>1. CASE reason \in {"Os", "CapturePane"}
      <3>1. IsAt(tag, <<[as |-> "str", is |-> 1]>> \o rest)
        BY <1>6, <2>1 DEF more, Str
      <3> QED
        BY <2>1, <3>1, FieldIsTaken DEF TakeStr, HasRead
    <2>2. CASE reason \notin {"Os", "CapturePane"}
      BY <1>6, <2>2, JoinedWithNone DEF more
    <2> QED
      BY <2>1, <2>2
  <1>8. DOMAIN reasons = 1..n /\ (i - 1) + 1 = i
    OBVIOUS
  <1>9. ReadReason(r, reasons) = Yield(read, reason)
    BY <1>6, <1>8 DEF ReadReason, tag, reason
  <1> HIDE DEF read
  <1> QED
    BY <1>7, <1>9, ValueIsYielded DEF reason

LEMMA FailuresAre ==
    /\ RecoveryFailures \in [1..5 -> ToSet(RecoveryFailures)]
    /\ \A i, j \in 1..5 : RecoveryFailures[i] = RecoveryFailures[j] => i = j
    /\ ContentFailures \in [1..2 -> ToSet(ContentFailures)]
    /\ \A i, j \in 1..2 : ContentFailures[i] = ContentFailures[j] => i = j
  <1>1. RecoveryFailures = <<"ShellGone", "NoTerminal", "LeaderGone", "Os", "NotRecorded">>
    BY DEF RecoveryFailures
  <1>2. ContentFailures = <<"CapturePane", "NotRecorded">>
    BY DEF ContentFailures
  <1>3. /\ DOMAIN RecoveryFailures = 1..5 /\ DOMAIN ContentFailures = 1..2
        /\ RecoveryFailures = [i \in 1..5 |-> RecoveryFailures[i]]
        /\ ContentFailures = [i \in 1..2 |-> ContentFailures[i]]
    BY <1>1, <1>2
  <1>4. /\ RecoveryFailures[1] = "ShellGone" /\ RecoveryFailures[2] = "NoTerminal"
        /\ RecoveryFailures[3] = "LeaderGone" /\ RecoveryFailures[4] = "Os"
        /\ RecoveryFailures[5] = "NotRecorded"
    BY <1>1
  <1>5. ContentFailures[1] = "CapturePane" /\ ContentFailures[2] = "NotRecorded"
    BY <1>2
  <1>6. /\ \A i \in 1..5 : i = 1 \/ i = 2 \/ i = 3 \/ i = 4 \/ i = 5
        /\ \A i \in 1..2 : i = 1 \/ i = 2
    OBVIOUS
  <1>7. \A i, j \in 1..5 : RecoveryFailures[i] = RecoveryFailures[j] => i = j
    BY <1>4, <1>6
  <1>8. \A i, j \in 1..2 : ContentFailures[i] = ContentFailures[j] => i = j
    BY <1>5, <1>6
  <1>9. /\ RecoveryFailures \in [1..5 -> ToSet(RecoveryFailures)]
        /\ ContentFailures \in [1..2 -> ToSet(ContentFailures)]
    BY <1>3 DEF ToSet
  <1> QED
    BY <1>7, <1>8, <1>9

\* What is written of these is fields.
LEMMA ReasonIsFields ==
    ASSUME NEW reasons, NEW reason
    PROVE  IsFields(WriteReason(reasons, reason))
  <1>1. IsFields(U8(TagOf(reasons, reason))) /\ IsFields(Str(1)) /\ IsFields(<<>>)
    BY OneField, JoinedWithNone DEF U8, Str
  <1> QED
    BY <1>1, JoinedFields DEF WriteReason

LEMMA SequenceIsFields ==
    ASSUME NEW n \in Nat, NEW pieces, IsFields(pieces), Len(pieces) = n,
           ArePieces(pieces, n)
    PROVE  IsFields(U32(n) \o FlattenSeq(pieces))
  <1>1. IsFields(FlattenSeq(pieces)) /\ IsFields(U32(n))
    BY PiecesAreLeft, OneField, JoinedWithNone DEF U32
  <1> QED
    BY <1>1, JoinedFields

IsForeground(f) ==
    \/ f = Shell
    \/ \E argv : f = Program(argv)
    \/ \E i \in 1..5 : f = Unrecovered(RecoveryFailures[i])

\* The only argument list of one.
LEMMA ArgvIsWritten ==
    ASSUME NEW argv
    PROVE  \E pieces :
              /\ WriteVec(<<argv>>, Str) = U32(1) \o FlattenSeq(pieces)
              /\ IsFields(pieces) /\ Len(pieces) = 1 /\ pieces[1] = Str(argv)
              /\ ArePieces(pieces, 1)
  <1> DEFINE pieces == [i \in DOMAIN <<argv>> |-> Str(<<argv>>[i])]
  <1>1. WriteVec(<<argv>>, Str) = U32(1) \o FlattenSeq(pieces)
    BY DEF WriteVec
  <1>2. pieces = <<Str(argv)>>
    OBVIOUS
  <1>3. IsFields(pieces) /\ Len(pieces) = 1 /\ pieces[1] = Str(argv)
    BY <1>2, OneField
  <1>4. IsFields(Str(argv))
    BY OneField DEF Str
  <1>5. ArePieces(pieces, 1)
    BY <1>3, <1>4 DEF ArePieces
  <1> HIDE DEF pieces
  <1> QED
    BY <1>1, <1>3, <1>5

LEMMA ArgvIsRead ==
    ASSUME NEW argv, NEW rest, IsFields(rest),
           NEW r, IsAt(r, WriteVec(<<argv>>, Str) \o rest)
    PROVE  HasRead(SomeItem(Arguments(r)), <<argv>>, rest)
  <1>1. PICK pieces :
           /\ WriteVec(<<argv>>, Str) = U32(1) \o FlattenSeq(pieces)
           /\ IsFields(pieces) /\ Len(pieces) = 1 /\ pieces[1] = Str(argv)
           /\ ArePieces(pieces, 1)
    BY ArgvIsWritten
  <1>2. \A s : ~ Runs(s) => ~ Runs(ItemOf("argument", s, <<>>))
    BY StoppedIsStopped DEF ItemOf, TakeStr
  <1>3. ASSUME NEW k \in 1..1, NEW s, NEW left,
               IsFields(left), IsAt(s, pieces[k] \o left)
        PROVE  Reads(ItemOf("argument", s, <<>>), <<argv>>[k], left, TRUE)
    <2>1. k = 1
      OBVIOUS
    <2>2. IsAt(s, <<[as |-> "str", is |-> argv]>> \o left)
      BY <1>1, <1>3, <2>1 DEF Str
    <2> QED
      BY <1>3, <2>1, <2>2, FieldIsTaken DEF ItemOf, TakeStr, Reads
  <1>4. IsVecOf(Arguments(r), r, "argument", <<>>)
    BY ArgumentsAreItems
  <1>5. <<argv>> \in Seq({argv}) /\ Len(<<argv>>) = 1 /\ <<argv>> # <<>>
    OBVIOUS
  <1>6. Reads(Arguments(r), <<argv>>, rest, TRUE)
    BY <1>1, <1>2, <1>3, <1>4, <1>5, SequenceIsRead
  <1>7. Reads(SomeItem(Arguments(r)), <<argv>>, rest, TRUE)
    BY <1>5, <1>6, SomeItemIsRead
  <1> QED
    BY <1>7 DEF Reads

LEMMA ForegroundIsWritten ==
    ASSUME NEW f, IsForeground(f)
    PROVE  /\ IsFields(WriteForeground(f))
           /\ f = Shell => WriteForeground(f) = U8(0) \o <<>>
           /\ \A a : f = Program(a) =>
                 /\ WriteForeground(f) = U8(1) \o WriteVec(<<a>>, Str)
                 /\ IsFields(WriteVec(<<a>>, Str))
           /\ \A reason : f = Unrecovered(reason) =>
                 WriteForeground(f) = U8(2) \o WriteReason(RecoveryFailures, reason)
  <1>1. \A n : IsFields(U8(n))
    BY OneField DEF U8
  <1>2. f = Shell => WriteForeground(f) = U8(0) /\ U8(0) = U8(0) \o <<>>
    BY <1>1, JoinedWithNone DEF WriteForeground, Shell
  <1>3. ASSUME NEW a, f = Program(a)
        PROVE  /\ WriteForeground(f) = U8(1) \o WriteVec(<<a>>, Str)
               /\ IsFields(WriteVec(<<a>>, Str)) /\ IsFields(WriteForeground(f))
    <2>1. WriteForeground(f) = U8(1) \o WriteVec(<<a>>, Str)
      BY <1>3 DEF WriteForeground, Program
    <2>2. PICK pieces :
             /\ WriteVec(<<a>>, Str) = U32(1) \o FlattenSeq(pieces)
             /\ IsFields(pieces) /\ Len(pieces) = 1 /\ pieces[1] = Str(a)
             /\ ArePieces(pieces, 1)
      BY ArgvIsWritten
    <2>3. IsFields(WriteVec(<<a>>, Str))
      BY <2>2, SequenceIsFields
    <2> QED
      BY <1>1, <2>1, <2>3, JoinedFields
  <1>4. ASSUME NEW reason, f = Unrecovered(reason)
        PROVE  /\ WriteForeground(f) = U8(2) \o WriteReason(RecoveryFailures, reason)
               /\ IsFields(WriteForeground(f))
    <2>1. WriteForeground(f) = U8(2) \o WriteReason(RecoveryFailures, reason)
      BY <1>4 DEF WriteForeground, Unrecovered
    <2> QED
      BY <1>1, <2>1, ReasonIsFields, JoinedFields
  <1>5. IsFields(WriteForeground(f))
    BY <1>1, <1>2, <1>3, <1>4 DEF IsForeground
  <1> QED
    BY <1>2, <1>3, <1>4, <1>5

LEMMA TagIsTaken ==
    ASSUME NEW n, NEW more, IsFields(more), NEW rest, IsFields(rest),
           NEW r, IsAt(r, (U8(n) \o more) \o rest)
    PROVE  /\ Runs(Take(r, "u8")) /\ Take(r, "u8").value = n
           /\ IsAt(Take(r, "u8"), more \o rest) /\ Take(r, "u8").got = r.got
  <1>1. IsFields(U8(n)) /\ IsFields(more \o rest)
    BY OneField, JoinedFields DEF U8
  <1>2. (U8(n) \o more) \o rest = U8(n) \o (more \o rest)
    BY <1>1, JoinedThrice
  <1>3. IsAt(r, <<[as |-> "u8", is |-> n]>> \o (more \o rest))
    BY <1>2 DEF U8
  <1> QED
    BY <1>1, <1>3, FieldIsTaken, StillRuns DEF HasRead

LEMMA ForegroundIsRead ==
    ASSUME NEW f, IsForeground(f), NEW rest, IsFields(rest),
           NEW r, IsAt(r, WriteForeground(f) \o rest)
    PROVE  HasRead(ReadForeground(r), f, rest)
  <1> DEFINE tag == Take(r, "u8")
             argv == SomeItem(Arguments(tag))
             reason == ReadReason(tag, RecoveryFailures)
  <1>1. ReadForeground(r) =
           IF ~ Runs(tag) THEN tag
           ELSE IF tag.value = 0 THEN Yield(tag, Shell)
           ELSE IF tag.value = 1 THEN Yield(argv, Program(argv.value[1]))
           ELSE IF tag.value = 2 THEN Yield(reason, Unrecovered(reason.value))
           ELSE Stop(tag, "InvalidTag")
    BY DEF ReadForeground, ReadNonEmpty, Arguments
  <1> HIDE DEF argv, reason
  <1>2. CASE f = Shell
    <2> DEFINE none == <<>>
    <2>0. none \o rest = rest
      BY JoinedWithNone
    <2>1. IsAt(r, (U8(0) \o none) \o rest) /\ IsFields(none)
      BY <1>2, ForegroundIsWritten, JoinedWithNone
    <2> HIDE DEF none
    <2>2. Runs(tag) /\ tag.value = 0 /\ IsAt(tag, none \o rest)
      BY <2>1, TagIsTaken
    <2> HIDE DEF tag
    <2>3. IsAt(tag, rest)
      BY <2>0, <2>2
    <2> QED
      BY <1>1, <1>2, <2>2, <2>3, ValueIsYielded
  <1>3. ASSUME NEW a, f = Program(a)
        PROVE  HasRead(ReadForeground(r), f, rest)
    <2> DEFINE more == WriteVec(<<a>>, Str)
    <2>1. IsAt(r, (U8(1) \o more) \o rest) /\ IsFields(more)
      BY <1>3, ForegroundIsWritten
    <2> HIDE DEF more
    <2>2. Runs(tag) /\ tag.value = 1 /\ IsAt(tag, more \o rest)
      BY <2>1, TagIsTaken
    <2> HIDE DEF tag
    <2>3. HasRead(argv, <<a>>, rest)
      BY <2>2, ArgvIsRead DEF argv, more
    <2>4. argv.value[1] = a /\ IsAt(argv, rest)
      BY <2>3 DEF HasRead
    <2>5. ReadForeground(r) = Yield(argv, f)
      BY <1>1, <1>3, <2>2, <2>4
    <2> QED
      BY <2>4, <2>5, ValueIsYielded
  <1>4. ASSUME NEW i \in 1..5, f = Unrecovered(RecoveryFailures[i])
        PROVE  HasRead(ReadForeground(r), f, rest)
    <2> DEFINE more == WriteReason(RecoveryFailures, RecoveryFailures[i])
    <2>1. IsAt(r, (U8(2) \o more) \o rest) /\ IsFields(more)
      BY <1>4, ForegroundIsWritten, ReasonIsFields
    <2> HIDE DEF more
    <2>2. Runs(tag) /\ tag.value = 2 /\ IsAt(tag, more \o rest)
      BY <2>1, TagIsTaken
    <2> HIDE DEF tag
    <2>3. HasRead(reason, RecoveryFailures[i], rest)
      BY <2>2, FailuresAre, ReasonIsRead DEF reason, more
    <2>4. reason.value = RecoveryFailures[i] /\ IsAt(reason, rest)
      BY <2>3 DEF HasRead
    <2>5. ReadForeground(r) = Yield(reason, f)
      BY <1>1, <1>4, <2>2, <2>4
    <2> QED
      BY <2>4, <2>5, ValueIsYielded
  <1> QED
    BY <1>2, <1>3, <1>4 DEF IsForeground
IsContent(c) ==
    \/ \E indicator, scrollback, visible : c = Captured(indicator, scrollback, visible)
    \/ \E i \in 1..2 : c = NotCaptured(ContentFailures[i])

IsWhole(text, blobs) == text \in DOMAIN blobs /\ blobs[text] = "whole"

\* The texts of a content are there.
IsThereFor(c, blobs) ==
    c.is = "captured" => IsWhole(c.scrollback, blobs) /\ IsWhole(c.visible, blobs)

AfterText(r, blobs) == Then(r, LAMBDA t : ReadText(t, blobs))

LEMMA TextIsRead ==
    ASSUME NEW text, NEW blobs, NEW isWhole, isWhole => IsWhole(text, blobs),
           NEW rest, IsFields(rest),
           NEW r, IsAt(r, Bytes(text) \o rest)
    PROVE  HasGot(AfterText(r, blobs), r, text, rest, isWhole)
  <1> DEFINE hash == Take(Fresh(r), "bytes")
  <1>1. HasRead(hash, text, rest)
    BY FreshIsAt, FieldIsTaken DEF Bytes
  <1>2. Runs(hash) /\ hash.value = text
    BY <1>1, StillRuns DEF HasRead
  <1>3. ReadText(Fresh(r), blobs) =
           IF ~ Runs(hash) THEN hash
           ELSE IF hash.value \notin DOMAIN blobs THEN Stop(hash, "BlobNotFound")
           ELSE StopUnless(blobs[hash.value] = "whole", hash, "Truncated")
    BY DEF ReadText
  <1>4. AfterText(r, blobs) = Got(r, ReadText(Fresh(r), blobs))
    BY DEF AfterText, Then, Fresh
  <1> HIDE DEF hash
  <1>5. \A error : error # "none" => ~ Runs(Stop(hash, error))
    <2>1. PICK value, got : hash = State(value, got, rest)
      BY <1>1 DEF HasRead, IsAt
    <2> QED
      BY <2>1 DEF Stop, Runs, State
  <1>6. Reads(ReadText(Fresh(r), blobs), text, rest, isWhole)
    <2>1. CASE IsWhole(text, blobs)
      BY <1>1, <1>2, <1>3, <2>1 DEF IsWhole, Reads, StopUnless
    <2>2. CASE ~ IsWhole(text, blobs)
      <3>1. ~ isWhole
        BY <2>2
      <3>2. \/ ReadText(Fresh(r), blobs) = Stop(hash, "BlobNotFound")
            \/ ReadText(Fresh(r), blobs) = Stop(hash, "Truncated")
        BY <1>2, <1>3, <2>2 DEF IsWhole, StopUnless
      <3> QED
        BY <1>5, <3>1, <3>2 DEF Reads
    <2> QED
      BY <2>1, <2>2
  <1> QED
    BY <1>4, <1>6, ItemIsGotOrStops

LEMMA NoTextOfStopped ==
    ASSUME NEW r, ~ Runs(r), NEW blobs
    PROVE  ~ Runs(AfterText(r, blobs))
  <1>1. ~ Runs(Fresh(r)) /\ Take(Fresh(r), "bytes") = Fresh(r)
    BY StoppedIsStopped
  <1>2. ReadText(Fresh(r), blobs) = Fresh(r)
    BY <1>1 DEF ReadText
  <1>3. AfterText(r, blobs) = Got(r, Fresh(r))
    BY <1>2 DEF AfterText, Then, Fresh
  <1> QED
    BY <1>1, <1>3, StoppedIsStopped

LEMMA CapturedIsRead ==
    ASSUME NEW indicator, NEW scrollback, NEW visible, NEW blobs, NEW isWhole,
           isWhole => IsWhole(scrollback, blobs) /\ IsWhole(visible, blobs),
           NEW rest, IsFields(rest),
           NEW r, IsAt(r, ((U64(indicator) \o Bytes(scrollback)) \o Bytes(visible)) \o rest)
    PROVE  Reads(ReadCaptured(r, blobs), Captured(indicator, scrollback, visible), rest, isWhole)
  <1> DEFINE a == U64(indicator)
             b == Bytes(scrollback)
             c == Bytes(visible)
             r1 == AfterU64(Fresh(r))
             r2 == AfterText(r1, blobs)
             r3 == AfterText(r2, blobs)
  <1>1. ReadCaptured(r, blobs) = AsCaptured(r3)
    BY DEF ReadCaptured, AfterU64, AfterText, Fresh
  <1>2. IsFields(a) /\ IsFields(b) /\ IsFields(c)
    BY OneField DEF U64, Bytes
  <1> HIDE DEF a, b, c
  <1>3. IsFields(a \o b) /\ IsFields(c \o rest) /\ IsFields(b \o (c \o rest))
    BY <1>2, JoinedFields
  <1>4. RegroupsFour(a, b, c, rest)
    BY <1>2, JoinedFour
  <1>6. IsAt(Fresh(r), a \o (b \o (c \o rest))) /\ Fresh(r).got = <<>>
    <2>1. IsAt(r, a \o (b \o (c \o rest)))
      BY <1>4 DEF RegroupsFour, a, b, c
    <2> QED
      BY <2>1, FreshIsAt
  <1>7. IsAt(r1, b \o (c \o rest)) /\ r1.got = Append(<<>>, indicator)
    BY <1>3, <1>6, NextU64 DEF a
  <1> HIDE DEF r1
  <1>8. HasGot(r2, r1, scrollback, c \o rest, isWhole)
    BY <1>3, <1>7, TextIsRead DEF b
  <1> HIDE DEF r2
  <1>9. CASE IsAt(r2, c \o rest) /\ r2.got = Append(r1.got, scrollback)
    <2>1. HasGot(r3, r2, visible, rest, isWhole)
      BY <1>9, TextIsRead DEF c
    <2> HIDE DEF r3
    <2>2. CASE IsAt(r3, rest) /\ r3.got = Append(r2.got, visible)
      <3>0. r3.got = Append(Append(Append(<<>>, indicator), scrollback), visible)
        BY <1>7, <1>9, <2>2
      <3>1. r3.got[1] = indicator /\ r3.got[2] = scrollback /\ r3.got[3] = visible
        BY <3>0
      <3>2. Captured(r3.got[1], r3.got[2], r3.got[3]) = Captured(indicator, scrollback, visible)
        BY <3>1
      <3>3. HasRead(AsCaptured(r3), Captured(indicator, scrollback, visible), rest)
        BY <2>2, <3>2, ValueIsYielded DEF AsCaptured
      <3> QED
        BY <1>1, <3>3 DEF Reads
    <2>3. CASE ~ isWhole /\ ~ Runs(r3)
      BY <1>1, <2>3, StoppedIsStopped DEF AsCaptured, Reads
    <2> QED
      BY <2>1, <2>2, <2>3 DEF HasGot
  <1>10. CASE ~ isWhole /\ ~ Runs(r2)
    <2>1. ~ Runs(r3)
      BY <1>10, NoTextOfStopped
    <2> HIDE DEF r3
    <2> QED
      BY <1>1, <1>10, <2>1, StoppedIsStopped DEF AsCaptured, Reads
  <1> QED
    BY <1>8, <1>9, <1>10 DEF HasGot

LEMMA ContentIsWritten ==
    ASSUME NEW c, IsContent(c)
    PROVE  /\ IsFields(WriteContent(c))
           /\ \A i, s, v : c = Captured(i, s, v) =>
                 /\ WriteContent(c) = U8(1) \o ((U64(i) \o Bytes(s)) \o Bytes(v))
                 /\ IsFields((U64(i) \o Bytes(s)) \o Bytes(v))
           /\ \A reason : c = NotCaptured(reason) =>
                 WriteContent(c) = U8(0) \o WriteReason(ContentFailures, reason)
  <1>1. \A n : IsFields(U8(n)) /\ IsFields(U64(n)) /\ IsFields(Bytes(n))
    BY OneField DEF U8, U64, Bytes
  <1>2. ASSUME NEW i, NEW s, NEW v, c = Captured(i, s, v)
        PROVE  /\ WriteContent(c) = U8(1) \o ((U64(i) \o Bytes(s)) \o Bytes(v))
               /\ IsFields((U64(i) \o Bytes(s)) \o Bytes(v))
               /\ IsFields(WriteContent(c))
    <2> DEFINE a == U8(1)
               b == U64(i)
               d == Bytes(s)
               e == Bytes(v)
    <2>1. WriteContent(c) = ((a \o b) \o d) \o e
      BY <1>2 DEF WriteContent, Captured
    <2>2. IsFields(a) /\ IsFields(b) /\ IsFields(d) /\ IsFields(e)
      BY <1>1
    <2> HIDE DEF a, b, d, e
    <2>3. RegroupsFour(a, b, d, e)
      BY <2>2, JoinedFour
    <2>4. (b \o d) \o e = b \o (d \o e)
      BY <2>2, JoinedThrice
    <2>5. IsFields(d \o e)
      BY <2>2, JoinedFields
    <2>6. IsFields(b \o (d \o e))
      BY <2>2, <2>5, JoinedFields
    <2>7. IsFields(a \o (b \o (d \o e)))
      BY <2>2, <2>6, JoinedFields
    <2>8. WriteContent(c) = a \o ((b \o d) \o e) /\ IsFields((b \o d) \o e)
      BY <2>1, <2>3, <2>4, <2>6 DEF RegroupsFour
    <2>9. IsFields(WriteContent(c))
      BY <2>1, <2>3, <2>7 DEF RegroupsFour
    <2> QED
      BY <2>8, <2>9 DEF a, b, d, e
  <1>3. ASSUME NEW reason, c = NotCaptured(reason)
        PROVE  /\ WriteContent(c) = U8(0) \o WriteReason(ContentFailures, reason)
               /\ IsFields(WriteContent(c))
    <2>1. WriteContent(c) = U8(0) \o WriteReason(ContentFailures, reason)
      BY <1>3 DEF WriteContent, NotCaptured
    <2> QED
      BY <1>1, <2>1, ReasonIsFields, JoinedFields
  <1>4. IsFields(WriteContent(c))
    BY <1>2, <1>3 DEF IsContent
  <1> QED
    BY <1>2, <1>3, <1>4

LEMMA ContentIsRead ==
    ASSUME NEW c, IsContent(c), NEW blobs, NEW isWhole, isWhole => IsThereFor(c, blobs),
           NEW rest, IsFields(rest),
           NEW r, IsAt(r, WriteContent(c) \o rest)
    PROVE  Reads(ReadContent(r, blobs), c, rest, isWhole)
  <1> DEFINE tag == Take(r, "u8")
             reason == ReadReason(tag, ContentFailures)
  <1>1. ReadContent(r, blobs) =
           IF ~ Runs(tag) THEN tag
           ELSE IF tag.value = 0 THEN Yield(reason, NotCaptured(reason.value))
           ELSE IF tag.value = 1 THEN ReadCaptured(tag, blobs)
           ELSE Stop(tag, "InvalidTag")
    BY DEF ReadContent
  <1> HIDE DEF reason
  <1>2. ASSUME NEW i, NEW s, NEW v, c = Captured(i, s, v)
        PROVE  Reads(ReadContent(r, blobs), c, rest, isWhole)
    <2> DEFINE more == (U64(i) \o Bytes(s)) \o Bytes(v)
    <2>0. WriteContent(c) = U8(1) \o more /\ IsFields(more)
      BY <1>2, ContentIsWritten
    <2> HIDE DEF more
    <2>1. IsAt(r, (U8(1) \o more) \o rest) /\ IsFields(more)
      BY <2>0
    <2>2. Runs(tag) /\ tag.value = 1 /\ IsAt(tag, more \o rest)
      BY <2>1, TagIsTaken
    <2> HIDE DEF tag
    <2>3. isWhole => IsWhole(s, blobs) /\ IsWhole(v, blobs)
      BY <1>2 DEF IsThereFor, Captured
    <2>4. Reads(ReadCaptured(tag, blobs), Captured(i, s, v), rest, isWhole)
      BY <2>2, <2>3, CapturedIsRead DEF more
    <2> QED
      BY <1>1, <1>2, <2>2, <2>4
  <1>3. ASSUME NEW i \in 1..2, c = NotCaptured(ContentFailures[i])
        PROVE  Reads(ReadContent(r, blobs), c, rest, isWhole)
    <2> DEFINE more == WriteReason(ContentFailures, ContentFailures[i])
    <2>1. IsAt(r, (U8(0) \o more) \o rest) /\ IsFields(more)
      BY <1>3, ContentIsWritten, ReasonIsFields
    <2> HIDE DEF more
    <2>2. Runs(tag) /\ tag.value = 0 /\ IsAt(tag, more \o rest)
      BY <2>1, TagIsTaken
    <2> HIDE DEF tag
    <2>3. HasRead(reason, ContentFailures[i], rest)
      BY <2>2, FailuresAre, ReasonIsRead DEF reason, more
    <2>4. reason.value = ContentFailures[i] /\ IsAt(reason, rest)
      BY <2>3 DEF HasRead
    <2>5. ReadContent(r, blobs) = Yield(reason, c)
      BY <1>1, <1>3, <2>2, <2>4
    <2> QED
      BY <2>4, <2>5, ValueIsYielded DEF Reads
  <1> QED
    BY <1>2, <1>3 DEF IsContent
\* The other items a record has, as one operator each.
AfterNameOption(r) == Then(r, LAMBDA g : ReadOption(g, TakeName))
AfterForeground(r) == Then(r, ReadForeground)
AfterContent(r, blobs) == Then(r, LAMBDA c : ReadContent(c, blobs))

LEMMA NextNameOption ==
    ASSUME NEW r, NEW option, IsNamed(option), NEW rest, IsFields(rest),
           IsAt(r, WriteOption(option, Str) \o rest)
    PROVE  IsAt(AfterNameOption(r), rest) /\ AfterNameOption(r).got = Append(r.got, option)
  <1>1. HasRead(NameOption(Fresh(r)), option, rest)
    BY FreshIsAt, NameOptionIsRead
  <1>2. AfterNameOption(r) = Got(r, NameOption(Fresh(r)))
    BY DEF AfterNameOption, NameOption, Then, Fresh
  <1> QED
    BY <1>1, <1>2, ItemIsGot

LEMMA NextForeground ==
    ASSUME NEW r, NEW f, IsForeground(f), NEW rest, IsFields(rest),
           IsAt(r, WriteForeground(f) \o rest)
    PROVE  IsAt(AfterForeground(r), rest) /\ AfterForeground(r).got = Append(r.got, f)
  <1>1. HasRead(ReadForeground(Fresh(r)), f, rest)
    BY FreshIsAt, ForegroundIsRead
  <1>2. AfterForeground(r) = Got(r, ReadForeground(Fresh(r)))
    BY DEF AfterForeground, Then, Fresh
  <1> QED
    BY <1>1, <1>2, ItemIsGot

LEMMA NextContent ==
    ASSUME NEW r, NEW c, IsContent(c), NEW blobs, NEW isWhole, isWhole => IsThereFor(c, blobs),
           NEW rest, IsFields(rest), IsAt(r, WriteContent(c) \o rest)
    PROVE  HasGot(AfterContent(r, blobs), r, c, rest, isWhole)
  <1>1. Reads(ReadContent(Fresh(r), blobs), c, rest, isWhole)
    BY FreshIsAt, ContentIsRead
  <1>2. AfterContent(r, blobs) = Got(r, ReadContent(Fresh(r), blobs))
    BY DEF AfterContent, Then, Fresh
  <1> QED
    BY <1>1, <1>2, ItemIsGotOrStops

\* Nor do these read on once stopped.
LEMMA NoneOfStopped ==
    ASSUME NEW r, ~ Runs(r), NEW blobs
    PROVE  ~ Runs(AfterNameOption(r)) /\ ~ Runs(AfterForeground(r)) /\ ~ Runs(AfterContent(r, blobs))
  <1> DEFINE s == Fresh(r)
  <1>1. ~ Runs(s) /\ Take(s, "u8") = s /\ Got(r, s) = s
    BY StoppedIsStopped
  <1> HIDE DEF s
  <1>2. NameOption(s) = s
    BY <1>1, OptionsAre, NoOptionOfStopped
  <1>3. ReadForeground(s) = s
    BY <1>1 DEF ReadForeground
  <1>4. ReadContent(s, blobs) = s
    BY <1>1 DEF ReadContent
  <1>5. AfterNameOption(r) = Got(r, NameOption(s))
    BY DEF AfterNameOption, NameOption, Then, Fresh, s
  <1>6. AfterForeground(r) = Got(r, ReadForeground(s))
    BY DEF AfterForeground, Then, Fresh, s
  <1>7. AfterContent(r, blobs) = Got(r, ReadContent(s, blobs))
    BY DEF AfterContent, Then, Fresh, s
  <1> QED
    BY <1>1, <1>2, <1>3, <1>4, <1>5, <1>6, <1>7

\* A record with these fields and no others.
HasFields(record, fields) == record = [f \in ToSet(fields) |-> record[f]]

PaneFields == <<"id", "index", "cwd", "foreground", "content">>

LEMMA PaneFieldsAre ==
    /\ PaneFields \in [1..5 -> ToSet(PaneFields)]
    /\ \A i, j \in 1..5 : PaneFields[i] = PaneFields[j] => i = j
    /\ PaneFields[1] = "id" /\ PaneFields[2] = "index" /\ PaneFields[3] = "cwd"
    /\ PaneFields[4] = "foreground" /\ PaneFields[5] = "content"
  <1>0. PaneFields = <<"id", "index", "cwd", "foreground", "content">>
    BY DEF PaneFields
  <1>1. PaneFields \in [1..5 -> ToSet(PaneFields)]
    <2>1. DOMAIN PaneFields = 1..5 /\ PaneFields = [i \in 1..5 |-> PaneFields[i]]
      BY <1>0
    <2> QED
      BY <2>1 DEF ToSet
  <1>3. /\ PaneFields[1] = "id" /\ PaneFields[2] = "index" /\ PaneFields[3] = "cwd"
        /\ PaneFields[4] = "foreground" /\ PaneFields[5] = "content"
    BY <1>0
  <1>2. \A i \in 1..5 : i = 1 \/ i = 2 \/ i = 3 \/ i = 4 \/ i = 5
    OBVIOUS
  <1> QED
    BY <1>1, <1>2, <1>3

IsPane(pane) ==
    /\ HasFields(pane, PaneFields) /\ IsNamed(pane.cwd)
    /\ IsForeground(pane.foreground) /\ IsContent(pane.content)

LEMMA PaneIsRead ==
    ASSUME NEW pane, IsPane(pane), NEW blobs, NEW isWhole,
           isWhole => IsThereFor(pane.content, blobs),
           NEW rest, IsFields(rest),
           NEW r, IsAt(r, EncodePane(pane) \o rest), r.got = <<>>
    PROVE  Reads(DecodePane(r, blobs), pane, rest, isWhole)
  <1> DEFINE a == U32(pane.id)
             b == U32(pane.index)
             c == WriteOption(pane.cwd, Str)
             d == WriteForeground(pane.foreground)
             e == WriteContent(pane.content)
             r1 == AfterU32(r)
             r2 == AfterU32(r1)
             r3 == AfterNameOption(r2)
             r4 == AfterForeground(r3)
             r5 == AfterContent(r4, blobs)
  <1>1. DecodePane(r, blobs) = AsRecord(r5, PaneFields)
    BY DEF DecodePane, AfterU32, AfterNameOption, AfterForeground, AfterContent, PaneFields
  <1>2. EncodePane(pane) = (((a \o b) \o c) \o d) \o e
    BY DEF EncodePane
  <1>3. IsFields(a) /\ IsFields(b) /\ IsFields(c) /\ IsFields(d) /\ IsFields(e)
    BY OneField, OptionsAreFields, ForegroundIsWritten, ContentIsWritten DEF U32, IsPane
  <1> HIDE DEF a, b, c, d, e, r1, r2, r3, r4, r5
  <1>4. IsFields(e \o rest)
    BY <1>3, JoinedFields
  <1>5. IsFields(d \o (e \o rest))
    BY <1>3, <1>4, JoinedFields
  <1>6. IsFields(c \o (d \o (e \o rest)))
    BY <1>3, <1>5, JoinedFields
  <1>7. IsFields(b \o (c \o (d \o (e \o rest))))
    BY <1>3, <1>6, JoinedFields
  <1>8. RegroupsSix(a, b, c, d, e, rest)
    BY <1>3, JoinedSix
  <1>9. IsAt(r, a \o (b \o (c \o (d \o (e \o rest)))))
    BY <1>2, <1>8 DEF RegroupsSix
  <1>10. IsAt(r1, b \o (c \o (d \o (e \o rest)))) /\ r1.got = Append(<<>>, pane.id)
    BY <1>7, <1>9, NextU32 DEF a, r1
  <1>11. IsAt(r2, c \o (d \o (e \o rest))) /\ r2.got = Append(r1.got, pane.index)
    BY <1>6, <1>10, NextU32 DEF b, r2
  <1>12. IsAt(r3, d \o (e \o rest)) /\ r3.got = Append(r2.got, pane.cwd)
    BY <1>5, <1>11, NextNameOption DEF c, r3, IsPane
  <1>13. IsAt(r4, e \o rest) /\ r4.got = Append(r3.got, pane.foreground)
    BY <1>4, <1>12, NextForeground DEF d, r4, IsPane
  <1>14. HasGot(r5, r4, pane.content, rest, isWhole)
    BY <1>13, NextContent DEF e, r5, IsPane
  <1>15. CASE IsAt(r5, rest) /\ r5.got = Append(r4.got, pane.content)
    <2>1. r5.got = Append(Append(Append(Append(Append(<<>>, pane.id), pane.index),
                       pane.cwd), pane.foreground), pane.content)
      BY <1>10, <1>11, <1>12, <1>13, <1>15
    <2>2. /\ r5.got[1] = pane.id /\ r5.got[2] = pane.index /\ r5.got[3] = pane.cwd
          /\ r5.got[4] = pane.foreground /\ r5.got[5] = pane.content
      BY <2>1
    <2>3. \A i \in 1..5 : pane[PaneFields[i]] = r5.got[i]
      <3>1. \A i \in 1..5 : i = 1 \/ i = 2 \/ i = 3 \/ i = 4 \/ i = 5
        OBVIOUS
      <3> QED
        BY <2>2, <3>1, PaneFieldsAre
    <2>4. pane = [f \in ToSet(PaneFields) |-> pane[f]]
      BY DEF IsPane, HasFields
    <2>5. HasRead(AsRecord(r5, PaneFields), pane, rest)
      BY <1>15, <2>3, <2>4, PaneFieldsAre, RecordIsMade
    <2> QED
      BY <1>1, <2>5 DEF Reads
  <1>16. CASE ~ isWhole /\ ~ Runs(r5)
    BY <1>1, <1>16, StoppedIsStopped DEF AsRecord, Reads
  <1> QED
    BY <1>14, <1>15, <1>16 DEF HasGot

LEMMA NoPaneOfStopped ==
    ASSUME NEW r, ~ Runs(r), NEW blobs
    PROVE  ~ Runs(DecodePane(r, blobs))
  <1> DEFINE r2 == AfterU32(AfterU32(r))
             r3 == AfterNameOption(r2)
             r4 == AfterForeground(r3)
             r5 == AfterContent(r4, blobs)
  <1>1. DecodePane(r, blobs) = AsRecord(r5, PaneFields)
    BY DEF DecodePane, AfterU32, AfterNameOption, AfterForeground, AfterContent, PaneFields
  <1>2. ~ Runs(r2)
    BY NothingAfterStopped
  <1> HIDE DEF r2
  <1>3. ~ Runs(r3)
    BY <1>2, NoneOfStopped
  <1> HIDE DEF r3
  <1>4. ~ Runs(r4)
    BY <1>3, NoneOfStopped
  <1> HIDE DEF r4
  <1>5. ~ Runs(r5)
    BY <1>4, NoneOfStopped
  <1> HIDE DEF r5
  <1> QED
    BY <1>1, <1>5, StoppedIsStopped DEF AsRecord

\* What is written of a pane is fields.
LEMMA PaneIsFields ==
    ASSUME NEW pane, IsPane(pane)
    PROVE  IsFields(EncodePane(pane))
  <1> DEFINE a == U32(pane.id)
             b == U32(pane.index)
             c == WriteOption(pane.cwd, Str)
             d == WriteForeground(pane.foreground)
             e == WriteContent(pane.content)
  <1>1. EncodePane(pane) = (((a \o b) \o c) \o d) \o e
    BY DEF EncodePane
  <1>2. IsFields(a) /\ IsFields(b) /\ IsFields(c) /\ IsFields(d) /\ IsFields(e)
    BY OneField, OptionsAreFields, ForegroundIsWritten, ContentIsWritten DEF U32, IsPane
  <1> HIDE DEF a, b, c, d, e
  <1>3. IsFields(a \o b)
    BY <1>2, JoinedFields
  <1>4. IsFields((a \o b) \o c)
    BY <1>2, <1>3, JoinedFields
  <1>5. IsFields(((a \o b) \o c) \o d)
    BY <1>2, <1>4, JoinedFields
  <1> QED
    BY <1>1, <1>2, <1>5, JoinedFields
-----------------------------------------------------------------------------
(***************************************************************************)
(* Windows.                                                                *)
(***************************************************************************)
IsStamp(made) == made = None \/ \E seconds, nanos : made = <<seconds, nanos>>

WriteMade(made) == IF made = None THEN U8(0) ELSE U8(1) \o WriteStamp(made)

LEMMA MadeIsRead ==
    ASSUME NEW made, IsStamp(made), NEW rest, IsFields(rest),
           NEW r, IsAt(r, WriteMade(made) \o rest), r.got = <<>>
    PROVE  HasRead(ReadMade(r), made, rest)
  <1> DEFINE option == IF made = None THEN None ELSE Some(made)
             fields == WriteStamp(made)
             tag == Take(r, "u8")
             a == I64(made[1])
             b == U32(made[2])
  <1>1. WriteMade(made) = OptionFields(option, fields) /\ IsOption(option)
    BY DEF WriteMade, OptionFields, None, Some, IsOption
  <1>2. IsFields(a) /\ IsFields(b)
    BY OneField DEF I64, U32
  <1>3. fields = a \o b
    BY DEF WriteStamp
  <1> HIDE DEF a, b, fields
  <1>4. IsFields(fields) /\ IsFields(b \o rest) /\ (a \o b) \o rest = a \o (b \o rest)
    BY <1>2, <1>3, JoinedFields, JoinedThrice
  <1>5. ASSUME option # None, IsAt(tag, fields \o rest), tag.got = r.got
        PROVE  HasRead(ReadStamp(tag), option[1], rest)
    <2> DEFINE r1 == AfterI64(tag)
               r2 == AfterU32(r1)
    <2>1. ReadStamp(tag) = AsSeq(r2)
      BY DEF ReadStamp, AfterI64, AfterU32
    <2> HIDE DEF tag
    <2>2. IsAt(r1, b \o rest) /\ r1.got = Append(<<>>, made[1])
      BY <1>3, <1>4, <1>5, NextI64 DEF a
    <2> HIDE DEF r1
    <2>3. IsAt(r2, rest) /\ r2.got = Append(r1.got, made[2])
      BY <2>2, NextU32 DEF b
    <2> HIDE DEF r2
    <2>4. HasRead(AsSeq(r2), r2.got, rest)
      BY <2>3, SeqIsMade
    <2>5. option = Some(made) /\ made # None
      BY <1>5
    <2>6. PICK seconds, nanos : made = <<seconds, nanos>>
      BY <2>5 DEF IsStamp
    <2>7. r2.got = Append(Append(<<>>, made[1]), made[2])
      BY <2>2, <2>3
    <2>8. r2.got = made
      <3>1. made[1] = seconds /\ made[2] = nanos
        BY <2>6
      <3>2. Append(Append(<<>>, seconds), nanos) = <<seconds, nanos>>
        <4> DEFINE both == Append(Append(<<>>, seconds), nanos)
        <4>1. both \in Seq({seconds, nanos}) /\ Len(both) = 2
          OBVIOUS
        <4>2. both[1] = seconds /\ both[2] = nanos
          OBVIOUS
        <4> HIDE DEF both
        <4>3. both = <<both[1], both[2]>>
          BY <4>1
        <4> QED
          BY <4>2, <4>3 DEF both
      <3> QED
        BY <2>6, <2>7, <3>1, <3>2
    <2>9. option[1] = made
      BY <2>5 DEF Some
    <2> QED
      BY <2>1, <2>4, <2>8, <2>9
  <1> HIDE DEF option
  <1>6. HasRead(OptionOf(tag, ReadStamp(tag)), option, rest)
    BY <1>1, <1>4, <1>5, OptionIsRead
  <1>7. HasRead(StampOption(r), option, rest)
    BY <1>6, OptionsAre
  <1> DEFINE read == StampOption(r)
  <1>8. ReadMade(r) = StampOrNone(read)
    BY DEF ReadMade, StampOption
  <1> HIDE DEF read
  <1>9. Runs(read) /\ read.value = option /\ IsAt(read, rest)
    BY <1>7, StillRuns DEF HasRead, read
  <1>10. CASE made = None
    <2>1. option = None
      BY <1>10 DEF option
    <2> QED
      BY <1>8, <1>9, <1>10, <2>1 DEF StampOrNone, HasRead
  <1>11. CASE made # None
    <2>1. option = Some(made) /\ Some(made) # None /\ Some(made)[1] = made
      BY <1>11 DEF option, Some, None
    <2>2. StampOrNone(read) = Yield(read, made)
      BY <1>9, <2>1 DEF StampOrNone
    <2> QED
      BY <1>8, <1>9, <2>2, ValueIsYielded
  <1> QED
    BY <1>10, <1>11

LEMMA ZoomedIsRead ==
    ASSUME NEW zoomed \in BOOLEAN, NEW rest, IsFields(rest),
           NEW r, IsAt(r, U8(IF zoomed THEN 1 ELSE 0) \o rest)
    PROVE  HasRead(ReadZoomed(r), zoomed, rest)
  <1> DEFINE n == IF zoomed THEN 1 ELSE 0
             tag == Take(r, "u8")
  <1>1. HasRead(tag, n, rest)
    BY FieldIsTaken DEF U8
  <1> HIDE DEF tag
  <1>2. Runs(tag) /\ tag.value = n /\ IsAt(tag, rest)
    BY <1>1, StillRuns DEF HasRead
  <1>3. ReadZoomed(r) = Yield(tag, tag.value = 1)
    BY <1>2 DEF ReadZoomed, tag
  <1>4. CASE zoomed = TRUE
    <2>1. n = 1
      BY <1>4
    <2>2. (tag.value = 1) = TRUE
      BY <1>2, <2>1
    <2>3. ReadZoomed(r) = Yield(tag, TRUE)
      BY <1>3, <2>2, Zenon
    <2>4. HasRead(Yield(tag, TRUE), TRUE, rest)
      BY <1>2, ValueIsYielded
    <2> QED
      BY <1>4, <2>3, <2>4, Zenon
  <1>5. CASE zoomed = FALSE
    <2>1. n = 0
      BY <1>5
    <2>2. (tag.value = 1) = FALSE
      BY <1>2, <2>1
    <2>3. ReadZoomed(r) = Yield(tag, FALSE)
      BY <1>3, <2>2, Zenon
    <2>4. HasRead(Yield(tag, FALSE), FALSE, rest)
      BY <1>2, ValueIsYielded
    <2> QED
      BY <1>5, <2>3, <2>4, Zenon
  <1> QED
    BY <1>4, <1>5

AfterMade(r) == Then(r, ReadMade)
AfterZoomed(r) == Then(r, ReadZoomed)
AfterPanes(r, blobs) ==
    Then(r, LAMBDA p : ReadNonEmpty(p, LAMBDA q : DecodePane(q, blobs)))

ArePanes(panes) == IsFields(panes) /\ \A i \in DOMAIN panes : IsPane(panes[i])

AreThereFor(panes, blobs) == \A i \in DOMAIN panes : IsThereFor(panes[i].content, blobs)

LEMMA PanesAreWritten ==
    ASSUME NEW panes, ArePanes(panes)
    PROVE  /\ IsFields(WriteVec(panes, EncodePane))
           /\ \E pieces :
                 /\ WriteVec(panes, EncodePane) = U32(Len(panes)) \o FlattenSeq(pieces)
                 /\ IsFields(pieces) /\ Len(pieces) = Len(panes)
                 /\ ArePieces(pieces, Len(panes))
                 /\ \A k \in 1 .. Len(panes) : pieces[k] = EncodePane(panes[k])
  <1> DEFINE n == Len(panes)
             pieces == [i \in DOMAIN panes |-> EncodePane(panes[i])]
  <1>1. n \in Nat /\ DOMAIN panes = 1..n
    BY FieldsAreSeq DEF ArePanes
  <1>2. WriteVec(panes, EncodePane) = U32(n) \o FlattenSeq(pieces)
    BY DEF WriteVec
  <1>3. \A k \in 1..n : pieces[k] = EncodePane(panes[k])
    BY <1>1
  <1>4. \A k \in 1..n : IsFields(pieces[k])
    BY <1>1, <1>3, PaneIsFields DEF ArePanes
  <1> HIDE DEF n
  <1>5. pieces \in Seq({pieces[k] : k \in 1..n}) /\ Len(pieces) = n
    BY <1>1
  <1> HIDE DEF pieces
  <1>6. IsFields(pieces) /\ ArePieces(pieces, n)
    BY <1>4, <1>5 DEF IsFields, ArePieces
  <1>7. IsFields(U32(n) \o FlattenSeq(pieces))
    BY <1>1, <1>5, <1>6, SequenceIsFields
  <1> QED
    BY <1>2, <1>3, <1>5, <1>6, <1>7 DEF n

LEMMA NextPanes ==
    ASSUME NEW panes, ArePanes(panes), panes # <<>>, NEW blobs,
           NEW isWhole, isWhole => AreThereFor(panes, blobs),
           NEW rest, IsFields(rest),
           NEW r, IsAt(r, WriteVec(panes, EncodePane) \o rest)
    PROVE  HasGot(AfterPanes(r, blobs), r, panes, rest, isWhole)
  <1> DEFINE s == Fresh(r)
             n == Len(panes)
  <1>1. PICK pieces :
           /\ WriteVec(panes, EncodePane) = U32(Len(panes)) \o FlattenSeq(pieces)
           /\ IsFields(pieces) /\ Len(pieces) = Len(panes)
           /\ ArePieces(pieces, Len(panes))
           /\ \A k \in 1 .. Len(panes) : pieces[k] = EncodePane(panes[k])
    BY PanesAreWritten
  <1>2. n \in Nat /\ DOMAIN panes = 1..n
    BY FieldsAreSeq DEF ArePanes
  <1>3. PICK X : panes \in Seq(X)
    BY DEF ArePanes, IsFields
  <1>4. \A t : ~ Runs(t) => ~ Runs(ItemOf("pane", t, blobs))
    BY NoPaneOfStopped DEF ItemOf
  <1>5. ASSUME NEW k \in 1..n, NEW t, NEW left,
               IsFields(left), IsAt(t, pieces[k] \o left), t.got = <<>>
        PROVE  Reads(ItemOf("pane", t, blobs), panes[k], left, isWhole)
    <2>1. IsPane(panes[k]) /\ (isWhole => IsThereFor(panes[k].content, blobs))
      BY <1>2 DEF ArePanes, AreThereFor
    <2>2. IsAt(t, EncodePane(panes[k]) \o left)
      BY <1>1, <1>5
    <2>3. Reads(DecodePane(t, blobs), panes[k], left, isWhole)
      BY <1>5, <2>1, <2>2, PaneIsRead
    <2> QED
      BY <2>3 DEF ItemOf
  <1>6. IsVecOf(Panes(s, blobs), s, "pane", blobs)
    BY PanesAreItems
  <1>7. IsAt(s, (U32(n) \o FlattenSeq(pieces)) \o rest)
    BY <1>1, FreshIsAt
  <1> DEFINE vec == Panes(s, blobs)
  <1> HIDE DEF s, n, vec
  <1>8. Reads(vec, panes, rest, isWhole)
    BY <1>1, <1>2, <1>3, <1>4, <1>5, <1>6, <1>7, SequenceIsRead DEF n, vec
  <1>9. Reads(SomeItem(vec), panes, rest, isWhole)
    BY <1>8, SomeItemIsRead
  <1>10. AfterPanes(r, blobs) = Got(r, SomeItem(vec))
    BY DEF AfterPanes, Then, Fresh, ReadNonEmpty, Panes, s, vec
  <1> QED
    BY <1>9, <1>10, ItemIsGotOrStops

LEMMA NoneOfStoppedWindow ==
    ASSUME NEW r, ~ Runs(r), NEW blobs
    PROVE  ~ Runs(AfterMade(r)) /\ ~ Runs(AfterZoomed(r)) /\ ~ Runs(AfterPanes(r, blobs))
  <1> DEFINE s == Fresh(r)
  <1>1. ~ Runs(s) /\ Take(s, "u8") = s /\ Got(r, s) = s
    BY StoppedIsStopped
  <1> HIDE DEF s
  <1>2. ReadMade(s) = s
    <2>1. StampOption(s) = s
      BY <1>1, OptionsAre, NoOptionOfStopped
    <2>2. ReadMade(s) = StampOrNone(StampOption(s))
      BY DEF ReadMade, StampOption
    <2> QED
      BY <1>1, <2>1, <2>2 DEF StampOrNone
  <1>3. ~ Runs(ReadZoomed(s))
    BY <1>1 DEF ReadZoomed, Stop
  <1>4. SomeItem(Panes(s, blobs)) = s
    BY <1>1, PanesAreItems, StoppedHasNoItems
  <1>5. AfterMade(r) = Got(r, ReadMade(s))
    BY DEF AfterMade, Then, Fresh, s
  <1>6. AfterZoomed(r) = Got(r, ReadZoomed(s))
    BY DEF AfterZoomed, Then, Fresh, s
  <1>7. AfterPanes(r, blobs) = Got(r, SomeItem(Panes(s, blobs)))
    BY DEF AfterPanes, Then, Fresh, ReadNonEmpty, Panes, s
  <1>8. \A t : ~ Runs(t) => ~ Runs(Got(r, t))
    BY StoppedIsStopped
  <1> QED
    BY <1>1, <1>2, <1>3, <1>4, <1>5, <1>6, <1>7, <1>8

WindowFields == <<"id", "made", "name", "layout", "zoomed", "panes", "active">>

LEMMA WindowFieldsAre ==
    /\ WindowFields \in [1..7 -> ToSet(WindowFields)]
    /\ \A i, j \in 1..7 : WindowFields[i] = WindowFields[j] => i = j
    /\ WindowFields[1] = "id" /\ WindowFields[2] = "made" /\ WindowFields[3] = "name"
    /\ WindowFields[4] = "layout" /\ WindowFields[5] = "zoomed"
    /\ WindowFields[6] = "panes" /\ WindowFields[7] = "active"
  <1>1. WindowFields = <<"id", "made", "name", "layout", "zoomed", "panes", "active">>
    BY DEF WindowFields
  <1>2. WindowFields \in [1..7 -> ToSet(WindowFields)]
    <2>1. DOMAIN WindowFields = 1..7 /\ WindowFields = [i \in 1..7 |-> WindowFields[i]]
      BY <1>1
    <2> QED
      BY <2>1 DEF ToSet
  <1>3. /\ WindowFields[1] = "id" /\ WindowFields[2] = "made" /\ WindowFields[3] = "name"
        /\ WindowFields[4] = "layout" /\ WindowFields[5] = "zoomed"
        /\ WindowFields[6] = "panes" /\ WindowFields[7] = "active"
    BY <1>1
  <1>4. \A i \in 1..7 : i = 1 \/ i = 2 \/ i = 3 \/ i = 4 \/ i = 5 \/ i = 6 \/ i = 7
    OBVIOUS
  <1> QED
    BY <1>2, <1>3, <1>4

IsWindowData(w) ==
    /\ HasFields(w, WindowFields) /\ IsStamp(w.made)
    /\ w.name # 0 /\ w.layout # 0 /\ w.zoomed \in BOOLEAN
    /\ ArePanes(w.panes) /\ IsWindow(w)

LEMMA WindowIsFields ==
    ASSUME NEW w, IsWindowData(w)
    PROVE  /\ IsFields(EncodeWindow(w))
           /\ IsFields(WriteMade(w.made)) /\ IsFields(WriteVec(w.panes, EncodePane))
  <1> DEFINE a == U32(w.id)
             b == WriteMade(w.made)
             c == Str(w.name)
             d == Str(w.layout)
             e == U8(IF w.zoomed THEN 1 ELSE 0)
             f == WriteVec(w.panes, EncodePane)
             g == U32(w.active)
  <1>1. EncodeWindow(w) = (((((a \o b) \o c) \o d) \o e) \o f) \o g
    BY DEF EncodeWindow, WriteMade
  <1>2. IsFields(a) /\ IsFields(c) /\ IsFields(d) /\ IsFields(e) /\ IsFields(f) /\ IsFields(g)
    BY OneField, PanesAreWritten DEF U32, Str, U8, IsWindowData
  <1>3. IsFields(b)
    <2>1. IsFields(I64(w.made[1])) /\ IsFields(U32(w.made[2]))
      BY OneField DEF I64, U32
    <2>2. IsFields(WriteStamp(w.made))
      BY <2>1, JoinedFields DEF WriteStamp
    <2>3. IsFields(U8(0)) /\ IsFields(U8(1))
      BY OneField DEF U8
    <2> QED
      BY <2>2, <2>3, JoinedFields DEF WriteMade
  <1>10. IsFields(WriteMade(w.made)) /\ IsFields(WriteVec(w.panes, EncodePane))
    BY <1>2, <1>3
  <1> HIDE DEF a, b, c, d, e, f, g
  <1>4. IsFields(a \o b)
    BY <1>2, <1>3, JoinedFields
  <1>5. IsFields((a \o b) \o c)
    BY <1>2, <1>4, JoinedFields
  <1>6. IsFields(((a \o b) \o c) \o d)
    BY <1>2, <1>5, JoinedFields
  <1>7. IsFields((((a \o b) \o c) \o d) \o e)
    BY <1>2, <1>6, JoinedFields
  <1>8. IsFields(((((a \o b) \o c) \o d) \o e) \o f)
    BY <1>2, <1>7, JoinedFields
  <1>9. IsFields(EncodeWindow(w))
    BY <1>1, <1>2, <1>8, JoinedFields
  <1> QED
    BY <1>9, <1>10

LEMMA NextMade ==
    ASSUME NEW r, NEW made, IsStamp(made), NEW rest, IsFields(rest),
           IsAt(r, WriteMade(made) \o rest)
    PROVE  IsAt(AfterMade(r), rest) /\ AfterMade(r).got = Append(r.got, made)
  <1>1. HasRead(ReadMade(Fresh(r)), made, rest)
    BY FreshIsAt, MadeIsRead
  <1>2. AfterMade(r) = Got(r, ReadMade(Fresh(r)))
    BY DEF AfterMade, Then, Fresh
  <1> QED
    BY <1>1, <1>2, ItemIsGot

LEMMA NextZoomed ==
    ASSUME NEW r, NEW zoomed \in BOOLEAN, NEW rest, IsFields(rest),
           IsAt(r, U8(IF zoomed THEN 1 ELSE 0) \o rest)
    PROVE  IsAt(AfterZoomed(r), rest) /\ AfterZoomed(r).got = Append(r.got, zoomed)
  <1>1. HasRead(ReadZoomed(Fresh(r)), zoomed, rest)
    BY FreshIsAt, ZoomedIsRead
  <1>2. AfterZoomed(r) = Got(r, ReadZoomed(Fresh(r)))
    BY DEF AfterZoomed, Then, Fresh
  <1> QED
    BY <1>1, <1>2, ItemIsGot

LEMMA ResolvedWindow ==
    ASSUME NEW w, IsWindow(w), NEW rest, NEW r, NEW isWhole, Reads(r, w, rest, isWhole)
    PROVE  Reads(Resolved(r, IsWindow), w, rest, isWhole)
  <1>1. CASE HasRead(r, w, rest)
    <2>1. Resolved(r, IsWindow) = r
      BY <1>1 DEF Resolved, StopUnless, HasRead
    <2> QED
      BY <1>1, <2>1 DEF Reads
  <1>2. CASE ~ isWhole /\ ~ Runs(r)
    <2>1. Resolved(r, IsWindow) = r
      BY <1>2 DEF Resolved, StopUnless
    <2> QED
      BY <1>2, <2>1 DEF Reads
  <1> QED
    BY <1>1, <1>2 DEF Reads

LEMMA WindowIsRead ==
    ASSUME NEW w, IsWindowData(w), NEW blobs, NEW isWhole,
           isWhole => AreThereFor(w.panes, blobs),
           NEW rest, IsFields(rest),
           NEW r, IsAt(r, EncodeWindow(w) \o rest), r.got = <<>>
    PROVE  Reads(DecodeWindow(r, blobs), w, rest, isWhole)
  <1> DEFINE a == U32(w.id)
             b == WriteMade(w.made)
             c == Str(w.name)
             d == Str(w.layout)
             e == U8(IF w.zoomed THEN 1 ELSE 0)
             f == WriteVec(w.panes, EncodePane)
             g == U32(w.active)
             r1 == AfterU32(r)
             r2 == AfterMade(r1)
             r3 == AfterName(r2)
             r4 == AfterName(r3)
             r5 == AfterZoomed(r4)
             r6 == AfterPanes(r5, blobs)
             r7 == AfterU32(r6)
  <1>1. DecodeWindow(r, blobs) = Resolved(AsRecord(r7, WindowFields), IsWindow)
    BY DEF DecodeWindow, AfterU32, AfterMade, AfterName, AfterZoomed, AfterPanes, WindowFields
  <1>2. EncodeWindow(w) = (((((a \o b) \o c) \o d) \o e) \o f) \o g
    BY DEF EncodeWindow, WriteMade
  <1>3. /\ IsFields(a) /\ IsFields(b) /\ IsFields(c) /\ IsFields(d) /\ IsFields(e)
        /\ IsFields(f) /\ IsFields(g)
    BY OneField, WindowIsFields DEF U32, Str, U8
  <1>0. /\ IsStamp(w.made) /\ w.name # 0 /\ w.layout # 0 /\ w.zoomed \in BOOLEAN
        /\ ArePanes(w.panes) /\ w.panes # <<>> /\ IsWindow(w)
    BY DEF IsWindowData, IsWindow
  <1> HIDE DEF a, b, c, d, e, f, g, r1, r2, r3, r4, r5, r6, r7
  <1>4. IsFields(g \o rest)
    BY <1>3, JoinedFields
  <1>5. IsFields(f \o (g \o rest))
    BY <1>3, <1>4, JoinedFields
  <1>6. IsFields(e \o (f \o (g \o rest)))
    BY <1>3, <1>5, JoinedFields
  <1>7. IsFields(d \o (e \o (f \o (g \o rest))))
    BY <1>3, <1>6, JoinedFields
  <1>8. IsFields(c \o (d \o (e \o (f \o (g \o rest)))))
    BY <1>3, <1>7, JoinedFields
  <1>9. IsFields(b \o (c \o (d \o (e \o (f \o (g \o rest))))))
    BY <1>3, <1>8, JoinedFields
  <1>10. RegroupsEight(a, b, c, d, e, f, g, rest)
    BY <1>3, JoinedEight
  <1>11. IsAt(r, a \o (b \o (c \o (d \o (e \o (f \o (g \o rest)))))))
    BY <1>2, <1>10 DEF RegroupsEight
  <1>12. IsAt(r1, b \o (c \o (d \o (e \o (f \o (g \o rest)))))) /\ r1.got = Append(<<>>, w.id)
    BY <1>9, <1>11, NextU32 DEF a, r1
  <1>13. IsAt(r2, c \o (d \o (e \o (f \o (g \o rest))))) /\ r2.got = Append(r1.got, w.made)
    BY <1>0, <1>8, <1>12, NextMade DEF b, r2
  <1>14. IsAt(r3, d \o (e \o (f \o (g \o rest)))) /\ r3.got = Append(r2.got, w.name)
    BY <1>0, <1>7, <1>13, NextName DEF c, r3
  <1>15. IsAt(r4, e \o (f \o (g \o rest))) /\ r4.got = Append(r3.got, w.layout)
    BY <1>0, <1>6, <1>14, NextName DEF d, r4
  <1>16. IsAt(r5, f \o (g \o rest)) /\ r5.got = Append(r4.got, w.zoomed)
    BY <1>0, <1>5, <1>15, NextZoomed DEF e, r5
  <1>17. HasGot(r6, r5, w.panes, g \o rest, isWhole)
    BY <1>0, <1>4, <1>16, NextPanes DEF f, r6
  <1>18. CASE IsAt(r6, g \o rest) /\ r6.got = Append(r5.got, w.panes)
    <2>1. IsAt(r7, rest) /\ r7.got = Append(r6.got, w.active)
      BY <1>18, NextU32 DEF g, r7
    <2>2. r7.got = Append(Append(Append(Append(Append(Append(Append(<<>>, w.id), w.made),
                       w.name), w.layout), w.zoomed), w.panes), w.active)
      BY <1>12, <1>13, <1>14, <1>15, <1>16, <1>18, <2>1
    <2>3. /\ r7.got[1] = w.id /\ r7.got[2] = w.made /\ r7.got[3] = w.name
          /\ r7.got[4] = w.layout /\ r7.got[6] = w.panes /\ r7.got[7] = w.active
      BY <2>2
    <2>4. r7.got[5] = w.zoomed
      BY <2>2
    <2>5. \A i \in 1..7 : w[WindowFields[i]] = r7.got[i]
      <3>1. \A i \in 1..7 : i = 1 \/ i = 2 \/ i = 3 \/ i = 4 \/ i = 5 \/ i = 6 \/ i = 7
        OBVIOUS
      <3> QED
        BY <2>3, <2>4, <3>1, WindowFieldsAre
    <2>6. w = [x \in ToSet(WindowFields) |-> w[x]]
      BY DEF IsWindowData, HasFields
    <2>7. HasRead(AsRecord(r7, WindowFields), w, rest)
      BY <2>1, <2>5, <2>6, WindowFieldsAre, RecordIsMade
    <2> QED
      BY <1>0, <1>1, <2>7, ResolvedWindow DEF Reads
  <1>19. CASE ~ isWhole /\ ~ Runs(r6)
    <2>1. ~ Runs(r7)
      BY <1>19, NothingAfterStopped DEF r7
    <2>2. AsRecord(r7, WindowFields) = r7
      BY <2>1, StoppedIsStopped DEF AsRecord
    <2>3. Resolved(r7, IsWindow) = r7
      BY <2>1 DEF Resolved, StopUnless
    <2> QED
      BY <1>1, <1>19, <2>1, <2>2, <2>3 DEF Reads
  <1> QED
    BY <1>17, <1>18, <1>19 DEF HasGot

LEMMA NoWindowOfStopped ==
    ASSUME NEW r, ~ Runs(r), NEW blobs
    PROVE  ~ Runs(DecodeWindow(r, blobs))
  <1> DEFINE r1 == AfterU32(r)
             r2 == AfterMade(r1)
             r4 == AfterName(AfterName(r2))
             r5 == AfterZoomed(r4)
             r6 == AfterPanes(r5, blobs)
             r7 == AfterU32(r6)
  <1>1. DecodeWindow(r, blobs) = Resolved(AsRecord(r7, WindowFields), IsWindow)
    BY DEF DecodeWindow, AfterU32, AfterMade, AfterName, AfterZoomed, AfterPanes, WindowFields
  <1>2. ~ Runs(r1)
    BY NothingAfterStopped
  <1> HIDE DEF r1
  <1>3. ~ Runs(r2)
    BY <1>2, NoneOfStoppedWindow
  <1> HIDE DEF r2
  <1>4. ~ Runs(r4)
    BY <1>3, NothingAfterStopped
  <1> HIDE DEF r4
  <1>5. ~ Runs(r5)
    BY <1>4, NoneOfStoppedWindow
  <1> HIDE DEF r5
  <1>6. ~ Runs(r6)
    BY <1>5, NoneOfStoppedWindow
  <1> HIDE DEF r6
  <1>7. ~ Runs(r7)
    BY <1>6, NothingAfterStopped
  <1> HIDE DEF r7
  <1>8. AsRecord(r7, WindowFields) = r7
    BY <1>7, StoppedIsStopped DEF AsRecord
  <1>9. Resolved(r7, IsWindow) = r7
    BY <1>7 DEF Resolved, StopUnless
  <1> QED
    BY <1>1, <1>7, <1>8, <1>9
-----------------------------------------------------------------------------
(***************************************************************************)
(* Sessions and clients.                                                   *)
(***************************************************************************)
LinkFields == <<"index", "window">>
ClientFields == <<"name", "session">>
SessionFields == <<"name", "group", "links", "active", "last">>

LEMMA LinkFieldsAre ==
    /\ LinkFields \in [1..2 -> ToSet(LinkFields)]
    /\ \A i, j \in 1..2 : LinkFields[i] = LinkFields[j] => i = j
    /\ LinkFields[1] = "index"
    /\ LinkFields[2] = "window"
  <1>1. LinkFields = <<"index", "window">>
    BY DEF LinkFields
  <1>2. LinkFields \in [1..2 -> ToSet(LinkFields)]
    <2>1. DOMAIN LinkFields = 1..2 /\ LinkFields = [i \in 1..2 |-> LinkFields[i]]
      BY <1>1
    <2> QED
      BY <2>1 DEF ToSet
  <1>3. /\ LinkFields[1] = "index"
        /\ LinkFields[2] = "window"
    BY <1>1
  <1>4. \A i \in 1..2 : i = 1 \/ i = 2
    OBVIOUS
  <1> QED
    BY <1>2, <1>3, <1>4

LEMMA ClientFieldsAre ==
    /\ ClientFields \in [1..2 -> ToSet(ClientFields)]
    /\ \A i, j \in 1..2 : ClientFields[i] = ClientFields[j] => i = j
    /\ ClientFields[1] = "name"
    /\ ClientFields[2] = "session"
  <1>1. ClientFields = <<"name", "session">>
    BY DEF ClientFields
  <1>2. ClientFields \in [1..2 -> ToSet(ClientFields)]
    <2>1. DOMAIN ClientFields = 1..2 /\ ClientFields = [i \in 1..2 |-> ClientFields[i]]
      BY <1>1
    <2> QED
      BY <2>1 DEF ToSet
  <1>3. /\ ClientFields[1] = "name"
        /\ ClientFields[2] = "session"
    BY <1>1
  <1>4. \A i \in 1..2 : i = 1 \/ i = 2
    OBVIOUS
  <1> QED
    BY <1>2, <1>3, <1>4

LEMMA SessionFieldsAre ==
    /\ SessionFields \in [1..5 -> ToSet(SessionFields)]
    /\ \A i, j \in 1..5 : SessionFields[i] = SessionFields[j] => i = j
    /\ SessionFields[1] = "name"
    /\ SessionFields[2] = "group"
    /\ SessionFields[3] = "links"
    /\ SessionFields[4] = "active"
    /\ SessionFields[5] = "last"
  <1>1. SessionFields = <<"name", "group", "links", "active", "last">>
    BY DEF SessionFields
  <1>2. SessionFields \in [1..5 -> ToSet(SessionFields)]
    <2>1. DOMAIN SessionFields = 1..5 /\ SessionFields = [i \in 1..5 |-> SessionFields[i]]
      BY <1>1
    <2> QED
      BY <2>1 DEF ToSet
  <1>3. /\ SessionFields[1] = "name"
        /\ SessionFields[2] = "group"
        /\ SessionFields[3] = "links"
        /\ SessionFields[4] = "active"
        /\ SessionFields[5] = "last"
    BY <1>1
  <1>4. \A i \in 1..5 : i = 1 \/ i = 2 \/ i = 3 \/ i = 4 \/ i = 5
    OBVIOUS
  <1> QED
    BY <1>2, <1>3, <1>4

IsLink(link) == HasFields(link, LinkFields)

LEMMA LinkIsRead ==
    ASSUME NEW link, IsLink(link), NEW rest, IsFields(rest),
           NEW r, IsAt(r, WriteLink(link) \o rest), r.got = <<>>
    PROVE  HasRead(ReadLink(r), link, rest)
  <1> DEFINE a == U32(link.index)
             b == U32(link.window)
             r1 == AfterU32(r)
             r2 == AfterU32(r1)
  <1>1. ReadLink(r) = AsRecord(r2, LinkFields)
    BY DEF ReadLink, AfterU32, LinkFields
  <1>2. WriteLink(link) = a \o b
    BY DEF WriteLink
  <1>3. IsFields(a) /\ IsFields(b)
    BY OneField DEF U32
  <1> HIDE DEF a, b, r1, r2
  <1>4. IsFields(b \o rest) /\ (a \o b) \o rest = a \o (b \o rest)
    BY <1>3, JoinedFields, JoinedThrice
  <1>5. IsAt(r1, b \o rest) /\ r1.got = Append(<<>>, link.index)
    BY <1>2, <1>4, NextU32 DEF a, r1
  <1>6. IsAt(r2, rest) /\ r2.got = Append(r1.got, link.window)
    BY <1>5, NextU32 DEF b, r2
  <1>7. r2.got = Append(Append(<<>>, link.index), link.window)
    BY <1>5, <1>6
  <1>8. r2.got[1] = link.index /\ r2.got[2] = link.window
    BY <1>7
  <1>9. \A i \in 1..2 : link[LinkFields[i]] = r2.got[i]
    <2>1. \A i \in 1..2 : i = 1 \/ i = 2
      OBVIOUS
    <2> QED
      BY <1>8, <2>1, LinkFieldsAre
  <1>10. link = [x \in ToSet(LinkFields) |-> link[x]]
    BY DEF IsLink, HasFields
  <1>11. HasRead(AsRecord(r2, LinkFields), link, rest)
    BY <1>6, <1>9, <1>10, LinkFieldsAre, RecordIsMade
  <1> QED
    BY <1>1, <1>11

LEMMA NoLinkOfStopped ==
    ASSUME NEW r, ~ Runs(r)
    PROVE  ~ Runs(ReadLink(r))
  <1> DEFINE r2 == AfterU32(AfterU32(r))
  <1>1. ReadLink(r) = AsRecord(r2, LinkFields)
    BY DEF ReadLink, AfterU32, LinkFields
  <1>2. ~ Runs(r2)
    BY NothingAfterStopped
  <1> HIDE DEF r2
  <1> QED
    BY <1>1, <1>2, StoppedIsStopped DEF AsRecord

LEMMA LinkIsFields ==
    ASSUME NEW link
    PROVE  IsFields(WriteLink(link))
  <1>1. IsFields(U32(link.index)) /\ IsFields(U32(link.window))
    BY OneField DEF U32
  <1> QED
    BY <1>1, JoinedFields DEF WriteLink

IsClient(client) ==
    HasFields(client, ClientFields) /\ client.name # 0 /\ client.session # 0

LEMMA ClientIsRead ==
    ASSUME NEW client, IsClient(client), NEW rest, IsFields(rest),
           NEW r, IsAt(r, WriteClient(client) \o rest), r.got = <<>>
    PROVE  HasRead(ReadClient(r), client, rest)
  <1> DEFINE a == Str(client.name)
             b == Str(client.session)
             r1 == AfterName(r)
             r2 == AfterName(r1)
  <1>1. ReadClient(r) = AsRecord(r2, ClientFields)
    BY DEF ReadClient, AfterName, ClientFields
  <1>2. WriteClient(client) = a \o b
    BY DEF WriteClient
  <1>3. IsFields(a) /\ IsFields(b)
    BY OneField DEF Str
  <1> HIDE DEF a, b, r1, r2
  <1>4. IsFields(b \o rest) /\ (a \o b) \o rest = a \o (b \o rest)
    BY <1>3, JoinedFields, JoinedThrice
  <1>5. IsAt(r1, b \o rest) /\ r1.got = Append(<<>>, client.name)
    BY <1>2, <1>4, NextName DEF a, r1, IsClient
  <1>6. IsAt(r2, rest) /\ r2.got = Append(r1.got, client.session)
    BY <1>5, NextName DEF b, r2, IsClient
  <1>7. r2.got = Append(Append(<<>>, client.name), client.session)
    BY <1>5, <1>6
  <1>8. r2.got[1] = client.name /\ r2.got[2] = client.session
    BY <1>7
  <1>9. \A i \in 1..2 : client[ClientFields[i]] = r2.got[i]
    <2>1. \A i \in 1..2 : i = 1 \/ i = 2
      OBVIOUS
    <2> QED
      BY <1>8, <2>1, ClientFieldsAre
  <1>10. client = [x \in ToSet(ClientFields) |-> client[x]]
    BY DEF IsClient, HasFields
  <1>11. HasRead(AsRecord(r2, ClientFields), client, rest)
    BY <1>6, <1>9, <1>10, ClientFieldsAre, RecordIsMade
  <1> QED
    BY <1>1, <1>11

LEMMA NoClientOfStopped ==
    ASSUME NEW r, ~ Runs(r)
    PROVE  ~ Runs(ReadClient(r))
  <1> DEFINE r2 == AfterName(AfterName(r))
  <1>1. ReadClient(r) = AsRecord(r2, ClientFields)
    BY DEF ReadClient, AfterName, ClientFields
  <1>2. ~ Runs(r2)
    BY NothingAfterStopped
  <1> HIDE DEF r2
  <1> QED
    BY <1>1, <1>2, StoppedIsStopped DEF AsRecord

LEMMA ClientIsFields ==
    ASSUME NEW client
    PROVE  IsFields(WriteClient(client))
  <1>1. IsFields(Str(client.name)) /\ IsFields(Str(client.session))
    BY OneField DEF Str
  <1> QED
    BY <1>1, JoinedFields DEF WriteClient

AreLinks(links) == IsFields(links) /\ \A i \in DOMAIN links : IsLink(links[i])

LEMMA LinksAreWritten ==
    ASSUME NEW links, AreLinks(links)
    PROVE  /\ IsFields(WriteVec(links, WriteLink))
           /\ \E pieces :
                 /\ WriteVec(links, WriteLink) = U32(Len(links)) \o FlattenSeq(pieces)
                 /\ IsFields(pieces) /\ Len(pieces) = Len(links)
                 /\ ArePieces(pieces, Len(links))
                 /\ \A k \in 1 .. Len(links) : pieces[k] = WriteLink(links[k])
  <1> DEFINE n == Len(links)
             pieces == [i \in DOMAIN links |-> WriteLink(links[i])]
  <1>1. n \in Nat /\ DOMAIN links = 1..n
    BY FieldsAreSeq DEF AreLinks
  <1>2. WriteVec(links, WriteLink) = U32(n) \o FlattenSeq(pieces)
    BY DEF WriteVec
  <1>3. \A k \in 1..n : pieces[k] = WriteLink(links[k])
    BY <1>1
  <1>4. \A k \in 1..n : IsFields(pieces[k])
    BY <1>1, <1>3, LinkIsFields DEF AreLinks
  <1> HIDE DEF n
  <1>5. pieces \in Seq({pieces[k] : k \in 1..n}) /\ Len(pieces) = n
    BY <1>1
  <1> HIDE DEF pieces
  <1>6. IsFields(pieces) /\ ArePieces(pieces, n)
    BY <1>4, <1>5 DEF IsFields, ArePieces
  <1>7. IsFields(U32(n) \o FlattenSeq(pieces))
    BY <1>1, <1>5, <1>6, SequenceIsFields
  <1> QED
    BY <1>2, <1>3, <1>5, <1>6, <1>7 DEF n

LEMMA LinksAreRead ==
    ASSUME NEW links, AreLinks(links), NEW blobs,
           NEW isWhole, NEW rest, IsFields(rest),
           NEW r, IsAt(r, WriteVec(links, WriteLink) \o rest)
    PROVE  Reads(Links(r), links, rest, isWhole)
  <1> DEFINE n == Len(links)
  <1>1. PICK pieces :
           /\ WriteVec(links, WriteLink) = U32(Len(links)) \o FlattenSeq(pieces)
           /\ IsFields(pieces) /\ Len(pieces) = Len(links)
           /\ ArePieces(pieces, Len(links))
           /\ \A k \in 1 .. Len(links) : pieces[k] = WriteLink(links[k])
    BY LinksAreWritten
  <1>2. n \in Nat /\ DOMAIN links = 1..n
    BY FieldsAreSeq DEF AreLinks
  <1>3. PICK X : links \in Seq(X)
    BY DEF AreLinks, IsFields
  <1>4. \A t : ~ Runs(t) => ~ Runs(ItemOf("link", t, blobs))
    BY NoLinkOfStopped DEF ItemOf
  <1>5. ASSUME NEW k \in 1..n, NEW t, NEW left,
               IsFields(left), IsAt(t, pieces[k] \o left), t.got = <<>>
        PROVE  Reads(ItemOf("link", t, blobs), links[k], left, isWhole)
    <2>1. IsLink(links[k])
      BY <1>2 DEF AreLinks
    <2>2. IsAt(t, WriteLink(links[k]) \o left)
      BY <1>1, <1>5
    <2>3. Reads(ReadLink(t), links[k], left, isWhole)
      BY <1>5, <2>1, <2>2, LinkIsRead DEF Reads
    <2> QED
      BY <2>3 DEF ItemOf
  <1>6. IsVecOf(Links(r), r, "link", blobs)
    BY LinksAreItems
  <1>7. IsAt(r, (U32(n) \o FlattenSeq(pieces)) \o rest)
    BY <1>1
  <1> DEFINE vec == Links(r)
  <1> HIDE DEF n, vec
  <1>8. Reads(vec, links, rest, isWhole)
    BY <1>1, <1>2, <1>3, <1>4, <1>5, <1>6, <1>7, SequenceIsRead DEF n, vec
  <1> QED
    BY <1>8 DEF vec

AreClients(clients) == IsFields(clients) /\ \A i \in DOMAIN clients : IsClient(clients[i])

LEMMA ClientsAreWritten ==
    ASSUME NEW clients, AreClients(clients)
    PROVE  /\ IsFields(WriteVec(clients, WriteClient))
           /\ \E pieces :
                 /\ WriteVec(clients, WriteClient) = U32(Len(clients)) \o FlattenSeq(pieces)
                 /\ IsFields(pieces) /\ Len(pieces) = Len(clients)
                 /\ ArePieces(pieces, Len(clients))
                 /\ \A k \in 1 .. Len(clients) : pieces[k] = WriteClient(clients[k])
  <1> DEFINE n == Len(clients)
             pieces == [i \in DOMAIN clients |-> WriteClient(clients[i])]
  <1>1. n \in Nat /\ DOMAIN clients = 1..n
    BY FieldsAreSeq DEF AreClients
  <1>2. WriteVec(clients, WriteClient) = U32(n) \o FlattenSeq(pieces)
    BY DEF WriteVec
  <1>3. \A k \in 1..n : pieces[k] = WriteClient(clients[k])
    BY <1>1
  <1>4. \A k \in 1..n : IsFields(pieces[k])
    BY <1>1, <1>3, ClientIsFields DEF AreClients
  <1> HIDE DEF n
  <1>5. pieces \in Seq({pieces[k] : k \in 1..n}) /\ Len(pieces) = n
    BY <1>1
  <1> HIDE DEF pieces
  <1>6. IsFields(pieces) /\ ArePieces(pieces, n)
    BY <1>4, <1>5 DEF IsFields, ArePieces
  <1>7. IsFields(U32(n) \o FlattenSeq(pieces))
    BY <1>1, <1>5, <1>6, SequenceIsFields
  <1> QED
    BY <1>2, <1>3, <1>5, <1>6, <1>7 DEF n

LEMMA ClientsAreRead ==
    ASSUME NEW clients, AreClients(clients), NEW blobs,
           NEW isWhole, NEW rest, IsFields(rest),
           NEW r, IsAt(r, WriteVec(clients, WriteClient) \o rest)
    PROVE  Reads(Clients(r), clients, rest, isWhole)
  <1> DEFINE n == Len(clients)
  <1>1. PICK pieces :
           /\ WriteVec(clients, WriteClient) = U32(Len(clients)) \o FlattenSeq(pieces)
           /\ IsFields(pieces) /\ Len(pieces) = Len(clients)
           /\ ArePieces(pieces, Len(clients))
           /\ \A k \in 1 .. Len(clients) : pieces[k] = WriteClient(clients[k])
    BY ClientsAreWritten
  <1>2. n \in Nat /\ DOMAIN clients = 1..n
    BY FieldsAreSeq DEF AreClients
  <1>3. PICK X : clients \in Seq(X)
    BY DEF AreClients, IsFields
  <1>4. \A t : ~ Runs(t) => ~ Runs(ItemOf("client", t, blobs))
    BY NoClientOfStopped DEF ItemOf
  <1>5. ASSUME NEW k \in 1..n, NEW t, NEW left,
               IsFields(left), IsAt(t, pieces[k] \o left), t.got = <<>>
        PROVE  Reads(ItemOf("client", t, blobs), clients[k], left, isWhole)
    <2>1. IsClient(clients[k])
      BY <1>2 DEF AreClients
    <2>2. IsAt(t, WriteClient(clients[k]) \o left)
      BY <1>1, <1>5
    <2>3. Reads(ReadClient(t), clients[k], left, isWhole)
      BY <1>5, <2>1, <2>2, ClientIsRead DEF Reads
    <2> QED
      BY <2>3 DEF ItemOf
  <1>6. IsVecOf(Clients(r), r, "client", blobs)
    BY ClientsAreItems
  <1>7. IsAt(r, (U32(n) \o FlattenSeq(pieces)) \o rest)
    BY <1>1
  <1> DEFINE vec == Clients(r)
  <1> HIDE DEF n, vec
  <1>8. Reads(vec, clients, rest, isWhole)
    BY <1>1, <1>2, <1>3, <1>4, <1>5, <1>6, <1>7, SequenceIsRead DEF n, vec
  <1> QED
    BY <1>8 DEF vec

AreWindows(windows) == IsFields(windows) /\ \A i \in DOMAIN windows : IsWindowData(windows[i])

LEMMA WindowsAreWritten ==
    ASSUME NEW windows, AreWindows(windows)
    PROVE  /\ IsFields(WriteVec(windows, EncodeWindow))
           /\ \E pieces :
                 /\ WriteVec(windows, EncodeWindow) = U32(Len(windows)) \o FlattenSeq(pieces)
                 /\ IsFields(pieces) /\ Len(pieces) = Len(windows)
                 /\ ArePieces(pieces, Len(windows))
                 /\ \A k \in 1 .. Len(windows) : pieces[k] = EncodeWindow(windows[k])
  <1> DEFINE n == Len(windows)
             pieces == [i \in DOMAIN windows |-> EncodeWindow(windows[i])]
  <1>1. n \in Nat /\ DOMAIN windows = 1..n
    BY FieldsAreSeq DEF AreWindows
  <1>2. WriteVec(windows, EncodeWindow) = U32(n) \o FlattenSeq(pieces)
    BY DEF WriteVec
  <1>3. \A k \in 1..n : pieces[k] = EncodeWindow(windows[k])
    BY <1>1
  <1>4. \A k \in 1..n : IsFields(pieces[k])
    BY <1>1, <1>3, WindowIsFields DEF AreWindows
  <1> HIDE DEF n
  <1>5. pieces \in Seq({pieces[k] : k \in 1..n}) /\ Len(pieces) = n
    BY <1>1
  <1> HIDE DEF pieces
  <1>6. IsFields(pieces) /\ ArePieces(pieces, n)
    BY <1>4, <1>5 DEF IsFields, ArePieces
  <1>7. IsFields(U32(n) \o FlattenSeq(pieces))
    BY <1>1, <1>5, <1>6, SequenceIsFields
  <1> QED
    BY <1>2, <1>3, <1>5, <1>6, <1>7 DEF n

\* Every text of these windows is there.
AreAllThere(windows, blobs) ==
    \A i \in DOMAIN windows : AreThereFor(windows[i].panes, blobs)

LEMMA WindowsAreRead ==
    ASSUME NEW windows, AreWindows(windows), NEW blobs,
           NEW isWhole, isWhole => AreAllThere(windows, blobs),
           NEW rest, IsFields(rest),
           NEW r, IsAt(r, WriteVec(windows, EncodeWindow) \o rest)
    PROVE  Reads(Windows(r, blobs), windows, rest, isWhole)
  <1> DEFINE n == Len(windows)
  <1>1. PICK pieces :
           /\ WriteVec(windows, EncodeWindow) = U32(Len(windows)) \o FlattenSeq(pieces)
           /\ IsFields(pieces) /\ Len(pieces) = Len(windows)
           /\ ArePieces(pieces, Len(windows))
           /\ \A k \in 1 .. Len(windows) : pieces[k] = EncodeWindow(windows[k])
    BY WindowsAreWritten
  <1>2. n \in Nat /\ DOMAIN windows = 1..n
    BY FieldsAreSeq DEF AreWindows
  <1>3. PICK X : windows \in Seq(X)
    BY DEF AreWindows, IsFields
  <1>4. \A t : ~ Runs(t) => ~ Runs(ItemOf("window", t, blobs))
    BY NoWindowOfStopped DEF ItemOf
  <1>5. ASSUME NEW k \in 1..n, NEW t, NEW left,
               IsFields(left), IsAt(t, pieces[k] \o left), t.got = <<>>
        PROVE  Reads(ItemOf("window", t, blobs), windows[k], left, isWhole)
    <2>1. IsWindowData(windows[k]) /\ (isWhole => AreThereFor(windows[k].panes, blobs))
      BY <1>2 DEF AreWindows, AreAllThere
    <2>2. IsAt(t, EncodeWindow(windows[k]) \o left)
      BY <1>1, <1>5
    <2>3. Reads(DecodeWindow(t, blobs), windows[k], left, isWhole)
      BY <1>5, <2>1, <2>2, WindowIsRead DEF Reads
    <2> QED
      BY <2>3 DEF ItemOf
  <1>6. IsVecOf(Windows(r, blobs), r, "window", blobs)
    BY WindowsAreItems
  <1>7. IsAt(r, (U32(n) \o FlattenSeq(pieces)) \o rest)
    BY <1>1
  <1> DEFINE vec == Windows(r, blobs)
  <1> HIDE DEF n, vec
  <1>8. Reads(vec, windows, rest, isWhole)
    BY <1>1, <1>2, <1>3, <1>4, <1>5, <1>6, <1>7, SequenceIsRead DEF n, vec
  <1> QED
    BY <1>8 DEF vec

IsSessionData(s) ==
    /\ HasFields(s, SessionFields) /\ s.name # 0 /\ IsNamed(s.group)
    /\ AreLinks(s.links) /\ IsOption(s.last) /\ IsSession(s)

AfterLinks(r) == Then(r, LAMBDA l : ReadNonEmpty(l, ReadLink))
AfterNumberOption(r) == Then(r, LAMBDA l : ReadOption(l, TakeU32))

LEMMA NextLinks ==
    ASSUME NEW links, AreLinks(links), links # <<>>, NEW rest, IsFields(rest),
           NEW r, IsAt(r, WriteVec(links, WriteLink) \o rest)
    PROVE  IsAt(AfterLinks(r), rest) /\ AfterLinks(r).got = Append(r.got, links)
  <1> DEFINE vec == Links(Fresh(r))
  <1>1. Reads(vec, links, rest, TRUE)
    <2>1. IsAt(Fresh(r), WriteVec(links, WriteLink) \o rest)
      BY FreshIsAt
    <2> QED
      BY <2>1, LinksAreRead
  <1> HIDE DEF vec
  <1>2. HasRead(SomeItem(vec), links, rest)
    BY <1>1, SomeItemIsRead DEF Reads
  <1>3. AfterLinks(r) = Got(r, SomeItem(vec))
    BY DEF AfterLinks, Then, Fresh, ReadNonEmpty, Links, vec
  <1> QED
    BY <1>2, <1>3, ItemIsGot

LEMMA NextNumberOption ==
    ASSUME NEW r, NEW option, IsOption(option), NEW rest, IsFields(rest),
           IsAt(r, WriteOption(option, U32) \o rest)
    PROVE  IsAt(AfterNumberOption(r), rest) /\ AfterNumberOption(r).got = Append(r.got, option)
  <1>1. HasRead(NumberOption(Fresh(r)), option, rest)
    BY FreshIsAt, NumberOptionIsRead
  <1>2. AfterNumberOption(r) = Got(r, NumberOption(Fresh(r)))
    BY DEF AfterNumberOption, NumberOption, Then, Fresh
  <1> QED
    BY <1>1, <1>2, ItemIsGot

LEMMA SessionIsFields ==
    ASSUME NEW s, IsSessionData(s)
    PROVE  /\ IsFields(EncodeSession(s)) /\ IsFields(WriteVec(s.links, WriteLink))
  <1> DEFINE a == Str(s.name)
             b == WriteOption(s.group, Str)
             c == WriteVec(s.links, WriteLink)
             d == U32(s.active)
             e == WriteOption(s.last, U32)
  <1>1. EncodeSession(s) = (((a \o b) \o c) \o d) \o e
    BY DEF EncodeSession
  <1>2. IsFields(a) /\ IsFields(b) /\ IsFields(c) /\ IsFields(d) /\ IsFields(e)
    BY OneField, OptionsAreFields, LinksAreWritten DEF Str, U32, IsSessionData
  <1>7. IsFields(WriteVec(s.links, WriteLink))
    BY <1>2
  <1> HIDE DEF a, b, c, d, e
  <1>3. IsFields(a \o b)
    BY <1>2, JoinedFields
  <1>4. IsFields((a \o b) \o c)
    BY <1>2, <1>3, JoinedFields
  <1>5. IsFields(((a \o b) \o c) \o d)
    BY <1>2, <1>4, JoinedFields
  <1>6. IsFields(EncodeSession(s))
    BY <1>1, <1>2, <1>5, JoinedFields
  <1> QED
    BY <1>6, <1>7

LEMMA SessionIsRead ==
    ASSUME NEW s, IsSessionData(s), NEW rest, IsFields(rest),
           NEW r, IsAt(r, EncodeSession(s) \o rest), r.got = <<>>
    PROVE  HasRead(DecodeSession(r), s, rest)
  <1> DEFINE a == Str(s.name)
             b == WriteOption(s.group, Str)
             c == WriteVec(s.links, WriteLink)
             d == U32(s.active)
             e == WriteOption(s.last, U32)
             r1 == AfterName(r)
             r2 == AfterNameOption(r1)
             r3 == AfterLinks(r2)
             r4 == AfterU32(r3)
             r5 == AfterNumberOption(r4)
  <1>1. DecodeSession(r) = Resolved(AsRecord(r5, SessionFields), IsSession)
    BY DEF DecodeSession, AfterName, AfterNameOption, AfterLinks, AfterU32,
           AfterNumberOption, SessionFields
  <1>2. EncodeSession(s) = (((a \o b) \o c) \o d) \o e
    BY DEF EncodeSession
  <1>3. IsFields(a) /\ IsFields(b) /\ IsFields(c) /\ IsFields(d) /\ IsFields(e)
    BY OneField, OptionsAreFields, SessionIsFields DEF Str, U32
  <1>0. /\ s.name # 0 /\ IsNamed(s.group) /\ AreLinks(s.links) /\ s.links # <<>>
        /\ IsOption(s.last) /\ IsSession(s)
    BY DEF IsSessionData, IsSession
  <1> HIDE DEF a, b, c, d, e, r1, r2, r3, r4, r5
  <1>4. IsFields(e \o rest)
    BY <1>3, JoinedFields
  <1>5. IsFields(d \o (e \o rest))
    BY <1>3, <1>4, JoinedFields
  <1>6. IsFields(c \o (d \o (e \o rest)))
    BY <1>3, <1>5, JoinedFields
  <1>7. IsFields(b \o (c \o (d \o (e \o rest))))
    BY <1>3, <1>6, JoinedFields
  <1>8. RegroupsSix(a, b, c, d, e, rest)
    BY <1>3, JoinedSix
  <1>9. IsAt(r, a \o (b \o (c \o (d \o (e \o rest)))))
    BY <1>2, <1>8 DEF RegroupsSix
  <1>10. IsAt(r1, b \o (c \o (d \o (e \o rest)))) /\ r1.got = Append(<<>>, s.name)
    BY <1>0, <1>7, <1>9, NextName DEF a, r1
  <1>11. IsAt(r2, c \o (d \o (e \o rest))) /\ r2.got = Append(r1.got, s.group)
    BY <1>0, <1>6, <1>10, NextNameOption DEF b, r2
  <1>12. IsAt(r3, d \o (e \o rest)) /\ r3.got = Append(r2.got, s.links)
    BY <1>0, <1>5, <1>11, NextLinks DEF c, r3
  <1>13. IsAt(r4, e \o rest) /\ r4.got = Append(r3.got, s.active)
    BY <1>4, <1>12, NextU32 DEF d, r4
  <1>14. IsAt(r5, rest) /\ r5.got = Append(r4.got, s.last)
    BY <1>0, <1>13, NextNumberOption DEF e, r5
  <1>15. r5.got = Append(Append(Append(Append(Append(<<>>, s.name), s.group),
                     s.links), s.active), s.last)
    BY <1>10, <1>11, <1>12, <1>13, <1>14
  <1>16. /\ r5.got[1] = s.name /\ r5.got[2] = s.group /\ r5.got[3] = s.links
         /\ r5.got[4] = s.active /\ r5.got[5] = s.last
    BY <1>15
  <1>17. \A i \in 1..5 : s[SessionFields[i]] = r5.got[i]
    <2>1. \A i \in 1..5 : i = 1 \/ i = 2 \/ i = 3 \/ i = 4 \/ i = 5
      OBVIOUS
    <2> QED
      BY <1>16, <2>1, SessionFieldsAre
  <1>18. s = [x \in ToSet(SessionFields) |-> s[x]]
    BY DEF IsSessionData, HasFields
  <1> DEFINE made == AsRecord(r5, SessionFields)
  <1>19. HasRead(made, s, rest)
    BY <1>14, <1>17, <1>18, SessionFieldsAre, RecordIsMade
  <1> HIDE DEF made
  <1>20. Resolved(made, IsSession) = made
    BY <1>0, <1>19 DEF Resolved, StopUnless, HasRead
  <1> QED
    BY <1>1, <1>19, <1>20 DEF made

LEMMA NoSessionOfStopped ==
    ASSUME NEW r, ~ Runs(r)
    PROVE  ~ Runs(DecodeSession(r))
  <1> DEFINE r1 == AfterName(r)
             r2 == AfterNameOption(r1)
             r3 == AfterLinks(r2)
             r4 == AfterU32(r3)
             r5 == AfterNumberOption(r4)
  <1>1. DecodeSession(r) = Resolved(AsRecord(r5, SessionFields), IsSession)
    BY DEF DecodeSession, AfterName, AfterNameOption, AfterLinks, AfterU32,
           AfterNumberOption, SessionFields
  <1>2. ~ Runs(r1)
    BY NothingAfterStopped
  <1> HIDE DEF r1
  <1>3. ~ Runs(r2)
    BY <1>2, NoneOfStopped
  <1> HIDE DEF r2
  <1>4. ~ Runs(r3)
    <2> DEFINE t == Fresh(r2)
    <2>1. ~ Runs(t)
      BY <1>3, StoppedIsStopped
    <2> HIDE DEF t
    <2>2. SomeItem(Links(t)) = t
      BY <2>1, LinksAreItems, StoppedHasNoItems
    <2>3. r3 = Got(r2, SomeItem(Links(t)))
      BY DEF AfterLinks, Then, Fresh, ReadNonEmpty, Links, t
    <2> QED
      BY <2>1, <2>2, <2>3, StoppedIsStopped
  <1> HIDE DEF r3
  <1>5. ~ Runs(r4)
    BY <1>4, NothingAfterStopped
  <1> HIDE DEF r4
  <1>6. ~ Runs(r5)
    <2> DEFINE t == Fresh(r4)
    <2>1. ~ Runs(t)
      BY <1>5, StoppedIsStopped
    <2> HIDE DEF t
    <2>2. NumberOption(t) = t
      BY <2>1, OptionsAre, NoOptionOfStopped
    <2>3. r5 = Got(r4, NumberOption(t))
      BY DEF AfterNumberOption, Then, Fresh, NumberOption, t
    <2> QED
      BY <2>1, <2>2, <2>3, StoppedIsStopped
  <1> HIDE DEF r5
  <1>7. AsRecord(r5, SessionFields) = r5
    BY <1>6, StoppedIsStopped DEF AsRecord
  <1>8. Resolved(r5, IsSession) = r5
    BY <1>6 DEF Resolved, StopUnless
  <1> QED
    BY <1>1, <1>6, <1>7, <1>8

AreSessions(sessions) == IsFields(sessions) /\ \A i \in DOMAIN sessions : IsSessionData(sessions[i])

LEMMA SessionsAreWritten ==
    ASSUME NEW sessions, AreSessions(sessions)
    PROVE  /\ IsFields(WriteVec(sessions, EncodeSession))
           /\ \E pieces :
                 /\ WriteVec(sessions, EncodeSession) = U32(Len(sessions)) \o FlattenSeq(pieces)
                 /\ IsFields(pieces) /\ Len(pieces) = Len(sessions)
                 /\ ArePieces(pieces, Len(sessions))
                 /\ \A k \in 1 .. Len(sessions) : pieces[k] = EncodeSession(sessions[k])
  <1> DEFINE n == Len(sessions)
             pieces == [i \in DOMAIN sessions |-> EncodeSession(sessions[i])]
  <1>1. n \in Nat /\ DOMAIN sessions = 1..n
    BY FieldsAreSeq DEF AreSessions
  <1>2. WriteVec(sessions, EncodeSession) = U32(n) \o FlattenSeq(pieces)
    BY DEF WriteVec
  <1>3. \A k \in 1..n : pieces[k] = EncodeSession(sessions[k])
    BY <1>1
  <1>4. \A k \in 1..n : IsFields(pieces[k])
    BY <1>1, <1>3, SessionIsFields DEF AreSessions
  <1> HIDE DEF n
  <1>5. pieces \in Seq({pieces[k] : k \in 1..n}) /\ Len(pieces) = n
    BY <1>1
  <1> HIDE DEF pieces
  <1>6. IsFields(pieces) /\ ArePieces(pieces, n)
    BY <1>4, <1>5 DEF IsFields, ArePieces
  <1>7. IsFields(U32(n) \o FlattenSeq(pieces))
    BY <1>1, <1>5, <1>6, SequenceIsFields
  <1> QED
    BY <1>2, <1>3, <1>5, <1>6, <1>7 DEF n

LEMMA SessionsAreRead ==
    ASSUME NEW sessions, AreSessions(sessions), NEW blobs,
           NEW isWhole, NEW rest, IsFields(rest),
           NEW r, IsAt(r, WriteVec(sessions, EncodeSession) \o rest)
    PROVE  Reads(Sessions(r), sessions, rest, isWhole)
  <1> DEFINE n == Len(sessions)
  <1>1. PICK pieces :
           /\ WriteVec(sessions, EncodeSession) = U32(Len(sessions)) \o FlattenSeq(pieces)
           /\ IsFields(pieces) /\ Len(pieces) = Len(sessions)
           /\ ArePieces(pieces, Len(sessions))
           /\ \A k \in 1 .. Len(sessions) : pieces[k] = EncodeSession(sessions[k])
    BY SessionsAreWritten
  <1>2. n \in Nat /\ DOMAIN sessions = 1..n
    BY FieldsAreSeq DEF AreSessions
  <1>3. PICK X : sessions \in Seq(X)
    BY DEF AreSessions, IsFields
  <1>4. \A t : ~ Runs(t) => ~ Runs(ItemOf("session", t, blobs))
    BY NoSessionOfStopped DEF ItemOf
  <1>5. ASSUME NEW k \in 1..n, NEW t, NEW left,
               IsFields(left), IsAt(t, pieces[k] \o left), t.got = <<>>
        PROVE  Reads(ItemOf("session", t, blobs), sessions[k], left, isWhole)
    <2>1. IsSessionData(sessions[k])
      BY <1>2 DEF AreSessions
    <2>2. IsAt(t, EncodeSession(sessions[k]) \o left)
      BY <1>1, <1>5
    <2>3. Reads(DecodeSession(t), sessions[k], left, isWhole)
      BY <1>5, <2>1, <2>2, SessionIsRead DEF Reads
    <2> QED
      BY <2>3 DEF ItemOf
  <1>6. IsVecOf(Sessions(r), r, "session", blobs)
    BY SessionsAreItems
  <1>7. IsAt(r, (U32(n) \o FlattenSeq(pieces)) \o rest)
    BY <1>1
  <1> DEFINE vec == Sessions(r)
  <1> HIDE DEF n, vec
  <1>8. Reads(vec, sessions, rest, isWhole)
    BY <1>1, <1>2, <1>3, <1>4, <1>5, <1>6, <1>7, SequenceIsRead DEF n, vec
  <1> QED
    BY <1>8 DEF vec
-----------------------------------------------------------------------------
(***************************************************************************)
(* The body of a file.                                                     *)
(***************************************************************************)
BodyFields == <<"tmux_version", "touched", "windows", "sessions", "clients">>

LEMMA BodyFieldsAre ==
    /\ BodyFields \in [1..5 -> ToSet(BodyFields)]
    /\ \A i, j \in 1..5 : BodyFields[i] = BodyFields[j] => i = j
    /\ BodyFields[1] = "tmux_version"
    /\ BodyFields[2] = "touched"
    /\ BodyFields[3] = "windows"
    /\ BodyFields[4] = "sessions"
    /\ BodyFields[5] = "clients"
  <1>1. BodyFields = <<"tmux_version", "touched", "windows", "sessions", "clients">>
    BY DEF BodyFields
  <1>2. BodyFields \in [1..5 -> ToSet(BodyFields)]
    <2>1. DOMAIN BodyFields = 1..5 /\ BodyFields = [i \in 1..5 |-> BodyFields[i]]
      BY <1>1
    <2> QED
      BY <2>1 DEF ToSet
  <1>3. /\ BodyFields[1] = "tmux_version"
        /\ BodyFields[2] = "touched"
        /\ BodyFields[3] = "windows"
        /\ BodyFields[4] = "sessions"
        /\ BodyFields[5] = "clients"
    BY <1>1
  <1>4. \A i \in 1..5 : i = 1 \/ i = 2 \/ i = 3 \/ i = 4 \/ i = 5
    OBVIOUS
  <1> QED
    BY <1>2, <1>3, <1>4

AfterTimeOption(r) == Then(r, LAMBDA t : ReadOption(t, TakeI64))
AfterWindows(r, blobs) ==
    Then(r, LAMBDA w : ReadNonEmpty(w, LAMBDA v : DecodeWindow(v, blobs)))
AfterSessions(r) == Then(r, LAMBDA s : ReadNonEmpty(s, DecodeSession))
AfterClients(r) == Then(r, LAMBDA c : ReadVec(c, ReadClient))

LEMMA NextTimeOption ==
    ASSUME NEW r, NEW option, IsOption(option), NEW rest, IsFields(rest),
           IsAt(r, WriteOption(option, I64) \o rest)
    PROVE  IsAt(AfterTimeOption(r), rest) /\ AfterTimeOption(r).got = Append(r.got, option)
  <1>1. HasRead(TimeOption(Fresh(r)), option, rest)
    BY FreshIsAt, TimeOptionIsRead
  <1>2. AfterTimeOption(r) = Got(r, TimeOption(Fresh(r)))
    BY DEF AfterTimeOption, TimeOption, Then, Fresh
  <1> QED
    BY <1>1, <1>2, ItemIsGot

LEMMA NextWindows ==
    ASSUME NEW windows, AreWindows(windows), windows # <<>>, NEW blobs,
           NEW isWhole, isWhole => AreAllThere(windows, blobs),
           NEW rest, IsFields(rest),
           NEW r, IsAt(r, WriteVec(windows, EncodeWindow) \o rest)
    PROVE  HasGot(AfterWindows(r, blobs), r, windows, rest, isWhole)
  <1> DEFINE vec == Windows(Fresh(r), blobs)
  <1>1. Reads(vec, windows, rest, isWhole)
    <2>1. IsAt(Fresh(r), WriteVec(windows, EncodeWindow) \o rest)
      BY FreshIsAt
    <2> QED
      BY <2>1, WindowsAreRead
  <1> HIDE DEF vec
  <1>2. Reads(SomeItem(vec), windows, rest, isWhole)
    BY <1>1, SomeItemIsRead
  <1>3. AfterWindows(r, blobs) = Got(r, SomeItem(vec))
    BY DEF AfterWindows, Then, Fresh, ReadNonEmpty, Windows, vec
  <1> QED
    BY <1>2, <1>3, ItemIsGotOrStops

LEMMA NextSessions ==
    ASSUME NEW sessions, AreSessions(sessions), sessions # <<>>, NEW rest, IsFields(rest),
           NEW r, IsAt(r, WriteVec(sessions, EncodeSession) \o rest)
    PROVE  IsAt(AfterSessions(r), rest) /\ AfterSessions(r).got = Append(r.got, sessions)
  <1> DEFINE vec == Sessions(Fresh(r))
  <1>1. Reads(vec, sessions, rest, TRUE)
    <2>1. IsAt(Fresh(r), WriteVec(sessions, EncodeSession) \o rest)
      BY FreshIsAt
    <2> QED
      BY <2>1, SessionsAreRead
  <1> HIDE DEF vec
  <1>2. HasRead(SomeItem(vec), sessions, rest)
    BY <1>1, SomeItemIsRead DEF Reads
  <1>3. AfterSessions(r) = Got(r, SomeItem(vec))
    BY DEF AfterSessions, Then, Fresh, ReadNonEmpty, Sessions, vec
  <1> QED
    BY <1>2, <1>3, ItemIsGot

LEMMA NextClients ==
    ASSUME NEW clients, AreClients(clients), NEW rest, IsFields(rest),
           NEW r, IsAt(r, WriteVec(clients, WriteClient) \o rest)
    PROVE  IsAt(AfterClients(r), rest) /\ AfterClients(r).got = Append(r.got, clients)
  <1> DEFINE vec == Clients(Fresh(r))
  <1>1. HasRead(vec, clients, rest)
    <2>1. IsAt(Fresh(r), WriteVec(clients, WriteClient) \o rest)
      BY FreshIsAt
    <2>2. Reads(vec, clients, rest, TRUE)
      BY <2>1, ClientsAreRead
    <2> QED
      BY <2>2 DEF Reads
  <1> HIDE DEF vec
  <1>2. AfterClients(r) = Got(r, vec)
    BY DEF AfterClients, Then, Fresh, Clients, vec
  <1> QED
    BY <1>1, <1>2, ItemIsGot

LEMMA NoneOfStoppedBody ==
    ASSUME NEW r, ~ Runs(r)
    PROVE  ~ Runs(AfterSessions(r)) /\ ~ Runs(AfterClients(r))
  <1> DEFINE s == Fresh(r)
  <1>1. ~ Runs(s) /\ Got(r, s) = s
    BY StoppedIsStopped
  <1> HIDE DEF s
  <1>2. SomeItem(Sessions(s)) = s
    BY <1>1, SessionsAreItems, StoppedHasNoItems
  <1>3. Clients(s) = s
    BY <1>1, ClientsAreItems, StoppedHasNoItems
  <1>4. AfterSessions(r) = Got(r, SomeItem(Sessions(s)))
    BY DEF AfterSessions, Then, Fresh, ReadNonEmpty, Sessions, s
  <1>5. AfterClients(r) = Got(r, Clients(s))
    BY DEF AfterClients, Then, Fresh, Clients, s
  <1> QED
    BY <1>1, <1>2, <1>3, <1>4, <1>5

IsOrigin(origin) ==
    /\ IsOption(origin)
    /\ origin # None => origin[1] = [pid |-> origin[1].pid, start |-> origin[1].start]

\* The snapshots there are: a record of these fields, of names that are not
\* empty, of texts and reasons, that resolves.
IsSnapshotData(s) ==
    /\ s = [tmux_version |-> s.tmux_version, touched |-> s.touched,
            windows |-> s.windows, sessions |-> s.sessions, clients |-> s.clients,
            origin |-> s.origin, captured_at |-> s.captured_at]
    /\ IsOption(s.touched) /\ IsOrigin(s.origin)
    /\ AreWindows(s.windows) /\ AreSessions(s.sessions) /\ AreClients(s.clients)
    /\ IsGraph(s)

LEMMA BodyIsFields ==
    ASSUME NEW s, IsSnapshotData(s)
    PROVE  /\ IsFields(EncodeBody(s)) /\ IsFields(WriteVec(s.windows, EncodeWindow))
           /\ IsFields(WriteVec(s.sessions, EncodeSession))
           /\ IsFields(WriteVec(s.clients, WriteClient))
  <1> DEFINE a == U32(s.tmux_version)
             b == WriteOption(s.touched, I64)
             c == WriteVec(s.windows, EncodeWindow)
             d == WriteVec(s.sessions, EncodeSession)
             e == WriteVec(s.clients, WriteClient)
  <1>1. EncodeBody(s) = (((a \o b) \o c) \o d) \o e
    BY DEF EncodeBody
  <1>0. AreWindows(s.windows) /\ AreSessions(s.sessions) /\ AreClients(s.clients)
    BY DEF IsSnapshotData
  <1>2. IsFields(a) /\ IsFields(b) /\ IsFields(c) /\ IsFields(d) /\ IsFields(e)
    BY <1>0, OneField, OptionsAreFields, WindowsAreWritten, SessionsAreWritten,
       ClientsAreWritten DEF U32
  <1>7. /\ IsFields(WriteVec(s.windows, EncodeWindow))
        /\ IsFields(WriteVec(s.sessions, EncodeSession))
        /\ IsFields(WriteVec(s.clients, WriteClient))
    BY <1>2
  <1> HIDE DEF a, b, c, d, e
  <1>3. IsFields(a \o b)
    BY <1>2, JoinedFields
  <1>4. IsFields((a \o b) \o c)
    BY <1>2, <1>3, JoinedFields
  <1>5. IsFields(((a \o b) \o c) \o d)
    BY <1>2, <1>4, JoinedFields
  <1>6. IsFields(EncodeBody(s))
    BY <1>1, <1>2, <1>5, JoinedFields
  <1> QED
    BY <1>6, <1>7

LEMMA ReaderIsAt ==
    ASSUME NEW fields, IsFields(fields)
    PROVE  IsAt(Reader(fields), fields) /\ Reader(fields).got = <<>>
  <1>1. Reader(fields) = State(None, <<>>, fields)
    BY DEF Reader, State
  <1>2. State(None, <<>>, fields).got = <<>>
    BY DEF State
  <1> QED
    BY <1>1, <1>2 DEF IsAt

\* What is left when all has been read.
LEMMA NothingIsLeft ==
    ASSUME NEW r, IsAt(r, <<>>)
    PROVE  NothingLeft(r) = r
  BY StillRuns DEF NothingLeft, StopUnless

LEMMA BodyIsMade ==
    ASSUME NEW s, IsSnapshotData(s), NEW rest, NEW r, IsAt(r, rest),
           r.got[1] = s.tmux_version, r.got[2] = s.touched, r.got[3] = s.windows,
           r.got[4] = s.sessions, r.got[5] = s.clients
    PROVE  HasRead(With(AsRecord(r, BodyFields),
                        [origin |-> s.origin, captured_at |-> s.captured_at]), s, rest)
  <1> DEFINE body == [tmux_version |-> s.tmux_version, touched |-> s.touched,
                      windows |-> s.windows, sessions |-> s.sessions,
                      clients |-> s.clients]
             more == [origin |-> s.origin, captured_at |-> s.captured_at]
             read == AsRecord(r, BodyFields)
  <1>1. ToSet(BodyFields) = {"tmux_version", "touched", "windows", "sessions", "clients"}
    <2>1. BodyFields = <<"tmux_version", "touched", "windows", "sessions", "clients">>
      BY DEF BodyFields
    <2>2. ToSet(BodyFields) = {BodyFields[i] : i \in 1..5}
      BY <2>1 DEF ToSet
    <2>3. \A i \in 1..5 : i = 1 \/ i = 2 \/ i = 3 \/ i = 4 \/ i = 5
      OBVIOUS
    <2>4. {BodyFields[i] : i \in 1..5} =
             {BodyFields[1], BodyFields[2], BodyFields[3], BodyFields[4], BodyFields[5]}
      BY <2>3
    <2> QED
      BY <2>2, <2>4, BodyFieldsAre
  <1>2. body = [x \in ToSet(BodyFields) |-> body[x]]
    BY <1>1
  <1>3. \A i \in 1..5 : body[BodyFields[i]] = r.got[i]
    <2>1. \A i \in 1..5 : i = 1 \/ i = 2 \/ i = 3 \/ i = 4 \/ i = 5
      OBVIOUS
    <2> QED
      BY <2>1, BodyFieldsAre
  <1>4. Extended(body, more) = s
    <2>1. s = [tmux_version |-> s.tmux_version, touched |-> s.touched,
               windows |-> s.windows, sessions |-> s.sessions, clients |-> s.clients,
               origin |-> s.origin, captured_at |-> s.captured_at]
      BY DEF IsSnapshotData
    <2> DEFINE all == [tmux_version |-> s.tmux_version, touched |-> s.touched,
                       windows |-> s.windows, sessions |-> s.sessions,
                       clients |-> s.clients, origin |-> s.origin,
                       captured_at |-> s.captured_at]
    <2>2. DOMAIN body \cup DOMAIN more = DOMAIN all
      OBVIOUS
    <2>3. Extended(body, more) = [x \in DOMAIN all |-> IF x \in DOMAIN body THEN body[x] ELSE more[x]]
      <3> HIDE DEF body, more, all
      <3> QED
        BY <2>2 DEF Extended
    <2>4. \A x \in DOMAIN all : all[x] = IF x \in DOMAIN body THEN body[x] ELSE more[x]
      OBVIOUS
    <2>5. all = [x \in DOMAIN all |-> all[x]]
      OBVIOUS
    <2>6. Extended(body, more) = all
      <3> HIDE DEF body, more, all
      <3> QED
        BY <2>3, <2>4, <2>5
    <2> QED
      BY <2>1, <2>6
  <1> HIDE DEF body, more
  <1>5. HasRead(read, body, rest)
    BY <1>2, <1>3, BodyFieldsAre, RecordIsMade
  <1> HIDE DEF read
  <1>6. read.value = body /\ IsAt(read, rest)
    BY <1>5 DEF HasRead
  <1>7. With(read, more) = Yield(read, s)
    BY <1>4, <1>6 DEF With
  <1> QED
    BY <1>6, <1>7, ValueIsYielded DEF read, more

LEMMA BodyIsRead ==
    ASSUME NEW s, IsSnapshotData(s), NEW blobs,
           NEW isWhole, isWhole => AreAllThere(s.windows, blobs)
    PROVE  Reads(DecodeBody(EncodeBody(s), s.origin, s.captured_at, blobs), s, <<>>, isWhole)
  <1> DEFINE none == <<>>
             a == U32(s.tmux_version)
             b == WriteOption(s.touched, I64)
             c == WriteVec(s.windows, EncodeWindow)
             d == WriteVec(s.sessions, EncodeSession)
             e == WriteVec(s.clients, WriteClient)
             r0 == Reader(EncodeBody(s))
             r1 == AfterU32(r0)
             r2 == AfterTimeOption(r1)
             r3 == AfterWindows(r2, blobs)
             r4 == AfterSessions(r3)
             r5 == AfterClients(r4)
             rest == [origin |-> s.origin, captured_at |-> s.captured_at]
  <1>1. DecodeBody(EncodeBody(s), s.origin, s.captured_at, blobs) =
           Resolved(With(AsRecord(NothingLeft(r5), BodyFields), rest), IsGraph)
    BY DEF DecodeBody, AfterU32, AfterTimeOption, AfterWindows, AfterSessions,
           AfterClients, BodyFields
  <1>2. EncodeBody(s) = (((a \o b) \o c) \o d) \o e
    BY DEF EncodeBody
  <1>3. IsFields(a) /\ IsFields(b) /\ IsFields(c) /\ IsFields(d) /\ IsFields(e)
    BY OneField, OptionsAreFields, BodyIsFields DEF U32
  <1>4. IsFields(none)
    BY <1>3, JoinedWithNone
  <1>5. EncodeBody(s) \o none = EncodeBody(s)
    BY BodyIsFields, JoinedWithNone
  <1>6. IsAt(r0, EncodeBody(s)) /\ r0.got = <<>>
    BY BodyIsFields, ReaderIsAt
  <1>0. /\ IsOption(s.touched) /\ AreWindows(s.windows) /\ AreSessions(s.sessions)
        /\ AreClients(s.clients) /\ s.windows # <<>> /\ s.sessions # <<>> /\ IsGraph(s)
    BY DEF IsSnapshotData, IsGraph, IsSnapshot
  <1> HIDE DEF none, a, b, c, d, e, r0, r1, r2, r3, r4, r5
  <1>7. IsFields(e \o none)
    BY <1>3, <1>4, JoinedFields
  <1>8. IsFields(d \o (e \o none))
    BY <1>3, <1>7, JoinedFields
  <1>9. IsFields(c \o (d \o (e \o none)))
    BY <1>3, <1>8, JoinedFields
  <1>10. IsFields(b \o (c \o (d \o (e \o none))))
    BY <1>3, <1>9, JoinedFields
  <1>11. RegroupsSix(a, b, c, d, e, none)
    BY <1>3, <1>4, JoinedSix
  <1>12. IsAt(r0, a \o (b \o (c \o (d \o (e \o none)))))
    BY <1>2, <1>5, <1>6, <1>11 DEF RegroupsSix
  <1>13. /\ IsAt(r1, b \o (c \o (d \o (e \o none))))
         /\ r1.got = Append(<<>>, s.tmux_version)
    BY <1>6, <1>10, <1>12, NextU32 DEF a, r1
  <1>14. IsAt(r2, c \o (d \o (e \o none))) /\ r2.got = Append(r1.got, s.touched)
    BY <1>0, <1>9, <1>13, NextTimeOption DEF b, r2
  <1>15. HasGot(r3, r2, s.windows, d \o (e \o none), isWhole)
    BY <1>0, <1>8, <1>14, NextWindows DEF c, r3
  <1>16. CASE IsAt(r3, d \o (e \o none)) /\ r3.got = Append(r2.got, s.windows)
    <2>1. IsAt(r4, e \o none) /\ r4.got = Append(r3.got, s.sessions)
      BY <1>0, <1>7, <1>16, NextSessions DEF d, r4
    <2>2. IsAt(r5, none) /\ r5.got = Append(r4.got, s.clients)
      BY <1>0, <1>4, <2>1, NextClients DEF e, r5
    <2>3. r5.got = Append(Append(Append(Append(Append(<<>>, s.tmux_version), s.touched),
                       s.windows), s.sessions), s.clients)
      BY <1>13, <1>14, <1>16, <2>1, <2>2
    <2>4. /\ r5.got[1] = s.tmux_version /\ r5.got[2] = s.touched
          /\ r5.got[3] = s.windows /\ r5.got[4] = s.sessions /\ r5.got[5] = s.clients
      BY <2>3
    <2>5. NothingLeft(r5) = r5
      BY <2>2, NothingIsLeft DEF none
    <2> DEFINE made == With(AsRecord(r5, BodyFields), rest)
    <2>6. HasRead(made, s, none)
      BY <2>2, <2>4, BodyIsMade
    <2> HIDE DEF made, rest
    <2>7. Resolved(made, IsGraph) = made
      BY <1>0, <2>6 DEF Resolved, StopUnless, HasRead
    <2>8. DecodeBody(EncodeBody(s), s.origin, s.captured_at, blobs) = made
      BY <1>1, <2>5, <2>7 DEF made
    <2> QED
      BY <2>6, <2>8 DEF Reads, none
  <1>17. CASE ~ isWhole /\ ~ Runs(r3)
    <2>1. ~ Runs(r4)
      BY <1>17, NoneOfStoppedBody DEF r4
    <2>2. ~ Runs(r5)
      BY <2>1, NoneOfStoppedBody DEF r5
    <2> HIDE DEF rest
    <2>3. NothingLeft(r5) = r5 /\ AsRecord(r5, BodyFields) = r5 /\ With(r5, rest) = r5
      BY <2>2, StoppedIsStopped DEF NothingLeft, AsRecord, With
    <2>4. Resolved(r5, IsGraph) = r5
      BY <2>2 DEF Resolved, StopUnless
    <2> QED
      BY <1>1, <1>17, <2>2, <2>3, <2>4 DEF Reads
  <1> QED
    BY <1>15, <1>16, <1>17 DEF HasGot
-----------------------------------------------------------------------------
(***************************************************************************)
(* The header of a file, and the file.                                     *)
(***************************************************************************)
OriginFields == <<"pid", "start">>
HeaderFields == <<"origin", "captured_at", "tag", "length", "sum">>

LEMMA OriginFieldsAre ==
    /\ OriginFields \in [1..2 -> ToSet(OriginFields)]
    /\ \A i, j \in 1..2 : OriginFields[i] = OriginFields[j] => i = j
    /\ OriginFields[1] = "pid"
    /\ OriginFields[2] = "start"
  <1>1. OriginFields = <<"pid", "start">>
    BY DEF OriginFields
  <1>2. OriginFields \in [1..2 -> ToSet(OriginFields)]
    <2>1. DOMAIN OriginFields = 1..2 /\ OriginFields = [i \in 1..2 |-> OriginFields[i]]
      BY <1>1
    <2> QED
      BY <2>1 DEF ToSet
  <1>3. /\ OriginFields[1] = "pid"
        /\ OriginFields[2] = "start"
    BY <1>1
  <1>4. \A i \in 1..2 : i = 1 \/ i = 2
    OBVIOUS
  <1> QED
    BY <1>2, <1>3, <1>4

LEMMA HeaderFieldsAre ==
    /\ HeaderFields \in [1..5 -> ToSet(HeaderFields)]
    /\ \A i, j \in 1..5 : HeaderFields[i] = HeaderFields[j] => i = j
    /\ HeaderFields[1] = "origin"
    /\ HeaderFields[2] = "captured_at"
    /\ HeaderFields[3] = "tag"
    /\ HeaderFields[4] = "length"
    /\ HeaderFields[5] = "sum"
  <1>1. HeaderFields = <<"origin", "captured_at", "tag", "length", "sum">>
    BY DEF HeaderFields
  <1>2. HeaderFields \in [1..5 -> ToSet(HeaderFields)]
    <2>1. DOMAIN HeaderFields = 1..5 /\ HeaderFields = [i \in 1..5 |-> HeaderFields[i]]
      BY <1>1
    <2> QED
      BY <2>1 DEF ToSet
  <1>3. /\ HeaderFields[1] = "origin"
        /\ HeaderFields[2] = "captured_at"
        /\ HeaderFields[3] = "tag"
        /\ HeaderFields[4] = "length"
        /\ HeaderFields[5] = "sum"
    BY <1>1
  <1>4. \A i \in 1..5 : i = 1 \/ i = 2 \/ i = 3 \/ i = 4 \/ i = 5
    OBVIOUS
  <1> QED
    BY <1>2, <1>3, <1>4

LEMMA OriginOptionIsRead ==
    ASSUME NEW origin, IsOrigin(origin), NEW rest, IsFields(rest),
           NEW r, IsAt(r, WriteOption(origin, WriteOrigin) \o rest), r.got = <<>>
    PROVE  HasRead(OriginOption(r), origin, rest)
  <1> DEFINE server == origin[1]
             fields == WriteOrigin(server)
             tag == Take(r, "u8")
             a == U32(server.pid)
             b == I64(server.start)
  <1>1. IsAt(r, OptionFields(origin, fields) \o rest) /\ IsOption(origin)
    BY OptionsAreWritten DEF IsOrigin
  <1>2. IsFields(a) /\ IsFields(b)
    BY OneField DEF U32, I64
  <1>3. fields = a \o b
    BY DEF WriteOrigin
  <1> HIDE DEF a, b, fields
  <1>4. IsFields(fields) /\ IsFields(b \o rest) /\ (a \o b) \o rest = a \o (b \o rest)
    BY <1>2, <1>3, JoinedFields, JoinedThrice
  <1>5. ASSUME origin # None, IsAt(tag, fields \o rest), tag.got = r.got
        PROVE  HasRead(ReadOrigin(tag), origin[1], rest)
    <2> DEFINE r1 == AfterU32(tag)
               r2 == AfterI64(r1)
    <2>1. ReadOrigin(tag) = AsRecord(r2, OriginFields)
      BY DEF ReadOrigin, AfterI64, AfterU32, OriginFields
    <2> HIDE DEF tag
    <2>2. IsAt(r1, b \o rest) /\ r1.got = Append(<<>>, server.pid)
      BY <1>3, <1>4, <1>5, NextU32 DEF a
    <2> HIDE DEF r1
    <2>3. IsAt(r2, rest) /\ r2.got = Append(r1.got, server.start)
      BY <2>2, NextI64 DEF b
    <2> HIDE DEF r2
    <2>4. r2.got = Append(Append(<<>>, server.pid), server.start)
      BY <2>2, <2>3
    <2>5. r2.got[1] = server.pid /\ r2.got[2] = server.start
      BY <2>4
    <2>6. server = [pid |-> server.pid, start |-> server.start]
      BY <1>5 DEF IsOrigin
    <2> HIDE DEF server
    <2>7. \A i \in 1..2 : server[OriginFields[i]] = r2.got[i]
      <3>1. \A i \in 1..2 : i = 1 \/ i = 2
        OBVIOUS
      <3> QED
        BY <2>5, <3>1, OriginFieldsAre
    <2>8. server = [x \in ToSet(OriginFields) |-> server[x]]
      <3>1. ToSet(OriginFields) = {OriginFields[i] : i \in 1..2}
        BY OriginFieldsAre DEF ToSet
      <3>2. \A i \in 1..2 : i = 1 \/ i = 2
        OBVIOUS
      <3>3. {OriginFields[i] : i \in 1..2} = {OriginFields[1], OriginFields[2]}
        BY <3>2
      <3>4. ToSet(OriginFields) = {"pid", "start"}
        BY <3>1, <3>3, OriginFieldsAre
      <3> QED
        BY <2>6, <3>4
    <2>9. HasRead(AsRecord(r2, OriginFields), server, rest)
      BY <2>3, <2>7, <2>8, OriginFieldsAre, RecordIsMade
    <2> QED
      BY <2>1, <2>9 DEF server
  <1>6. HasRead(OptionOf(tag, ReadOrigin(tag)), origin, rest)
    <2> HIDE DEF server
    <2> QED
      BY <1>1, <1>4, <1>5, OptionIsRead
  <1> QED
    BY <1>6, OptionsAre

AfterOriginOption(r) == Then(r, LAMBDA o : ReadOption(o, ReadOrigin))

LEMMA NextOriginOption ==
    ASSUME NEW r, NEW origin, IsOrigin(origin), NEW rest, IsFields(rest),
           IsAt(r, WriteOption(origin, WriteOrigin) \o rest)
    PROVE  /\ IsAt(AfterOriginOption(r), rest)
           /\ AfterOriginOption(r).got = Append(r.got, origin)
  <1>1. HasRead(OriginOption(Fresh(r)), origin, rest)
    BY FreshIsAt, OriginOptionIsRead
  <1>2. AfterOriginOption(r) = Got(r, OriginOption(Fresh(r)))
    BY DEF AfterOriginOption, OriginOption, Then, Fresh
  <1> QED
    BY <1>1, <1>2, ItemIsGot

HeaderOf(origin, captured_at, tag, length, sum) ==
    WriteOption(origin, WriteOrigin) \o I64(captured_at) \o WriteOption(tag, Str)
    \o U64(length) \o Sum(sum)

HeaderValue(origin, captured_at, tag, length, sum, start) ==
    [origin |-> origin, captured_at |-> captured_at, tag |-> tag,
     length |-> length, sum |-> sum, version |-> Current, start |-> start]

LEMMA HeaderIsFields ==
    ASSUME NEW origin, NEW captured_at, NEW tag, NEW length, NEW sum
    PROVE  IsFields(HeaderOf(origin, captured_at, tag, length, sum))
  <1> DEFINE a == WriteOption(origin, WriteOrigin)
             b == I64(captured_at)
             c == WriteOption(tag, Str)
             d == U64(length)
             e == Sum(sum)
  <1>1. HeaderOf(origin, captured_at, tag, length, sum) = (((a \o b) \o c) \o d) \o e
    BY DEF HeaderOf
  <1>2. IsFields(a) /\ IsFields(b) /\ IsFields(c) /\ IsFields(d) /\ IsFields(e)
    BY OneField, OptionsAreFields DEF I64, U64, Sum
  <1> HIDE DEF a, b, c, d, e
  <1>3. IsFields(a \o b)
    BY <1>2, JoinedFields
  <1>4. IsFields((a \o b) \o c)
    BY <1>2, <1>3, JoinedFields
  <1>5. IsFields(((a \o b) \o c) \o d)
    BY <1>2, <1>4, JoinedFields
  <1> QED
    BY <1>1, <1>2, <1>5, JoinedFields

LEMMA HeaderIsMade ==
    ASSUME NEW origin, NEW captured_at, NEW tag, NEW length, NEW sum, NEW start,
           NEW rest, NEW r, IsAt(r, rest),
           r.got[1] = origin, r.got[2] = captured_at, r.got[3] = tag,
           r.got[4] = length, r.got[5] = sum
    PROVE  HasRead(With(AsRecord(r, HeaderFields), [version |-> Current, start |-> start]),
                   HeaderValue(origin, captured_at, tag, length, sum, start), rest)
  <1> DEFINE header == [origin |-> origin, captured_at |-> captured_at, tag |-> tag,
                        length |-> length, sum |-> sum]
             more == [version |-> Current, start |-> start]
             all == HeaderValue(origin, captured_at, tag, length, sum, start)
             read == AsRecord(r, HeaderFields)
  <1>1. ToSet(HeaderFields) = {"origin", "captured_at", "tag", "length", "sum"}
    <2>1. HeaderFields = <<"origin", "captured_at", "tag", "length", "sum">>
      BY DEF HeaderFields
    <2>2. ToSet(HeaderFields) = {HeaderFields[i] : i \in 1..5}
      BY <2>1 DEF ToSet
    <2>3. \A i \in 1..5 : i = 1 \/ i = 2 \/ i = 3 \/ i = 4 \/ i = 5
      OBVIOUS
    <2>4. {HeaderFields[i] : i \in 1..5} =
             {HeaderFields[1], HeaderFields[2], HeaderFields[3], HeaderFields[4], HeaderFields[5]}
      BY <2>3
    <2> QED
      BY <2>2, <2>4, HeaderFieldsAre
  <1>2. header = [x \in ToSet(HeaderFields) |-> header[x]]
    BY <1>1
  <1>3. \A i \in 1..5 : header[HeaderFields[i]] = r.got[i]
    <2>1. \A i \in 1..5 : i = 1 \/ i = 2 \/ i = 3 \/ i = 4 \/ i = 5
      OBVIOUS
    <2> QED
      BY <2>1, HeaderFieldsAre
  <1>4. Extended(header, more) = all
    <2>1. DOMAIN header \cup DOMAIN more = DOMAIN all
      BY DEF HeaderValue
    <2>2. Extended(header, more) =
             [x \in DOMAIN all |-> IF x \in DOMAIN header THEN header[x] ELSE more[x]]
      <3> HIDE DEF header, more, all
      <3> QED
        BY <2>1 DEF Extended
    <2>3. \A x \in DOMAIN all : all[x] = IF x \in DOMAIN header THEN header[x] ELSE more[x]
      BY DEF HeaderValue
    <2>4. all = [x \in DOMAIN all |-> all[x]]
      BY DEF HeaderValue
    <2> QED
      <3> HIDE DEF header, more, all
      <3> QED
        BY <2>2, <2>3, <2>4
  <1> HIDE DEF header, more, all
  <1>5. HasRead(read, header, rest)
    BY <1>2, <1>3, HeaderFieldsAre, RecordIsMade
  <1> HIDE DEF read
  <1>6. read.value = header /\ IsAt(read, rest)
    BY <1>5 DEF HasRead
  <1>7. With(read, more) = Yield(read, all)
    BY <1>4, <1>6 DEF With
  <1> QED
    BY <1>6, <1>7, ValueIsYielded DEF read, more, all

LEMMA HeaderIsRead ==
    ASSUME NEW origin, IsOrigin(origin), NEW captured_at, NEW tag, IsNamed(tag),
           NEW length, NEW sum, NEW file, NEW start,
           SubSeq(file, 4, start) = HeaderOf(origin, captured_at, tag, length, sum)
    PROVE  HasRead(ReadHeader(file, start),
                   HeaderValue(origin, captured_at, tag, length, sum, start), <<>>)
  <1> DEFINE none == <<>>
             a == WriteOption(origin, WriteOrigin)
             b == I64(captured_at)
             c == WriteOption(tag, Str)
             d == U64(length)
             e == Sum(sum)
             header == HeaderOf(origin, captured_at, tag, length, sum)
             r0 == Reader(header)
             r1 == AfterOriginOption(r0)
             r2 == AfterI64(r1)
             r3 == AfterNameOption(r2)
             r4 == AfterU64(r3)
             r5 == AfterSum(r4)
  <1>1. ReadHeader(file, start) =
           With(AsRecord(NothingLeft(r5), HeaderFields), [version |-> Current, start |-> start])
    BY DEF ReadHeader, AfterOriginOption, AfterI64, AfterNameOption, AfterU64, AfterSum,
           HeaderFields
  <1>2. header = (((a \o b) \o c) \o d) \o e
    BY DEF HeaderOf
  <1>3. IsFields(a) /\ IsFields(b) /\ IsFields(c) /\ IsFields(d) /\ IsFields(e)
    BY OneField, OptionsAreFields DEF I64, U64, Sum
  <1>4. IsFields(none)
    BY <1>3, JoinedWithNone
  <1>5. header \o none = header
    BY HeaderIsFields, JoinedWithNone
  <1>6. IsAt(r0, header) /\ r0.got = <<>>
    BY HeaderIsFields, ReaderIsAt
  <1> HIDE DEF none, a, b, c, d, e, r0, r1, r2, r3, r4, r5, header
  <1>7. IsFields(e \o none)
    BY <1>3, <1>4, JoinedFields
  <1>8. IsFields(d \o (e \o none))
    BY <1>3, <1>7, JoinedFields
  <1>9. IsFields(c \o (d \o (e \o none)))
    BY <1>3, <1>8, JoinedFields
  <1>10. IsFields(b \o (c \o (d \o (e \o none))))
    BY <1>3, <1>9, JoinedFields
  <1>11. RegroupsSix(a, b, c, d, e, none)
    BY <1>3, <1>4, JoinedSix
  <1>12. IsAt(r0, a \o (b \o (c \o (d \o (e \o none)))))
    BY <1>2, <1>5, <1>6, <1>11 DEF RegroupsSix
  <1>13. IsAt(r1, b \o (c \o (d \o (e \o none)))) /\ r1.got = Append(<<>>, origin)
    BY <1>6, <1>10, <1>12, NextOriginOption DEF a, r1
  <1>14. IsAt(r2, c \o (d \o (e \o none))) /\ r2.got = Append(r1.got, captured_at)
    BY <1>9, <1>13, NextI64 DEF b, r2
  <1>15. IsAt(r3, d \o (e \o none)) /\ r3.got = Append(r2.got, tag)
    BY <1>8, <1>14, NextNameOption DEF c, r3
  <1>16. IsAt(r4, e \o none) /\ r4.got = Append(r3.got, length)
    BY <1>7, <1>15, NextU64 DEF d, r4
  <1>17. IsAt(r5, none) /\ r5.got = Append(r4.got, sum)
    BY <1>4, <1>16, NextSum DEF e, r5
  <1>18. r5.got = Append(Append(Append(Append(Append(<<>>, origin), captured_at),
                     tag), length), sum)
    BY <1>13, <1>14, <1>15, <1>16, <1>17
  <1>19. /\ r5.got[1] = origin /\ r5.got[2] = captured_at
         /\ r5.got[3] = tag /\ r5.got[4] = length /\ r5.got[5] = sum
    BY <1>18
  <1>20. NothingLeft(r5) = r5
    BY <1>17, NothingIsLeft DEF none
  <1>21. HasRead(With(AsRecord(r5, HeaderFields), [version |-> Current, start |-> start]),
                 HeaderValue(origin, captured_at, tag, length, sum, start), none)
    BY <1>17, <1>19, HeaderIsMade
  <1> QED
    BY <1>1, <1>20, <1>21 DEF none

\* A file is its three first fields, its header and its body.
IsFile(file, version, header, body) ==
    /\ IsFields(file) /\ Len(file) = 3 + Len(header) + Len(body)
    /\ file[1] = Magic /\ file[2].is = version /\ file[3].is = Len(header)
    /\ SubSeq(file, 4, 3 + Len(header)) = header
    /\ SubSeq(file, 3 + Len(header) + 1, Len(file)) = body

LEMMA FileIs ==
    ASSUME NEW version, NEW header, IsFields(header), NEW body, IsFields(body)
    PROVE  IsFile(<<Magic>> \o U32(version) \o U32(Len(header)) \o header \o body,
                  version, header, body)
  <1> DEFINE one == [as |-> "u32", is |-> version]
             two == [as |-> "u32", is |-> Len(header)]
             n == Len(header)
             m == Len(body)
             file == (((<<Magic>> \o <<one>>) \o <<two>>) \o header) \o body
  <1>1. PICK T : header \in Seq(T) /\ body \in Seq(T)
    BY ManyAreFields
  <1> DEFINE S == T \cup {Magic, one, two}
  <1>2. header \in Seq(S) /\ body \in Seq(S)
    BY <1>1, SeqMonotonic
  <1>3. Magic \in S /\ one \in S /\ two \in S
    OBVIOUS
  <1>4. one.is = version /\ two.is = Len(header)
    OBVIOUS
  <1> HIDE DEF S, one, two
  <1>5. n \in Nat /\ m \in Nat
    BY <1>2
  <1> DEFINE first == (<<Magic>> \o <<one>>) \o <<two>>
  <1>6. first \in Seq(S) /\ Len(first) = 3 /\ first[1] = Magic /\ first[2] = one /\ first[3] = two
    BY <1>3
  <1> HIDE DEF first
  <1> DEFINE whole == (first \o header) \o body
  <1>7. /\ whole \in Seq(S) /\ Len(whole) = 3 + n + m
        /\ \A i \in 1..3 : whole[i] = first[i]
        /\ \A i \in 1..n : whole[3 + i] = header[i]
        /\ \A i \in 1..m : whole[3 + n + i] = body[i]
    <2> DEFINE begin == first \o header
    <2>1. /\ begin \in Seq(S) /\ Len(begin) = 3 + n
          /\ \A i \in 1..3 : begin[i] = first[i]
          /\ \A i \in 1..n : begin[3 + i] = header[i]
      <3>1. IsFields(first) /\ IsFields(header)
        BY <1>2, <1>6 DEF IsFields
      <3>2. begin \in Seq(S)
        BY <1>2, <1>6
      <3>3. /\ Len(begin) = Len(first) + n
            /\ \A i \in 1 .. Len(first) : begin[i] = first[i]
            /\ \A i \in 1..n : begin[Len(first) + i] = header[i]
        BY <3>1, JoinedFields
      <3> QED
        BY <1>6, <3>2, <3>3
    <2> HIDE DEF begin
    <2>0. IsFields(begin) /\ IsFields(body) /\ Len(begin) = 3 + n
      BY <1>2, <2>1 DEF IsFields
    <2>2. begin \o body \in Seq(S) /\ Len(begin \o body) = 3 + n + m
      <3>1. Len(begin \o body) = Len(begin) + Len(body)
        BY <2>0, JoinedFields
      <3>2. begin \o body \in Seq(S)
        BY <1>2, <2>1
      <3> QED
        BY <2>0, <3>1, <3>2
    <2>3. \A i \in 1 .. Len(begin) : (begin \o body)[i] = begin[i]
      BY <2>0, JoinedFields
    <2>4. \A i \in 1 .. Len(body) : (begin \o body)[Len(begin) + i] = body[i]
      BY <2>0, JoinedFields
    <2>5. \A i \in 1..3 : i \in 1 .. 3 + n
      BY <1>5
    <2>6. \A i \in 1..n : 3 + i \in 1 .. 3 + n
      BY <1>5
    <2> QED
      BY <2>0, <2>1, <2>2, <2>3, <2>4, <2>5, <2>6 DEF begin
  <1> HIDE DEF whole
  <1>8. SubSeq(whole, 4, 3 + n) = header
    <2> DEFINE sub == SubSeq(whole, 4, 3 + n)
    <2>1. sub \in Seq(S) /\ Len(sub) = n /\ \A i \in 1..n : sub[i] = whole[3 + i]
      <3>1. \A i \in 4 .. 3 + n : whole[i] \in S
        BY <1>5, <1>7
      <3> QED
        BY <1>5, <1>7, <3>1
    <2> HIDE DEF sub
    <2>2. sub = header
      <3>1. \A i \in 1..n : sub[i] = header[i]
        BY <1>7, <2>1
      <3> QED
        BY <1>2, <2>1, <3>1
    <2> QED
      BY <2>2 DEF sub
  <1>9. SubSeq(whole, 3 + n + 1, 3 + n + m) = body
    <2> DEFINE sub == SubSeq(whole, 3 + n + 1, 3 + n + m)
    <2>1. sub \in Seq(S) /\ Len(sub) = m /\ \A i \in 1..m : sub[i] = whole[3 + n + i]
      <3>1. \A i \in 3 + n + 1 .. 3 + n + m : whole[i] \in S
        BY <1>5, <1>7
      <3> QED
        BY <1>5, <1>7, <3>1
    <2> HIDE DEF sub
    <2>2. sub = body
      <3>1. \A i \in 1..m : sub[i] = body[i]
        BY <1>7, <2>1
      <3> QED
        BY <1>2, <2>1, <3>1
    <2> QED
      BY <2>2 DEF sub
  <1>10. whole[1] = Magic /\ whole[2].is = version /\ whole[3].is = n
    BY <1>4, <1>6, <1>7
  <1>11. IsFields(whole)
    BY <1>7 DEF IsFields
  <1>12. IsFile(whole, version, header, body)
    BY <1>7, <1>8, <1>9, <1>10, <1>11 DEF IsFile
  <1> QED
    BY <1>12 DEF whole, first, one, two, U32

\* A reader that was stopped at once.
LEMMA ReaderIsStopped ==
    ASSUME NEW fields, NEW error, error # "none"
    PROVE  ~ Runs(Stop(Reader(fields), error))
  <1> DEFINE none == <<>>
             value == None
  <1>1. Reader(fields) = [value |-> value, got |-> none, left |-> fields, error |-> "none"]
    BY DEF Reader
  <1> HIDE DEF none, value
  <1> QED
    BY <1>1 DEF Stop, Runs

\* A file that is well put together is opened as such: its header is read,
\* and its body by what the header says.
FileOf(version, header, body) ==
    <<Magic>> \o U32(version) \o U32(Len(header)) \o header \o body

LEMMA FileIsOpened ==
    ASSUME NEW header, IsFields(header), NEW body, IsFields(body), NEW blobs
    PROVE  LET file == FileOf(Current, header, body)
               read == ReadHeader(file, 3 + Len(header))
           IN  /\ SubSeq(file, 4, 3 + Len(header)) = header
               /\ Runs(read) /\ read.value.start = 3 + Len(header)
                     => DecodeFile(file, blobs) = DecodeBodyOf(body, read.value, blobs)
               /\ ~ Runs(read) => ~ Runs(DecodeFile(file, blobs))
  <1> DEFINE file == FileOf(Current, header, body)
             start == 3 + Len(header)
             read == ReadHeader(file, start)
  <1>1. file = <<Magic>> \o U32(Current) \o U32(Len(header)) \o header \o body
    BY DEF FileOf
  <1> HIDE DEF file
  <1>2. IsFile(file, Current, header, body)
    BY <1>1, FileIs
  <1>3. /\ Len(file) = 3 + Len(header) + Len(body) /\ file[1] = Magic
        /\ file[2].is = Current /\ file[3].is = Len(header)
        /\ SubSeq(file, 4, start) = header /\ SubSeq(file, start + 1, Len(file)) = body
    BY <1>2 DEF IsFile
  <1>4. Len(header) \in Nat /\ Len(body) \in Nat
    BY FieldsAreSeq
  <1>5. DecodeHeader(file) = read
    <2>1. ~ Len(file) < 2 /\ ~ Len(file) < 3 /\ ~ Len(file) < 3 + file[3].is
      BY <1>3, <1>4
    <2>2. DecodeHeader(file) = DecodeHeaderCurrent(file)
      BY <1>3, <2>1 DEF DecodeHeader, Current, BeforeOrigin
    <2>3. DecodeHeaderCurrent(file) = ReadHeader(file, 3 + file[3].is)
      BY <2>1 DEF DecodeHeaderCurrent
    <2> QED
      BY <1>3, <2>2, <2>3
  <1>6. DecodeFile(file, blobs) = DecodeRest(file, read, blobs)
    BY <1>5 DEF DecodeFile
  <1> HIDE DEF read
  <1>7. ~ Runs(read) => DecodeFile(file, blobs) = read
    BY <1>6 DEF DecodeRest
  <1>8. Runs(read) => DecodeFile(file, blobs) =
            DecodeBodyOf(SubSeq(file, read.value.start + 1, Len(file)), read.value, blobs)
    BY <1>6 DEF DecodeRest
  <1>9. Runs(read) /\ read.value.start = start
           => DecodeFile(file, blobs) = DecodeBodyOf(body, read.value, blobs)
    BY <1>3, <1>8
  <1> QED
    BY <1>3, <1>7, <1>9 DEF file, read

\* With a header of these fields.
LEMMA HeaderIsOpened ==
    ASSUME NEW origin, IsOrigin(origin), NEW captured_at, NEW length, NEW sum,
           NEW tag, IsNamed(tag), NEW body, IsFields(body), NEW blobs
    PROVE  LET header == HeaderOf(origin, captured_at, tag, length, sum)
               value == HeaderValue(origin, captured_at, tag, length, sum, 3 + Len(header))
               read == DecodeFile(FileOf(Current, header, body), blobs)
           IN  IF Len(body) # length \/ body # sum THEN ~ Runs(read)
               ELSE read = DecodeBody(body, origin, captured_at, blobs)
  <1> DEFINE header == HeaderOf(origin, captured_at, tag, length, sum)
             start == 3 + Len(header)
             file == FileOf(Current, header, body)
             read == ReadHeader(file, start)
             value == HeaderValue(origin, captured_at, tag, length, sum, start)
             decoded == DecodeFile(file, blobs)
  <1>1. IsFields(header)
    BY HeaderIsFields
  <1> HIDE DEF header
  <1>2. /\ SubSeq(file, 4, start) = header
        /\ Runs(read) /\ read.value.start = start
              => decoded = DecodeBodyOf(body, read.value, blobs)
    BY <1>1, FileIsOpened
  <1> HIDE DEF file, decoded, start
  <1>3. HasRead(read, value, <<>>)
    BY <1>2, HeaderIsRead DEF header
  <1> HIDE DEF read
  <1>4. Runs(read) /\ read.value = value
    BY <1>3, StillRuns DEF HasRead
  <1>5. /\ value.start = start /\ value.length = length /\ value.sum = sum
        /\ value.version = Current /\ value.origin = origin
        /\ value.captured_at = captured_at
    BY DEF HeaderValue
  <1> HIDE DEF value
  <1>6. decoded = DecodeBodyOf(body, value, blobs)
    BY <1>2, <1>4, <1>5
  <1>7. CASE Len(body) # length
    <2>1. decoded = Stop(Reader(body), "Truncated")
      BY <1>5, <1>6, <1>7 DEF DecodeBodyOf
    <2>2. ~ Runs(decoded)
      BY <2>1, ReaderIsStopped
    <2> QED
      BY <1>7, <2>2 DEF decoded, file, start, header
  <1>8. CASE Len(body) = length /\ body # sum
    <2>1. decoded = Stop(Reader(body), "ChecksumMismatch")
      BY <1>5, <1>6, <1>8 DEF DecodeBodyOf, SumMatches
    <2>2. ~ Runs(decoded)
      BY <2>1, ReaderIsStopped
    <2> QED
      BY <1>8, <2>2 DEF decoded, file, start, header
  <1>9. CASE Len(body) = length /\ body = sum
    <2>1. decoded = DecodeBody(body, origin, captured_at, blobs)
      BY <1>5, <1>6, <1>9 DEF DecodeBodyOf, SumMatches, Current, BeforeOrigin
    <2> QED
      BY <1>9, <2>1 DEF decoded, file, start, header
  <1> QED
    BY <1>7, <1>8, <1>9

\* What a snapshot is saved as.
FileHeader(s, tag) ==
    HeaderOf(s.origin, s.captured_at, tag, Len(EncodeBody(s)), EncodeBody(s))

LEMMA FileIsWritten ==
    ASSUME NEW s, NEW tag
    PROVE  EncodeFile(s, tag) = FileOf(Current, FileHeader(s, tag), EncodeBody(s))
  BY DEF EncodeFile, FileOf, FileHeader, HeaderOf

LEMMA FileIsRead ==
    ASSUME NEW s, IsSnapshotData(s), NEW tag, IsNamed(tag), NEW blobs,
           NEW isWhole, isWhole => AreAllThere(s.windows, blobs)
    PROVE  Reads(DecodeFile(EncodeFile(s, tag), blobs), s, <<>>, isWhole)
  <1> DEFINE body == EncodeBody(s)
             length == Len(body)
  <1>1. IsOrigin(s.origin) /\ IsFields(body)
    BY BodyIsFields DEF IsSnapshotData
  <1>2. EncodeFile(s, tag) = FileOf(Current, HeaderOf(s.origin, s.captured_at, tag, length, body), body)
    BY FileIsWritten DEF FileHeader
  <1> HIDE DEF body, length
  <1>3. length = Len(body) /\ body = EncodeBody(s)
    BY DEF body, length
  <1>4. DecodeFile(EncodeFile(s, tag), blobs) = DecodeBody(body, s.origin, s.captured_at, blobs)
    BY <1>1, <1>2, <1>3, HeaderIsOpened
  <1> QED
    BY <1>3, <1>4, BodyIsRead

\* The texts that saving puts beside the file are those its panes hold.
LEMMA TextsAreThere ==
    ASSUME NEW s, NEW blobs, \A text \in TextsOf(s) : IsWhole(text, blobs),
           AreWindows(s.windows)
    PROVE  AreAllThere(s.windows, blobs)
  <1> SUFFICES ASSUME NEW i \in DOMAIN s.windows, NEW j \in DOMAIN s.windows[i].panes,
                      s.windows[i].panes[j].content.is = "captured"
               PROVE  /\ IsWhole(s.windows[i].panes[j].content.scrollback, blobs)
                      /\ IsWhole(s.windows[i].panes[j].content.visible, blobs)
    BY DEF AreAllThere, AreThereFor, IsThereFor
  <1> DEFINE w == s.windows[i]
             pane == w.panes[j]
  <1>1. w \in ToSet(s.windows) /\ pane \in ToSet(w.panes)
    BY DEF ToSet
  <1>2. pane \in PanesOf(s)
    BY <1>1 DEF PanesOf
  <1>3. pane.content.scrollback \in TextsOf(s) /\ pane.content.visible \in TextsOf(s)
    BY <1>2 DEF TextsOf
  <1> QED
    BY <1>3

\* What `save` writes, `load` reads back (codec.rs, header.rs): a snapshot of
\* any shape, with or without a tag, comes back from its file as the very same
\* snapshot, unless a blob is not there or not whole - and while every text
\* the snapshot holds is, it does come back.
THEOREM FileReadsBack ==
    ASSUME NEW s, IsSnapshotData(s), NEW tag, IsNamed(tag), NEW blobs
    PROVE  LET read == DecodeFile(EncodeFile(s, tag), blobs)
           IN  /\ Runs(read) => read.value = s
               /\ (\A text \in TextsOf(s) : IsWhole(text, blobs)) => Runs(read)
  <1> DEFINE read == DecodeFile(EncodeFile(s, tag), blobs)
             isWhole == \A text \in TextsOf(s) : IsWhole(text, blobs)
  <1>1. isWhole => AreAllThere(s.windows, blobs)
    BY TextsAreThere DEF IsSnapshotData
  <1> HIDE DEF isWhole
  <1>2. Reads(read, s, <<>>, isWhole)
    BY <1>1, FileIsRead
  <1> HIDE DEF read
  <1>3. (Runs(read) => read.value = s) /\ (isWhole => Runs(read))
    BY <1>2, StillRuns DEF Reads, HasRead
  <1> QED
    BY <1>3 DEF read, isWhole

-----------------------------------------------------------------------------
(***************************************************************************)
(* A file that was damaged: what is wrong with it is found, unless it is   *)
(* something in the header that no checksum covers.                        *)
(***************************************************************************)
\* A field that is not what is asked for, or none.
LEMMA WrongField ==
    ASSUME NEW r, NEW as, NEW field, field.as # as, NEW rest, IsFields(rest),
           IsAt(r, <<field>> \o rest)
    PROVE  ~ Runs(Take(r, as))
  <1> DEFINE left == <<field>> \o rest
  <1>1. left # <<>> /\ Head(left) = field
    BY FirstField
  <1>2. PICK value, got : r = State(value, got, left)
    BY DEF IsAt
  <1> HIDE DEF left
  <1>3. Runs(r) /\ r.left = left
    BY <1>2 DEF State, Runs
  <1>4. Take(r, as) = [r EXCEPT !.error = "Truncated"]
    BY <1>1, <1>3 DEF Take, Stop
  <1>5. Take(r, as).error = "Truncated"
    BY <1>2, <1>4 DEF State
  <1> QED
    BY <1>5 DEF Runs

LEMMA NoField ==
    ASSUME NEW r, NEW as, IsAt(r, <<>>)
    PROVE  ~ Runs(Take(r, as))
  <1> DEFINE none == <<>>
  <1>1. PICK value, got : r = State(value, got, none)
    BY DEF IsAt
  <1> HIDE DEF none
  <1>2. Runs(r) /\ r.left = none
    BY <1>1 DEF State, Runs
  <1>3. Take(r, as) = [r EXCEPT !.error = "Truncated"]
    BY <1>2 DEF Take, Stop, none
  <1>4. Take(r, as).error = "Truncated"
    BY <1>1, <1>3 DEF State
  <1> QED
    BY <1>4 DEF Runs

LEMMA SomethingIsLeft ==
    ASSUME NEW r, NEW left, left # <<>>, IsAt(r, left)
    PROVE  ~ Runs(NothingLeft(r))
  <1> DEFINE none == <<>>
  <1>1. PICK value, got : r = State(value, got, left)
    BY DEF IsAt
  <1>2. Runs(r) /\ r.left = left
    BY <1>1 DEF State, Runs
  <1>3. NothingLeft(r) = [r EXCEPT !.error = "Truncated"]
    BY <1>2 DEF NothingLeft, StopUnless, Stop
  <1>4. NothingLeft(r).error = "Truncated"
    BY <1>1, <1>3 DEF State
  <1> QED
    BY <1>4 DEF Runs

\* A header that cannot be read, wherever it is.
HeaderStops(header) ==
    \A file, start : SubSeq(file, 4, start) = header => ~ Runs(ReadHeader(file, start))

HeaderStep(header, n) ==
    CASE n = 1 -> AfterOriginOption(Reader(header))
      [] n = 2 -> AfterI64(AfterOriginOption(Reader(header)))
      [] n = 3 -> AfterNameOption(AfterI64(AfterOriginOption(Reader(header))))
      [] n = 4 -> AfterU64(AfterNameOption(AfterI64(AfterOriginOption(Reader(header)))))
      [] n = 5 -> AfterSum(AfterU64(AfterNameOption(AfterI64(AfterOriginOption(Reader(header))))))

LEMMA HeaderSteps ==
    ASSUME NEW header
    PROVE  /\ HeaderStep(header, 1) = AfterOriginOption(Reader(header))
           /\ HeaderStep(header, 2) = AfterI64(HeaderStep(header, 1))
           /\ HeaderStep(header, 3) = AfterNameOption(HeaderStep(header, 2))
           /\ HeaderStep(header, 4) = AfterU64(HeaderStep(header, 3))
           /\ HeaderStep(header, 5) = AfterSum(HeaderStep(header, 4))
  BY DEF HeaderStep

LEMMA HeaderStopsAt ==
    ASSUME NEW header,
           \/ \E n \in 1..5 : ~ Runs(HeaderStep(header, n))
           \/ ~ Runs(NothingLeft(HeaderStep(header, 5)))
    PROVE  HeaderStops(header)
  <1> DEFINE r1 == HeaderStep(header, 1)
             r2 == HeaderStep(header, 2)
             r3 == HeaderStep(header, 3)
             r4 == HeaderStep(header, 4)
             r5 == HeaderStep(header, 5)
  <1>1. ~ Runs(r1) => ~ Runs(r2)
    BY HeaderSteps, NothingAfterStopped
  <1>2. ~ Runs(r2) => ~ Runs(r3)
    BY HeaderSteps, NoneOfStopped
  <1>3. ~ Runs(r3) => ~ Runs(r4)
    BY HeaderSteps, NothingAfterStopped
  <1>4. ~ Runs(r4) => ~ Runs(r5)
    BY HeaderSteps, NothingAfterStopped
  <1>5. ~ Runs(r5) => ~ Runs(NothingLeft(r5))
    BY DEF NothingLeft, StopUnless
  <1>6. \A n \in 1..5 : n = 1 \/ n = 2 \/ n = 3 \/ n = 4 \/ n = 5
    OBVIOUS
  <1>7. ~ Runs(NothingLeft(r5))
    BY <1>1, <1>2, <1>3, <1>4, <1>5, <1>6
  <1>8. ASSUME NEW file, NEW start, SubSeq(file, 4, start) = header
        PROVE  ~ Runs(ReadHeader(file, start))
    <2> DEFINE more == [version |-> Current, start |-> start]
               all == NothingLeft(r5)
    <2>1. ReadHeader(file, start) = With(AsRecord(all, HeaderFields), more)
      BY <1>8, HeaderSteps
         DEF ReadHeader, AfterOriginOption, AfterI64, AfterNameOption, AfterU64, AfterSum,
             HeaderFields
    <2> HIDE DEF all, more
    <2>2. ~ Runs(all)
      BY <1>7 DEF all
    <2>3. AsRecord(all, HeaderFields) = all
      BY <2>2, StoppedIsStopped DEF AsRecord
    <2>4. With(all, more) = all
      BY <2>2, StoppedIsStopped DEF With
    <2> QED
      BY <2>1, <2>2, <2>3, <2>4
  <1> QED
    BY <1>8 DEF HeaderStops

\* The tag of an option that is no tag, or that promises what is not there.
LEMMA OriginIsWrong ==
    ASSUME NEW header, NEW rest, IsFields(rest),
           \/ header = U8(2) \o rest
           \/ \E x : header = U8(1) \o (I64(x) \o rest)
           \/ \E x : header = U8(0) \o (U32(x) \o rest)
    PROVE  HeaderStops(header)
  <1> DEFINE r0 == Reader(header)
             s == Fresh(r0)
             tag == Take(s, "u8")
             r1 == HeaderStep(header, 1)
             r2 == HeaderStep(header, 2)
  <1>1. r1 = AfterOriginOption(r0) /\ r2 = AfterI64(r1)
    BY HeaderSteps
  <1>2. AfterOriginOption(r0) = Got(r0, OriginOption(s))
    BY DEF AfterOriginOption, OriginOption, Then, Fresh
  <1>3. OriginOption(s) = OptionOf(tag, ReadOrigin(tag))
    BY OptionsAre
  <1>4. \A item : ~ Runs(item) => ~ Runs(Got(r0, item))
    BY StoppedIsStopped
  <1> HIDE DEF r1, r2
  <1>5. CASE header = U8(2) \o rest
    <2>1. IsAt(s, <<[as |-> "u8", is |-> 2]>> \o rest)
      <3>1. IsFields(header)
        BY <1>5, FirstField DEF U8
      <3> QED
        BY <1>5, <3>1, ReaderIsAt, FreshIsAt DEF U8
    <2> HIDE DEF s, r0
    <2>2. HasRead(tag, 2, rest)
      BY <2>1, FieldIsTaken
    <2> HIDE DEF tag
    <2>3. tag.value = 2 /\ Runs(tag)
      BY <2>2, StillRuns DEF HasRead
    <2>4. OptionOf(tag, ReadOrigin(tag)) = Stop(tag, "InvalidTag")
      BY <2>3 DEF OptionOf
    <2>5. PICK value, got : tag = State(value, got, rest)
      BY <2>2 DEF HasRead, IsAt
    <2>6. ~ Runs(Stop(tag, "InvalidTag"))
      BY <2>5 DEF State, Runs, Stop
    <2>7. ~ Runs(r1)
      BY <1>1, <1>2, <1>3, <1>4, <2>4, <2>6
    <2> QED
      BY <2>7, HeaderStopsAt DEF r1
  <1>6. CASE \E x : header = U8(1) \o (I64(x) \o rest)
    <2>1. PICK x : header = U8(1) \o (I64(x) \o rest)
      BY <1>6
    <2> DEFINE field == [as |-> "i64", is |-> x]
               more == <<field>> \o rest
    <2>2. IsFields(more) /\ header = <<[as |-> "u8", is |-> 1]>> \o more
      BY <2>1, FirstField DEF U8, I64
    <2> HIDE DEF more
    <2>3. IsAt(s, <<[as |-> "u8", is |-> 1]>> \o more)
      <3>1. IsFields(header)
        BY <2>2, FirstField
      <3> QED
        BY <2>2, <3>1, ReaderIsAt, FreshIsAt
    <2> HIDE DEF s, r0
    <2>4. HasRead(tag, 1, more)
      BY <2>2, <2>3, FieldIsTaken
    <2> HIDE DEF tag
    <2>5. tag.value = 1 /\ Runs(tag) /\ IsAt(tag, more)
      BY <2>4, StillRuns DEF HasRead
    <2>6. OptionOf(tag, ReadOrigin(tag)) = Present(ReadOrigin(tag))
      BY <2>5 DEF OptionOf
    <2>7. ~ Runs(Take(Fresh(tag), "u32"))
      <3>1. IsAt(Fresh(tag), <<field>> \o rest)
        BY <2>5, FreshIsAt DEF more
      <3>2. field.as # "u32"
        OBVIOUS
      <3> HIDE DEF field
      <3> QED
        BY <3>1, <3>2, WrongField
    <2>8. ~ Runs(AfterU32(tag))
      <3>1. AfterU32(tag) = Got(tag, Take(Fresh(tag), "u32"))
        BY DEF AfterU32, Then, TakeU32, Fresh
      <3> QED
        BY <2>7, <3>1, StoppedIsStopped
    <2>9. ~ Runs(AfterI64(AfterU32(tag)))
      BY <2>8, NothingAfterStopped
    <2>10. ReadOrigin(tag) = AsRecord(AfterI64(AfterU32(tag)), OriginFields)
      BY DEF ReadOrigin, AfterI64, AfterU32, OriginFields
    <2>11. ~ Runs(ReadOrigin(tag))
      BY <2>9, <2>10, StoppedIsStopped DEF AsRecord
    <2>12. ~ Runs(Present(ReadOrigin(tag)))
      BY <2>11, StoppedIsStopped DEF Present
    <2>13. ~ Runs(r1)
      BY <1>1, <1>2, <1>3, <1>4, <2>6, <2>12
    <2> QED
      BY <2>13, HeaderStopsAt DEF r1
  <1>7. CASE \E x : header = U8(0) \o (U32(x) \o rest)
    <2>1. PICK x : header = U8(0) \o (U32(x) \o rest)
      BY <1>7
    <2> DEFINE field == [as |-> "u32", is |-> x]
               more == <<field>> \o rest
    <2>2. IsFields(more) /\ header = WriteOption(None, WriteOrigin) \o more /\ IsFields(header)
      BY <2>1, FirstField DEF U8, U32, WriteOption
    <2> HIDE DEF more
    <2>3. IsAt(r0, header)
      BY <2>2, ReaderIsAt
    <2>4. IsOrigin(None)
      BY DEF IsOrigin, IsOption
    <2> HIDE DEF s, r0
    <2>5. IsAt(r1, more)
      BY <1>1, <2>2, <2>3, <2>4, NextOriginOption
    <2>6. ~ Runs(Take(Fresh(r1), "i64"))
      <3>1. IsAt(Fresh(r1), <<field>> \o rest)
        BY <2>5, FreshIsAt DEF more
      <3>2. field.as # "i64"
        OBVIOUS
      <3> HIDE DEF field
      <3> QED
        BY <3>1, <3>2, WrongField
    <2>7. ~ Runs(r2)
      <3>1. AfterI64(r1) = Got(r1, Take(Fresh(r1), "i64"))
        BY DEF AfterI64, Then, TakeI64, Fresh
      <3> QED
        BY <1>1, <2>6, <3>1, StoppedIsStopped
    <2> QED
      BY <2>7, HeaderStopsAt DEF r2
  <1> QED
    BY <1>5, <1>6, <1>7

LEMMA TagIsWrong ==
    ASSUME NEW origin, IsOrigin(origin), NEW captured_at, NEW length,
           NEW rest, IsFields(rest)
    PROVE  HeaderStops(WriteOption(origin, WriteOrigin)
                          \o (I64(captured_at) \o (U8(1) \o (U64(length) \o rest))))
  <1> DEFINE field == [as |-> "u64", is |-> length]
             d == <<field>> \o rest
             c == U8(1) \o d
             b == I64(captured_at) \o c
             a == WriteOption(origin, WriteOrigin)
             header == a \o b
             r0 == Reader(header)
             r1 == HeaderStep(header, 1)
             r2 == HeaderStep(header, 2)
             r3 == HeaderStep(header, 3)
             s == Fresh(r2)
             tag == Take(s, "u8")
  <1>1. IsFields(d)
    BY FirstField
  <1> HIDE DEF d
  <1>2. IsFields(c)
    BY <1>1, FirstField DEF U8
  <1>3. c = <<[as |-> "u8", is |-> 1]>> \o d
    BY DEF U8
  <1> HIDE DEF c
  <1>4. IsFields(b)
    BY <1>2, FirstField DEF I64
  <1>5. b = I64(captured_at) \o c
    OBVIOUS
  <1> HIDE DEF b
  <1>6. IsFields(header)
    BY <1>4, OptionsAreFields, JoinedFields
  <1>7. r1 = AfterOriginOption(r0) /\ r2 = AfterI64(r1) /\ r3 = AfterNameOption(r2)
    BY HeaderSteps
  <1>8. IsAt(r0, header)
    BY <1>6, ReaderIsAt
  <1> HIDE DEF r1, r2, r3, r0
  <1>9. IsAt(r1, b)
    BY <1>4, <1>7, <1>8, NextOriginOption
  <1>10. IsAt(r2, c)
    BY <1>2, <1>5, <1>7, <1>9, NextI64
  <1>11. IsAt(s, c)
    BY <1>10, FreshIsAt
  <1> HIDE DEF s
  <1>12. HasRead(tag, 1, d)
    BY <1>1, <1>3, <1>11, FieldIsTaken
  <1> HIDE DEF tag
  <1>13. Runs(tag) /\ tag.value = 1 /\ IsAt(tag, <<field>> \o rest)
    BY <1>12, StillRuns DEF HasRead, d
  <1>14. ~ Runs(Take(tag, "str"))
    <2>1. field.as # "str"
      OBVIOUS
    <2> HIDE DEF field
    <2> QED
      BY <1>13, <2>1, WrongField
  <1>15. ~ Runs(TakeName(tag))
    BY <1>14, StoppedIsStopped DEF TakeName, TakeStr, NotEmpty
  <1>16. ~ Runs(Present(TakeName(tag)))
    BY <1>15, StoppedIsStopped DEF Present
  <1>17. NameOption(s) = Present(TakeName(tag))
    <2>1. NameOption(s) = OptionOf(tag, TakeName(tag))
      BY OptionsAre DEF tag
    <2> QED
      BY <1>13, <2>1 DEF OptionOf
  <1>18. AfterNameOption(r2) = Got(r2, NameOption(s))
    BY DEF AfterNameOption, NameOption, Then, Fresh, s
  <1>19. ~ Runs(r3)
    BY <1>7, <1>16, <1>17, <1>18, StoppedIsStopped
  <1>20. HeaderStops(header)
    BY <1>19, HeaderStopsAt DEF r3
  <1> QED
    BY <1>20 DEF b, c, d, U64

\* A header as it is read, up to one of its fields.
LEMMA HeaderIsReadUpTo ==
    ASSUME NEW origin, IsOrigin(origin), NEW captured_at, NEW length, NEW rest, IsFields(rest)
    PROVE  LET header == WriteOption(origin, WriteOrigin)
                            \o (I64(captured_at) \o (U8(0) \o (U64(length) \o rest)))
           IN  IsFields(header) /\ IsAt(HeaderStep(header, 4), rest)
  <1> DEFINE d == U64(length) \o rest
             c == WriteOption(None, Str) \o d
             b == I64(captured_at) \o c
             a == WriteOption(origin, WriteOrigin)
             header == a \o b
  <1>1. IsFields(d) /\ d = U64(length) \o rest
    BY FirstField DEF U64
  <1> HIDE DEF d
  <1>2. IsFields(c) /\ c = U8(0) \o d
    BY <1>1, FirstField DEF U8, WriteOption
  <1>3. c = WriteOption(None, Str) \o d
    OBVIOUS
  <1> HIDE DEF c
  <1>4. IsFields(b) /\ b = I64(captured_at) \o c
    BY <1>2, FirstField DEF I64
  <1> HIDE DEF b
  <1>5. IsFields(header)
    BY <1>4, OptionsAreFields, JoinedFields
  <1>6. IsAt(Reader(header), header)
    BY <1>5, ReaderIsAt
  <1>7. IsAt(HeaderStep(header, 1), b)
    BY <1>4, <1>6, HeaderSteps, NextOriginOption
  <1> HIDE DEF header
  <1>8. IsAt(HeaderStep(header, 2), c)
    BY <1>2, <1>4, <1>7, HeaderSteps, NextI64
  <1>9. IsNamed(None)
    BY DEF IsNamed, IsOption
  <1>10. IsAt(HeaderStep(header, 3), d)
    BY <1>1, <1>3, <1>8, <1>9, HeaderSteps, NextNameOption
  <1>11. IsAt(HeaderStep(header, 4), rest)
    BY <1>1, <1>10, HeaderSteps, NextU64
  <1>12. header = WriteOption(origin, WriteOrigin)
                     \o (I64(captured_at) \o (U8(0) \o (U64(length) \o rest)))
    BY <1>1, <1>2, <1>4 DEF header
  <1> QED
    BY <1>5, <1>11, <1>12 DEF header

\* A header of another length than it says.
LEMMA HeaderIsTooShort ==
    ASSUME NEW origin, IsOrigin(origin), NEW captured_at, NEW length
    PROVE  HeaderStops(WriteOption(origin, WriteOrigin)
                          \o (I64(captured_at) \o (U8(0) \o (U64(length) \o <<>>))))
  <1> DEFINE none == <<>>
             header == WriteOption(origin, WriteOrigin)
                          \o (I64(captured_at) \o (U8(0) \o (U64(length) \o none)))
             r4 == HeaderStep(header, 4)
             r5 == HeaderStep(header, 5)
  <1>1. IsFields(none)
    BY OneField, JoinedWithNone
  <1> HIDE DEF none
  <1>2. IsAt(r4, none)
    BY <1>1, HeaderIsReadUpTo
  <1> HIDE DEF header
  <1>3. r5 = AfterSum(r4)
    BY HeaderSteps
  <1> HIDE DEF r4, r5
  <1>4. IsAt(Fresh(r4), none)
    BY <1>2, FreshIsAt
  <1>5. ~ Runs(Take(Fresh(r4), "sum"))
    BY <1>4, NoField DEF none
  <1>6. AfterSum(r4) = Got(r4, Take(Fresh(r4), "sum"))
    BY DEF AfterSum, Then, TakeSum, Fresh
  <1>7. ~ Runs(r5)
    BY <1>3, <1>5, <1>6, StoppedIsStopped
  <1>8. HeaderStops(header)
    BY <1>7, HeaderStopsAt DEF r5
  <1> QED
    BY <1>8 DEF header, none

LEMMA HeaderIsTooLong ==
    ASSUME NEW origin, IsOrigin(origin), NEW captured_at, NEW length, NEW sum,
           NEW left, IsFields(left), left # <<>>
    PROVE  HeaderStops(WriteOption(origin, WriteOrigin)
                          \o (I64(captured_at) \o (U8(0) \o (U64(length) \o (Sum(sum) \o left)))))
  <1> DEFINE rest == Sum(sum) \o left
             header == WriteOption(origin, WriteOrigin)
                          \o (I64(captured_at) \o (U8(0) \o (U64(length) \o rest)))
             r4 == HeaderStep(header, 4)
             r5 == HeaderStep(header, 5)
  <1>1. IsFields(rest) /\ rest = Sum(sum) \o left
    BY FirstField DEF Sum
  <1> HIDE DEF rest
  <1>2. IsAt(r4, rest)
    BY <1>1, HeaderIsReadUpTo
  <1> HIDE DEF header
  <1>3. r5 = AfterSum(r4)
    BY HeaderSteps
  <1>4. IsAt(r5, left)
    <2> HIDE DEF r4, r5
    <2> QED
      BY <1>1, <1>2, <1>3, NextSum
  <1>5. ~ Runs(NothingLeft(r5))
    BY <1>4, SomethingIsLeft
  <1>6. HeaderStops(header)
    BY <1>5, HeaderStopsAt
  <1> QED
    BY <1>6 DEF header, rest

\* A field of a sequence altered, and one of two sequences that are joined.
IsAltered(f, fields, by, other) ==
    \E i \in DOMAIN fields :
        f = [fields EXCEPT ![i] = Altered(fields[i], by, other)]

LEMMA AlteredIsLong ==
    ASSUME NEW fields, IsFields(fields), NEW by, NEW other, NEW f,
           IsAltered(f, fields, by, other)
    PROVE  IsFields(f) /\ Len(f) = Len(fields)
  <1>1. PICK i \in DOMAIN fields :
               f = [fields EXCEPT ![i] = Altered(fields[i], by, other)]
    BY DEF IsAltered
  <1> DEFINE v == Altered(fields[i], by, other)
  <1>2. PICK T : fields \in Seq(T)
    BY DEF IsFields
  <1> HIDE DEF v
  <1>3. f = [fields EXCEPT ![i] = v]
    BY <1>1 DEF v
  <1>4. fields \in Seq(T \cup {v})
    BY <1>2, SeqMonotonic
  <1>5. f \in Seq(T \cup {v}) /\ Len(f) = Len(fields)
    BY <1>3, <1>4
  <1> QED
    BY <1>5 DEF IsFields

LEMMA AlteredIsOfOne ==
    ASSUME NEW x, IsFields(x), NEW y, IsFields(y), NEW by, NEW other, NEW f,
           IsAltered(f, x \o y, by, other)
    PROVE  \/ \E g : IsAltered(g, x, by, other) /\ f = g \o y
           \/ \E g : IsAltered(g, y, by, other) /\ f = x \o g
  <1> DEFINE all == x \o y
  <1>1. PICK i \in DOMAIN all : f = [all EXCEPT ![i] = Altered(all[i], by, other)]
    BY DEF IsAltered
  <1> DEFINE v == Altered(all[i], by, other)
  <1>2. /\ IsFields(all) /\ Len(all) = Len(x) + Len(y)
        /\ \A j \in 1 .. Len(x) : all[j] = x[j]
        /\ \A j \in 1 .. Len(y) : all[Len(x) + j] = y[j]
    BY JoinedFields
  <1>3. /\ Len(x) \in Nat /\ DOMAIN x = 1 .. Len(x)
        /\ Len(y) \in Nat /\ DOMAIN y = 1 .. Len(y) /\ DOMAIN all = 1 .. Len(x) + Len(y)
    BY <1>2, FieldsAreSeq
  <1>4. IsFields(f) /\ Len(f) = Len(x) + Len(y)
    <2>1. IsAltered(f, all, by, other)
      OBVIOUS
    <2> HIDE DEF all
    <2> QED
      BY <1>2, <2>1, AlteredIsLong
  <1>5. \A j \in 1 .. Len(x) + Len(y) : f[j] = IF j = i THEN v ELSE all[j]
    <2> HIDE DEF v
    <2>1. f = [all EXCEPT ![i] = v]
      BY <1>1 DEF v
    <2> HIDE DEF all
    <2> QED
      BY <1>1, <1>3, <2>1
  <1>6. f = [j \in 1 .. Len(x) + Len(y) |-> f[j]]
    BY <1>4, FieldsAreSeq
  <1> HIDE DEF all, v
  <1>7. CASE i <= Len(x)
    <2> DEFINE g == [x EXCEPT ![i] = v]
    <2>1. i \in DOMAIN x /\ all[i] = x[i]
      BY <1>2, <1>3, <1>7
    <2>2. IsAltered(g, x, by, other)
      BY <2>1 DEF IsAltered, v
    <2>3. IsFields(g) /\ Len(g) = Len(x)
      BY <2>2, AlteredIsLong
    <2>4. \A j \in 1 .. Len(x) : g[j] = IF j = i THEN v ELSE x[j]
      BY <1>3, <2>1
    <2> HIDE DEF g
    <2>5. /\ IsFields(g \o y) /\ Len(g \o y) = Len(x) + Len(y)
          /\ \A j \in 1 .. Len(x) : (g \o y)[j] = g[j]
          /\ \A j \in 1 .. Len(y) : (g \o y)[Len(x) + j] = y[j]
      BY <2>3, JoinedFields
    <2>6. ASSUME NEW j \in 1 .. Len(x) + Len(y)
          PROVE  (g \o y)[j] = f[j]
      <3>1. CASE j <= Len(x)
        <4>1. j \in 1 .. Len(x)
          BY <1>3, <3>1
        <4> QED
          BY <1>2, <1>5, <2>4, <2>5, <4>1
      <3>2. CASE ~ j <= Len(x)
        <4>1. j - Len(x) \in 1 .. Len(y) /\ Len(x) + (j - Len(x)) = j /\ j # i
          BY <1>3, <1>7, <3>2
        <4>2. (g \o y)[Len(x) + (j - Len(x))] = y[j - Len(x)]
          BY <2>5, <4>1
        <4>3. all[Len(x) + (j - Len(x))] = y[j - Len(x)]
          BY <1>2, <4>1
        <4> QED
          BY <1>5, <4>1, <4>2, <4>3
      <3> QED
        BY <3>1, <3>2
    <2>7. g \o y = [j \in 1 .. Len(x) + Len(y) |-> (g \o y)[j]]
      BY <2>5, FieldsAreSeq
    <2>8. f = g \o y
      BY <1>6, <2>6, <2>7
    <2> QED
      BY <2>2, <2>8
  <1>8. CASE ~ i <= Len(x)
    <2> DEFINE k == i - Len(x)
               g == [y EXCEPT ![k] = v]
    <2>1. k \in DOMAIN y /\ all[i] = y[k] /\ i = Len(x) + k
      <3>1. k \in 1 .. Len(y) /\ i = Len(x) + k
        BY <1>3, <1>8
      <3> QED
        BY <1>2, <1>3, <3>1
    <2> HIDE DEF k
    <2>2. IsAltered(g, y, by, other)
      BY <2>1 DEF IsAltered, v
    <2>3. IsFields(g) /\ Len(g) = Len(y)
      BY <2>2, AlteredIsLong
    <2>4. \A j \in 1 .. Len(y) : g[j] = IF j = k THEN v ELSE y[j]
      BY <1>3, <2>1
    <2> HIDE DEF g
    <2>5. /\ IsFields(x \o g) /\ Len(x \o g) = Len(x) + Len(y)
          /\ \A j \in 1 .. Len(x) : (x \o g)[j] = x[j]
          /\ \A j \in 1 .. Len(y) : (x \o g)[Len(x) + j] = g[j]
      BY <2>3, JoinedFields
    <2>6. ASSUME NEW j \in 1 .. Len(x) + Len(y)
          PROVE  (x \o g)[j] = f[j]
      <3>1. CASE j <= Len(x)
        <4>1. j \in 1 .. Len(x) /\ j # i
          BY <1>3, <1>8, <3>1
        <4> QED
          BY <1>2, <1>5, <2>5, <4>1
      <3>2. CASE ~ j <= Len(x)
        <4>1. j - Len(x) \in 1 .. Len(y) /\ Len(x) + (j - Len(x)) = j
          BY <1>3, <3>2
        <4>2. (x \o g)[Len(x) + (j - Len(x))] = g[j - Len(x)]
          BY <2>5, <4>1
        <4>3. all[Len(x) + (j - Len(x))] = y[j - Len(x)]
          BY <1>2, <4>1
        <4>4. j = i <=> j - Len(x) = k
          BY <1>3, <2>1
        <4> QED
          BY <1>5, <2>4, <4>1, <4>2, <4>3, <4>4
      <3> QED
        BY <3>1, <3>2
    <2>7. x \o g = [j \in 1 .. Len(x) + Len(y) |-> (x \o g)[j]]
      BY <2>5, FieldsAreSeq
    <2>8. f = x \o g
      BY <1>6, <2>6, <2>7
    <2> QED
      BY <2>2, <2>8
  <1> QED
    BY <1>3, <1>7, <1>8

LEMMA AlteredAlone ==
    ASSUME NEW field, NEW by, NEW other, NEW f, IsAltered(f, <<field>>, by, other)
    PROVE  f = <<Altered(field, by, other)>>
  <1> DEFINE v == Altered(field, by, other)
  <1>0. PICK i \in DOMAIN <<field>> :
               f = [<<field>> EXCEPT ![i] = Altered(<<field>>[i], by, other)]
    BY DEF IsAltered
  <1>1. f = [<<field>> EXCEPT ![1] = v]
    <2>1. i = 1 /\ <<field>>[1] = field
      OBVIOUS
    <2>2. Altered(<<field>>[i], by, other) = v
      BY <2>1
    <2> HIDE DEF v
    <2> QED
      BY <1>0, <2>1, <2>2
  <1> HIDE DEF v
  <1>2. f = <<v>>
    BY <1>1
  <1> QED
    BY <1>2 DEF v

\* The larger of nought and a number.
LEMMA MaxOfTwo ==
    ASSUME NEW n \in Int
    PROVE  Max({0, n}) = IF n < 0 THEN 0 ELSE n
  <1> DEFINE m == IF n < 0 THEN 0 ELSE n
  <1>1. m \in {0, n} /\ \A y \in {0, n} : m >= y
    OBVIOUS
  <1>2. \A x \in {0, n} : (\A y \in {0, n} : x >= y) => x = m
    OBVIOUS
  <1> HIDE DEF m
  <1>3. Max({0, n}) = m
    BY <1>1, <1>2 DEF Max
  <1> QED
    BY <1>3 DEF m

\* What becomes of a field.
LEMMA AlteredNumber ==
    ASSUME NEW as, as # "bytes", as # "sum", NEW x, NEW by, NEW other
    PROVE  Altered([as |-> as, is |-> x], by, other) = [as |-> as, is |-> Max({0, x + by})]
  <1> DEFINE field == [as |-> as, is |-> x]
             v == Max({0, x + by})
  <1>1. field.as = as /\ field.is = x
    OBVIOUS
  <1>2. Altered(field, by, other) = [field EXCEPT !.is = Max({0, field.is + by})]
    <2> HIDE DEF field
    <2> QED
      BY <1>1 DEF Altered
  <1>3. Altered(field, by, other) = [field EXCEPT !.is = v]
    BY <1>1, <1>2
  <1> HIDE DEF v
  <1> QED
    BY <1>3 DEF v

LEMMA AlteredSum ==
    ASSUME NEW x, NEW by, NEW other
    PROVE  Altered([as |-> "sum", is |-> x], by, other) = [as |-> "sum", is |-> <<>>]
  <1> DEFINE field == [as |-> "sum", is |-> x]
             none == <<>>
  <1>1. field.as = "sum" /\ field.is = x
    OBVIOUS
  <1> HIDE DEF none
  <1>2. Altered(field, by, other) = [field EXCEPT !.is = none]
    <2> HIDE DEF field
    <2> QED
      BY <1>1 DEF Altered, none
  <1>3. [field EXCEPT !.is = none] = [as |-> "sum", is |-> none]
    OBVIOUS
  <1> QED
    BY <1>2, <1>3 DEF none

\* An origin that differs in one of its two numbers at most.
IsNear(origin, to) ==
    \/ origin = to
    \/ /\ origin # None /\ to # None
       /\ origin[1].pid = to[1].pid \/ origin[1].start = to[1].start

OriginOf(pid, start) == Some([pid |-> pid, start |-> start])

LEMMA SomeOrigin ==
    ASSUME NEW pid, NEW start
    PROVE  /\ IsOrigin(OriginOf(pid, start)) /\ OriginOf(pid, start) # None
           /\ OriginOf(pid, start)[1].pid = pid /\ OriginOf(pid, start)[1].start = start
           /\ OptionFields(OriginOf(pid, start), WriteOrigin(OriginOf(pid, start)[1]))
                  = U8(1) \o (U32(pid) \o I64(start))
  <1> DEFINE origin == OriginOf(pid, start)
  <1> DEFINE server == [pid |-> pid, start |-> start]
  <1>0. origin = Some(server)
    BY DEF OriginOf
  <1> HIDE DEF origin
  <1>1. origin # None /\ origin[1] = server
    BY <1>0 DEF Some, None
  <1>2. server.pid = pid /\ server.start = start
    OBVIOUS
  <1>3. server = [pid |-> server.pid, start |-> server.start]
    OBVIOUS
  <1> HIDE DEF server
  <1>4. origin = Some(origin[1])
    BY <1>0, <1>1
  <1>5. IsOrigin(origin)
    BY <1>1, <1>3, <1>4 DEF IsOrigin, IsOption
  <1>6. OptionFields(origin, WriteOrigin(origin[1])) = U8(1) \o WriteOrigin(server)
    BY <1>1 DEF OptionFields
  <1>7. WriteOrigin(server) = U32(pid) \o I64(start)
    BY <1>2 DEF WriteOrigin
  <1> QED
    BY <1>1, <1>2, <1>5, <1>6, <1>7 DEF origin

LEMMA AlteredOrigin ==
    ASSUME NEW origin, IsOrigin(origin), NEW by \in {-1, 1}, NEW other, NEW f,
           IsAltered(f, WriteOption(origin, WriteOrigin), by, other),
           NEW captured_at, NEW more, IsFields(more)
    PROVE  \/ \E o : IsOrigin(o) /\ IsNear(o, origin) /\ f = WriteOption(o, WriteOrigin)
           \/ HeaderStops(f \o (I64(captured_at) \o more))
  <1>1. CASE origin = None
    <2>1. WriteOption(origin, WriteOrigin) = <<[as |-> "u8", is |-> 0]>>
      BY <1>1 DEF WriteOption, U8
    <2>2. f = <<Altered([as |-> "u8", is |-> 0], by, other)>>
      BY <2>1, AlteredAlone
    <2>3. f = U8(Max({0, 0 + by}))
      BY <2>2, AlteredNumber DEF U8
    <2>4. Max({0, 0 + by}) = IF by = 1 THEN 1 ELSE 0
      BY MaxOfTwo
    <2>5. CASE by = 1
      <3>1. f = U8(1)
        BY <2>3, <2>4, <2>5
      <3> QED
        BY <3>1, OriginIsWrong
    <2>6. CASE by # 1
      <3>1. f = WriteOption(origin, WriteOrigin)
        BY <2>1, <2>3, <2>4, <2>6 DEF U8
      <3> QED
        BY <3>1 DEF IsNear
    <2> QED
      BY <2>5, <2>6
  <1>2. CASE origin # None
    <2> DEFINE pid == origin[1].pid
               start == origin[1].start
               a == U8(1)
               b == U32(pid)
               c == I64(start)
               bc == b \o c
               rest == I64(captured_at) \o more
    <2>1. origin = Some(origin[1]) /\ origin[1] = [pid |-> pid, start |-> start]
      BY <1>2 DEF IsOrigin, IsOption
    <2>2. WriteOption(origin, WriteOrigin) = a \o bc
      <3>1. origin = OriginOf(pid, start)
        BY <2>1 DEF OriginOf
      <3> HIDE DEF pid, start
      <3>2. OptionFields(origin, WriteOrigin(origin[1])) = U8(1) \o (U32(pid) \o I64(start))
        BY <3>1, SomeOrigin
      <3>3. WriteOption(origin, WriteOrigin) = OptionFields(origin, WriteOrigin(origin[1]))
        BY OptionsAreWritten
      <3> QED
        BY <3>2, <3>3
    <2> HIDE DEF pid, start
    <2>3. IsFields(a) /\ IsFields(b) /\ IsFields(c) /\ IsFields(rest)
      BY OneField, FirstField DEF U8, U32, I64
    <2> HIDE DEF a, b, c, rest
    <2>4. IsFields(bc)
      BY <2>3, JoinedFields
    <2>5. ASSUME NEW g, IsAltered(g, a, by, other), f = g \o bc
          PROVE  HeaderStops(f \o rest)
      <3>1. g = <<Altered([as |-> "u8", is |-> 1], by, other)>>
        BY <2>5, AlteredAlone DEF a, U8
      <3>2. g = U8(Max({0, 1 + by}))
        BY <3>1, AlteredNumber DEF U8
      <3>3. Max({0, 1 + by}) = IF by = 1 THEN 2 ELSE 0
        BY MaxOfTwo
      <3>4. g = U8(2) \/ g = U8(0)
        BY <3>2, <3>3
      <3>5. IsFields(g)
        BY <3>2, OneField DEF U8
      <3>6. IsFields(bc \o rest) /\ f \o rest = g \o (bc \o rest)
        <4> HIDE DEF bc
        <4>1. IsFields(bc \o rest)
          BY <2>3, <2>4, JoinedFields
        <4>2. RegroupsThree(g, bc, rest)
          BY <2>3, <2>4, <3>5, JoinedThree
        <4> QED
          BY <2>5, <4>1, <4>2 DEF RegroupsThree
      <3>7. IsFields(c \o rest) /\ bc \o rest = b \o (c \o rest)
        <4>1. IsFields(c \o rest)
          BY <2>3, JoinedFields
        <4>2. RegroupsThree(b, c, rest)
          BY <2>3, JoinedThree
        <4> QED
          BY <4>1, <4>2 DEF RegroupsThree
      <3>8. CASE g = U8(2)
        BY <3>6, <3>8, OriginIsWrong
      <3>9. CASE g = U8(0)
        <4>1. f \o rest = U8(0) \o (U32(pid) \o (c \o rest))
          BY <3>6, <3>7, <3>9 DEF b
        <4> QED
          BY <3>7, <4>1, OriginIsWrong
      <3> QED
        BY <3>4, <3>8, <3>9
    <2>6. ASSUME NEW g, IsAltered(g, b, by, other), f = a \o (g \o c)
          PROVE  \E o : IsOrigin(o) /\ IsNear(o, origin) /\ f = WriteOption(o, WriteOrigin)
      <3> DEFINE x == Max({0, pid + by})
                 o == OriginOf(x, start)
      <3>1. g = U32(x)
        <4>1. g = <<Altered([as |-> "u32", is |-> pid], by, other)>>
          BY <2>6, AlteredAlone DEF b, U32
        <4> QED
          BY <4>1, AlteredNumber DEF U32
      <3> HIDE DEF x
      <3>2. /\ IsOrigin(o) /\ o # None /\ o[1].start = start
            /\ WriteOption(o, WriteOrigin) = f
        <4>2. /\ IsOrigin(o) /\ o # None /\ o[1].start = start
              /\ OptionFields(o, WriteOrigin(o[1])) = U8(1) \o (U32(x) \o I64(start))
          BY SomeOrigin
        <4>3. WriteOption(o, WriteOrigin) = OptionFields(o, WriteOrigin(o[1]))
          BY OptionsAreWritten
        <4> QED
          BY <2>6, <3>1, <4>2, <4>3 DEF a, c
      <3> HIDE DEF o
      <3>3. IsNear(o, origin)
        BY <1>2, <3>2 DEF IsNear, pid, start
      <3> QED
        BY <3>2, <3>3
    <2>7. ASSUME NEW g, IsAltered(g, c, by, other), f = a \o (b \o g)
          PROVE  \E o : IsOrigin(o) /\ IsNear(o, origin) /\ f = WriteOption(o, WriteOrigin)
      <3> DEFINE x == Max({0, start + by})
                 o == OriginOf(pid, x)
      <3>1. g = I64(x)
        <4>1. g = <<Altered([as |-> "i64", is |-> start], by, other)>>
          BY <2>7, AlteredAlone DEF c, I64
        <4> QED
          BY <4>1, AlteredNumber DEF I64
      <3> HIDE DEF x
      <3>2. /\ IsOrigin(o) /\ o # None /\ o[1].pid = pid
            /\ WriteOption(o, WriteOrigin) = f
        <4>2. /\ IsOrigin(o) /\ o # None /\ o[1].pid = pid
              /\ OptionFields(o, WriteOrigin(o[1])) = U8(1) \o (U32(pid) \o I64(x))
          BY SomeOrigin
        <4>3. WriteOption(o, WriteOrigin) = OptionFields(o, WriteOrigin(o[1]))
          BY OptionsAreWritten
        <4> QED
          BY <2>7, <3>1, <4>2, <4>3 DEF a, b
      <3> HIDE DEF o
      <3>3. IsNear(o, origin)
        BY <1>2, <3>2 DEF IsNear, pid, start
      <3> QED
        BY <3>2, <3>3
    <2>8. \/ \E g : IsAltered(g, a, by, other) /\ f = g \o bc
          \/ \E g : IsAltered(g, bc, by, other) /\ f = a \o g
      <3>1. IsAltered(f, a \o bc, by, other)
        BY <2>2
      <3> HIDE DEF bc
      <3> QED
        BY <2>3, <2>4, <3>1, AlteredIsOfOne
    <2>9. \A g : IsAltered(g, bc, by, other) =>
             \/ \E h : IsAltered(h, b, by, other) /\ g = h \o c
             \/ \E h : IsAltered(h, c, by, other) /\ g = b \o h
      <3> SUFFICES ASSUME NEW g, IsAltered(g, b \o c, by, other)
                   PROVE  \/ \E h : IsAltered(h, b, by, other) /\ g = h \o c
                          \/ \E h : IsAltered(h, c, by, other) /\ g = b \o h
        OBVIOUS
      <3> QED
        BY <2>3, AlteredIsOfOne, SMTT(30)
    <2> HIDE DEF bc
    <2> QED
      BY <2>5, <2>6, <2>7, <2>8, <2>9 DEF rest
  <1> QED
    BY <1>1, <1>2

RegroupsFive(a, b, c, d, e) ==
    (((a \o b) \o c) \o d) \o e = a \o (b \o (c \o (d \o e)))

LEMMA JoinedFive ==
    ASSUME NEW x, NEW y, NEW z, NEW d, NEW e,
           IsFields(x), IsFields(y), IsFields(z), IsFields(d), IsFields(e)
    PROVE  RegroupsFive(x, y, z, d, e)
  <1>1. IsFields(x \o y) /\ IsFields(d \o e)
    BY JoinedFields
  <1>2. IsFields((x \o y) \o z)
    BY <1>1, JoinedFields
  <1> DEFINE xyz == (x \o y) \o z
             de == d \o e
  <1>3. (xyz \o d) \o e = xyz \o de
    <2>1. IsFields(xyz)
      BY <1>2
    <2> HIDE DEF xyz
    <2>2. RegroupsThree(xyz, d, e)
      BY <2>1, JoinedThree
    <2> QED
      BY <2>2 DEF RegroupsThree
  <1>4. RegroupsFour(x, y, z, de)
    <2> HIDE DEF de
    <2> QED
      BY <1>1, JoinedFour DEF de
  <1>5. xyz \o de = x \o (y \o (z \o de))
    <2> HIDE DEF de
    <2> QED
      BY <1>4 DEF RegroupsFour
  <1>6. (((x \o y) \o z) \o d) \o e = x \o (y \o (z \o (d \o e)))
    BY <1>3, <1>5
  <1> QED
    BY <1>6 DEF RegroupsFive

\* A header that was altered is refused, or it is that of another origin,
\* time, length or sum.
LEMMA AlteredHeader ==
    ASSUME NEW origin, IsOrigin(origin), NEW captured_at, NEW length, NEW sum,
           NEW by \in {-1, 1}, NEW other, NEW f,
           IsAltered(f, HeaderOf(origin, captured_at, None, length, sum), by, other)
    PROVE  \/ \E o, t, n, b : IsOrigin(o) /\ IsNear(o, origin) /\ f = HeaderOf(o, t, None, n, b)
           \/ HeaderStops(f)
  <1> DEFINE a == WriteOption(origin, WriteOrigin)
             b == I64(captured_at)
             c == WriteOption(None, Str)
             d == U64(length)
             e == Sum(sum)
             more == c \o (d \o e)
  <1>1. HeaderOf(origin, captured_at, None, length, sum) = (((a \o b) \o c) \o d) \o e
    BY DEF HeaderOf
  <1>2. IsFields(a) /\ IsFields(b) /\ IsFields(c) /\ IsFields(d) /\ IsFields(e)
    BY OneField, OptionsAreFields DEF I64, U64, Sum
  <1>3. c = U8(0)
    BY DEF WriteOption
  <1>4. IsNear(origin, origin)
    BY DEF IsNear
  <1> HIDE DEF a, b, c, d, e
  <1>5. IsFields(a \o b)
    BY <1>2, JoinedFields
  <1>6. IsFields((a \o b) \o c)
    BY <1>2, <1>5, JoinedFields
  <1>7. IsFields(((a \o b) \o c) \o d)
    BY <1>2, <1>6, JoinedFields
  <1>8. \A x, y, z : IsFields(x) /\ IsFields(y) /\ IsFields(z) => RegroupsFive(x, y, z, d, e)
    BY <1>2, JoinedFive
  <1>9. ASSUME NEW g, IsAltered(g, e, by, other), f = (((a \o b) \o c) \o d) \o g
        PROVE  \E o, t, n, s : IsOrigin(o) /\ IsNear(o, origin) /\ f = HeaderOf(o, t, None, n, s)
    <2>1. g = Sum(<<>>)
      <3>1. g = <<Altered([as |-> "sum", is |-> sum], by, other)>>
        BY <1>9, AlteredAlone DEF e, Sum
      <3> QED
        BY <3>1, AlteredSum DEF Sum
    <2>2. f = HeaderOf(origin, captured_at, None, length, <<>>)
      BY <1>9, <2>1 DEF HeaderOf, a, b, c, d
    <2> QED
      BY <1>4, <2>2
  <1>10. ASSUME NEW g, IsAltered(g, d, by, other), f = (((a \o b) \o c) \o g) \o e
         PROVE  \E o, t, n, s : IsOrigin(o) /\ IsNear(o, origin) /\ f = HeaderOf(o, t, None, n, s)
    <2> DEFINE x == Max({0, length + by})
    <2>1. g = U64(x)
      <3>1. g = <<Altered([as |-> "u64", is |-> length], by, other)>>
        BY <1>10, AlteredAlone DEF d, U64
      <3> QED
        BY <3>1, AlteredNumber DEF U64
    <2> HIDE DEF x
    <2>2. f = HeaderOf(origin, captured_at, None, x, sum)
      BY <1>10, <2>1 DEF HeaderOf, a, b, c, e
    <2> QED
      BY <1>4, <2>2
  <1>11. ASSUME NEW g, IsAltered(g, c, by, other), f = (((a \o b) \o g) \o d) \o e
         PROVE  \/ f = HeaderOf(origin, captured_at, None, length, sum)
                \/ HeaderStops(f)
    <2>1. g = U8(Max({0, 0 + by}))
      <3>1. g = <<Altered([as |-> "u8", is |-> 0], by, other)>>
        BY <1>3, <1>11, AlteredAlone DEF U8
      <3> QED
        BY <3>1, AlteredNumber DEF U8
    <2>2. Max({0, 0 + by}) = IF by = 1 THEN 1 ELSE 0
      BY MaxOfTwo
    <2>3. CASE by = 1
      <3>1. g = U8(1)
        BY <2>1, <2>2, <2>3
      <3>2. f = a \o (b \o (U8(1) \o (d \o e)))
        <4>1. IsFields(g)
          BY <3>1, OneField DEF U8
        <4> QED
          <5>1. (((a \o b) \o g) \o d) \o e = a \o (b \o (g \o (d \o e)))
            <6>1. RegroupsFive(a, b, g, d, e)
              BY <1>2, <1>8, <4>1
            <6> QED
              BY <6>1 DEF RegroupsFive
          <5> QED
            BY <1>11, <3>1, <5>1
      <3>3. HeaderStops(f)
        BY <1>2, <3>2, TagIsWrong DEF a, b, d
      <3> QED
        BY <3>3
    <2>4. CASE by # 1
      <3>1. g = c
        BY <1>3, <2>1, <2>2, <2>4
      <3> QED
        BY <1>1, <1>11, <3>1
    <2> QED
      BY <2>3, <2>4
  <1>12. ASSUME NEW g, IsAltered(g, b, by, other), f = (((a \o g) \o c) \o d) \o e
         PROVE  \E o, t, n, s : IsOrigin(o) /\ IsNear(o, origin) /\ f = HeaderOf(o, t, None, n, s)
    <2> DEFINE x == Max({0, captured_at + by})
    <2>1. g = I64(x)
      <3>1. g = <<Altered([as |-> "i64", is |-> captured_at], by, other)>>
        BY <1>12, AlteredAlone DEF b, I64
      <3> QED
        BY <3>1, AlteredNumber DEF I64
    <2> HIDE DEF x
    <2>2. f = HeaderOf(origin, x, None, length, sum)
      BY <1>12, <2>1 DEF HeaderOf, a, c, d, e
    <2> QED
      BY <1>4, <2>2
  <1>13. ASSUME NEW g, IsAltered(g, a, by, other), f = (((g \o b) \o c) \o d) \o e
         PROVE  \/ \E o, t, n, s : IsOrigin(o) /\ IsNear(o, origin) /\ f = HeaderOf(o, t, None, n, s)
                \/ HeaderStops(f)
    <2>1. IsFields(g)
      BY <1>2, <1>13, AlteredIsLong
    <2>2. IsFields(d \o e)
      BY <1>2, JoinedFields
    <2>3. IsFields(more)
      <3> HIDE DEF e, d, c
      <3> QED
        BY <1>2, <2>2, JoinedFields
    <2>4. f = g \o (b \o more)
      <3>1. (((g \o b) \o c) \o d) \o e = g \o (b \o (c \o (d \o e)))
        <4>1. RegroupsFive(g, b, c, d, e)
          BY <1>2, <1>8, <2>1
        <4> QED
          BY <4>1 DEF RegroupsFive
      <3> QED
        BY <1>13, <3>1
    <2>5. \/ \E o : IsOrigin(o) /\ IsNear(o, origin) /\ g = WriteOption(o, WriteOrigin)
          \/ HeaderStops(g \o (I64(captured_at) \o more))
      <3> HIDE DEF more
      <3> QED
        BY <1>13, <2>3, AlteredOrigin DEF a
    <2>6. CASE \E o : IsOrigin(o) /\ IsNear(o, origin) /\ g = WriteOption(o, WriteOrigin)
      <3>1. PICK o : IsOrigin(o) /\ IsNear(o, origin) /\ g = WriteOption(o, WriteOrigin)
        BY <2>6
      <3>2. f = HeaderOf(o, captured_at, None, length, sum)
        BY <1>13, <3>1 DEF HeaderOf, b, c, d, e
      <3> QED
        BY <3>1, <3>2
    <2> QED
      BY <2>4, <2>5, <2>6 DEF b
  <1>14. \/ \E g : IsAltered(g, e, by, other) /\ f = (((a \o b) \o c) \o d) \o g
         \/ \E g : IsAltered(g, d, by, other) /\ f = (((a \o b) \o c) \o g) \o e
         \/ \E g : IsAltered(g, c, by, other) /\ f = (((a \o b) \o g) \o d) \o e
         \/ \E g : IsAltered(g, b, by, other) /\ f = (((a \o g) \o c) \o d) \o e
         \/ \E g : IsAltered(g, a, by, other) /\ f = (((g \o b) \o c) \o d) \o e
    <2> DEFINE ab == a \o b
               abc == ab \o c
               abcd == abc \o d
    <2>1. \/ \E g : IsAltered(g, abcd, by, other) /\ f = g \o e
          \/ \E g : IsAltered(g, e, by, other) /\ f = abcd \o g
      <3>1. IsFields(abcd) /\ IsAltered(f, abcd \o e, by, other)
        BY <1>1, <1>7
      <3> HIDE DEF abcd
      <3> QED
        BY <1>2, <3>1, AlteredIsOfOne
    <2>2. \A h : IsAltered(h, abcd, by, other) =>
             \/ \E g : IsAltered(g, abc, by, other) /\ h = g \o d
             \/ \E g : IsAltered(g, d, by, other) /\ h = abc \o g
      <3>1. IsFields(abc)
        BY <1>6
      <3> HIDE DEF abc
      <3> QED
        BY <1>2, <3>1, AlteredIsOfOne
    <2>3. \A h : IsAltered(h, abc, by, other) =>
             \/ \E g : IsAltered(g, ab, by, other) /\ h = g \o c
             \/ \E g : IsAltered(g, c, by, other) /\ h = ab \o g
      <3>1. IsFields(ab)
        BY <1>5
      <3> HIDE DEF ab
      <3> QED
        BY <1>2, <3>1, AlteredIsOfOne
    <2>4. \A h : IsAltered(h, ab, by, other) =>
             \/ \E g : IsAltered(g, a, by, other) /\ h = g \o b
             \/ \E g : IsAltered(g, b, by, other) /\ h = a \o g
      BY <1>2, AlteredIsOfOne
    <2>5. CASE \E g : IsAltered(g, e, by, other) /\ f = abcd \o g
      BY <2>5
    <2>6. CASE \E g : IsAltered(g, abcd, by, other) /\ f = g \o e
      <3>1. PICK h : IsAltered(h, abcd, by, other) /\ f = h \o e
        BY <2>6
      <3>2. CASE \E g : IsAltered(g, d, by, other) /\ h = abc \o g
        BY <3>1, <3>2
      <3>3. CASE \E g : IsAltered(g, abc, by, other) /\ h = g \o d
        <4>1. PICK k : IsAltered(k, abc, by, other) /\ h = k \o d
          BY <3>3
        <4>2. CASE \E g : IsAltered(g, c, by, other) /\ k = ab \o g
          BY <3>1, <4>1, <4>2
        <4>3. CASE \E g : IsAltered(g, ab, by, other) /\ k = g \o c
          <5>1. PICK m : IsAltered(m, ab, by, other) /\ k = m \o c
            BY <4>3
          <5>2. f = ((m \o c) \o d) \o e
            BY <3>1, <4>1, <5>1
          <5>3. CASE \E g : IsAltered(g, a, by, other) /\ m = g \o b
            BY <5>2, <5>3
          <5>4. CASE \E g : IsAltered(g, b, by, other) /\ m = a \o g
            BY <5>2, <5>4
          <5> QED
            BY <2>4, <5>1, <5>3, <5>4
        <4> QED
          BY <2>3, <4>1, <4>2, <4>3
      <3> QED
        BY <2>2, <3>1, <3>2, <3>3
    <2> QED
      BY <2>1, <2>5, <2>6
  <1>15. CASE f = HeaderOf(origin, captured_at, None, length, sum)
    BY <1>4, <1>15
  <1> HIDE DEF more
  <1> QED
    BY <1>9, <1>10, <1>11, <1>12, <1>13, <1>14, <1>15
-----------------------------------------------------------------------------
(***************************************************************************)
(* A file that a disk damaged.                                             *)
(***************************************************************************)
Headed(s, o, t) == [s EXCEPT !.origin = o, !.captured_at = t]

\* It does not come back, or it does in all but what its header says.
IsTheSame(read, s) ==
    Runs(read) =>
        \E o, t : IsNear(o, s.origin) /\ read.value = Headed(s, o, t)

SnapshotOf(a, b, c, d, e, origin, captured_at) ==
    [tmux_version |-> a, touched |-> b, windows |-> c, sessions |-> d, clients |-> e,
     origin |-> origin, captured_at |-> captured_at]

LEMMA SnapshotIsChanged ==
    ASSUME NEW a, NEW b, NEW c, NEW d, NEW e, NEW f, NEW g, NEW o, NEW t,
           NEW s, s = SnapshotOf(a, b, c, d, e, f, g)
    PROVE  Headed(s, o, t) = SnapshotOf(a, b, c, d, e, o, t)
  <1>1. [s EXCEPT !.origin = o] = SnapshotOf(a, b, c, d, e, o, g)
    BY DEF SnapshotOf
  <1> DEFINE r == [s EXCEPT !.origin = o]
  <1>2. [s EXCEPT !.origin = o, !.captured_at = t] = [r EXCEPT !.captured_at = t]
    OBVIOUS
  <1> HIDE DEF r
  <1>3. r = SnapshotOf(a, b, c, d, e, o, g)
    BY <1>1 DEF r
  <1>4. [r EXCEPT !.captured_at = t] = SnapshotOf(a, b, c, d, e, o, t)
    BY <1>3 DEF SnapshotOf
  <1> QED
    BY <1>2, <1>4 DEF Headed

\* With another header before it, the body is still that of the snapshot.
LEMMA NewHeaderIsRead ==
    ASSUME NEW s, IsSnapshotData(s), NEW o, IsOrigin(o), IsNear(o, s.origin),
           NEW t, NEW n, NEW b, NEW blobs
    PROVE  IsTheSame(DecodeFile(FileOf(Current, HeaderOf(o, t, None, n, b), EncodeBody(s)), blobs), s)
  <1> DEFINE body == EncodeBody(s)
             new == Headed(s, o, t)
             read == DecodeFile(FileOf(Current, HeaderOf(o, t, None, n, b), body), blobs)
  <1>1. IsNamed(None) /\ IsFields(body)
    BY BodyIsFields DEF IsNamed, IsOption
  <1>2. s = [tmux_version |-> s.tmux_version, touched |-> s.touched,
             windows |-> s.windows, sessions |-> s.sessions, clients |-> s.clients,
             origin |-> s.origin, captured_at |-> s.captured_at]
    BY DEF IsSnapshotData
  <1>3. new = [tmux_version |-> s.tmux_version, touched |-> s.touched,
               windows |-> s.windows, sessions |-> s.sessions, clients |-> s.clients,
               origin |-> o, captured_at |-> t]
    <2>1. s = SnapshotOf(s.tmux_version, s.touched, s.windows, s.sessions, s.clients,
                         s.origin, s.captured_at)
      BY <1>2 DEF SnapshotOf
    <2>2. PICK a, b1, c, d, e, f, g : s = SnapshotOf(a, b1, c, d, e, f, g)
      BY <2>1
    <2>3. /\ s.tmux_version = a /\ s.touched = b1 /\ s.windows = c
          /\ s.sessions = d /\ s.clients = e
      BY <2>2 DEF SnapshotOf
    <2>4. new = SnapshotOf(a, b1, c, d, e, o, t)
      BY <2>2, SnapshotIsChanged
    <2> QED
      BY <2>3, <2>4 DEF SnapshotOf
  <1> HIDE DEF new
  <1>4. /\ new.tmux_version = s.tmux_version /\ new.touched = s.touched
        /\ new.windows = s.windows /\ new.sessions = s.sessions
        /\ new.clients = s.clients /\ new.origin = o /\ new.captured_at = t
    BY <1>3
  <1>5. IsSnapshotData(new)
    BY <1>3, <1>4 DEF IsSnapshotData, IsGraph
  <1>6. EncodeBody(new) = body
    BY <1>4 DEF EncodeBody
  <1> HIDE DEF body
  <1>7. IF Len(body) # n \/ body # b THEN ~ Runs(read)
        ELSE read = DecodeBody(body, o, t, blobs)
    BY <1>1, HeaderIsOpened
  <1>8. Reads(DecodeBody(body, o, t, blobs), new, <<>>, FALSE)
    BY <1>4, <1>5, <1>6, BodyIsRead
  <1> HIDE DEF read
  <1>9. Runs(read) => read.value = new
    BY <1>7, <1>8 DEF Reads, HasRead
  <1> QED
    BY <1>9 DEF IsTheSame, new, read, body

\* With another body behind its header, it does not.
LEMMA NewBodyIsRefused ==
    ASSUME NEW s, IsSnapshotData(s), NEW tag, IsNamed(tag), NEW body, IsFields(body),
           body # EncodeBody(s), NEW blobs
    PROVE  ~ Runs(DecodeFile(FileOf(Current, FileHeader(s, tag), body), blobs))
  <1> DEFINE sum == EncodeBody(s)
             length == Len(sum)
             read == DecodeFile(FileOf(Current, FileHeader(s, tag), body), blobs)
  <1>1. FileHeader(s, tag) = HeaderOf(s.origin, s.captured_at, tag, length, sum)
    BY DEF FileHeader
  <1>2. IsOrigin(s.origin)
    BY DEF IsSnapshotData
  <1> HIDE DEF sum, length
  <1>3. body # sum
    BY DEF sum
  <1> QED
    BY <1>1, <1>2, <1>3, HeaderIsOpened

\* How long two sequences are, joined.
LEMMA JoinedLengths ==
    ASSUME NEW x, NEW y, IsFields(x), IsFields(y)
    PROVE  IsFields(x \o y) /\ Len(x \o y) = Len(x) + Len(y)
  BY JoinedFields

\* The fields that are ahead of a header.
Ahead(version, n) == (<<Magic>> \o U32(version)) \o U32(n)

LEMMA AheadIsFields ==
    ASSUME NEW version, NEW n
    PROVE  IsFields(Ahead(version, n)) /\ Len(Ahead(version, n)) = 3
  <1> DEFINE one == [as |-> "u32", is |-> version]
             two == [as |-> "u32", is |-> n]
             ahead == (<<Magic>> \o <<one>>) \o <<two>>
  <1>1. IsFields(<<Magic>>) /\ IsFields(<<one>>) /\ IsFields(<<two>>)
    BY OneField
  <1>2. /\ Len(<<Magic>>) = 1 /\ Len(<<one>>) = 1 /\ Len(<<two>>) = 1
        /\ 1 + 1 = 2 /\ 2 + 1 = 3
    OBVIOUS
  <1> DEFINE begin == <<Magic>> \o <<one>>
  <1> HIDE DEF one, two
  <1>3. IsFields(begin) /\ Len(begin) = 2
    BY <1>1, <1>2, JoinedLengths
  <1>4. IsFields(begin \o <<two>>) /\ Len(begin \o <<two>>) = 3
    <2> DEFINE last == <<two>>
    <2>1. IsFields(last) /\ Len(last) = 1
      BY <1>1, <1>2
    <2> HIDE DEF begin, last
    <2>2. IsFields(begin \o last) /\ Len(begin \o last) = Len(begin) + Len(last)
      BY <1>3, <2>1, JoinedLengths
    <2>3. Len(begin \o last) = 3
      BY <1>3, <2>1, <2>2
    <2> QED
      BY <2>2, <2>3 DEF last
  <1> QED
    BY <1>4 DEF Ahead, U32, one, two

LEMMA FileIsAhead ==
    ASSUME NEW version, NEW header, NEW body
    PROVE  FileOf(version, header, body) = (Ahead(version, Len(header)) \o header) \o body
  BY DEF FileOf, Ahead

\* The lengths of the parts of a file.
LEMMA HeaderIsLong ==
    ASSUME NEW origin, NEW captured_at, NEW tag, NEW length, NEW sum
    PROVE  LET header == HeaderOf(origin, captured_at, tag, length, sum)
           IN  IsFields(header) /\ Len(header) \in Nat /\ Len(header) >= 3
  <1> DEFINE a == WriteOption(origin, WriteOrigin)
             b == I64(captured_at)
             c == WriteOption(tag, Str)
             d == U64(length)
             e == Sum(sum)
             header == HeaderOf(origin, captured_at, tag, length, sum)
  <1>1. header = (((a \o b) \o c) \o d) \o e
    BY DEF HeaderOf
  <1>2. IsFields(a) /\ IsFields(b) /\ IsFields(c) /\ IsFields(d) /\ IsFields(e)
    BY OneField, OptionsAreFields DEF I64, U64, Sum
  <1>3. Len(b) = 1 /\ Len(d) = 1 /\ Len(e) = 1
    BY DEF I64, U64, Sum
  <1> HIDE DEF a, b, c, d, e, header
  <1> DEFINE ab == a \o b
             abc == ab \o c
             abcd == abc \o d
  <1>4. IsFields(ab) /\ Len(ab) = Len(a) + 1
    BY <1>2, <1>3, JoinedLengths
  <1>5. IsFields(abc) /\ Len(abc) = (Len(a) + 1) + Len(c)
    <2> HIDE DEF ab
    <2> QED
      BY <1>2, <1>4, JoinedLengths
  <1>6. IsFields(abcd) /\ Len(abcd) = ((Len(a) + 1) + Len(c)) + 1
    <2> HIDE DEF abc
    <2> QED
      BY <1>2, <1>3, <1>5, JoinedLengths
  <1>7. IsFields(header) /\ Len(header) = (((Len(a) + 1) + Len(c)) + 1) + 1
    <2>1. header = abcd \o e
      BY <1>1
    <2> HIDE DEF abcd
    <2> QED
      BY <1>2, <1>3, <1>6, <2>1, JoinedLengths
  <1>8. Len(a) \in Nat /\ Len(c) \in Nat
    BY <1>2, FieldsAreSeq
  <1> QED
    BY <1>7, <1>8 DEF header

LEMMA BodyIsLong ==
    ASSUME NEW s, IsSnapshotData(s)
    PROVE  /\ IsFields(EncodeBody(s)) /\ Len(EncodeBody(s)) \in Nat
           /\ \E first, rest : IsFields(rest) /\ EncodeBody(s) = <<first>> \o rest
  <1> DEFINE first == [as |-> "u32", is |-> s.tmux_version]
             b == WriteOption(s.touched, I64)
             c == WriteVec(s.windows, EncodeWindow)
             d == WriteVec(s.sessions, EncodeSession)
             e == WriteVec(s.clients, WriteClient)
             de == d \o e
             cde == c \o de
             rest == b \o cde
  <1>1. EncodeBody(s) = (((<<first>> \o b) \o c) \o d) \o e
    BY DEF EncodeBody, U32
  <1>2. IsFields(EncodeBody(s)) /\ IsFields(c) /\ IsFields(d) /\ IsFields(e)
    BY BodyIsFields
  <1>3. IsFields(<<first>>) /\ IsFields(b)
    BY OneField, OptionsAreFields
  <1> HIDE DEF first, b, c, d, e
  <1>4. IsFields(de)
    BY <1>2, JoinedFields
  <1>5. IsFields(cde)
    <2> HIDE DEF de
    <2> QED
      BY <1>2, <1>4, JoinedFields
  <1>6. IsFields(rest)
    <2> HIDE DEF cde
    <2> QED
      BY <1>3, <1>5, JoinedFields
  <1>7. EncodeBody(s) = <<first>> \o rest
    <2>1. RegroupsFive(<<first>>, b, c, d, e)
      BY <1>2, <1>3, JoinedFive
    <2> QED
      BY <1>1, <2>1 DEF RegroupsFive
  <1> QED
    BY <1>2, <1>6, <1>7, FieldsAreSeq
LEMMA BodyIsAnother ==
    ASSUME NEW s, IsSnapshotData(s), NEW body, IsFields(body), NEW blobs
    PROVE  IsTheSame(DecodeFile(FileOf(Current, FileHeader(s, None), body), blobs), s)
  <1> DEFINE read == DecodeFile(FileOf(Current, FileHeader(s, None), body), blobs)
  <1>1. CASE body = EncodeBody(s)
    <2>1. IsOrigin(s.origin) /\ IsNear(s.origin, s.origin)
      BY DEF IsSnapshotData, IsNear
    <2> QED
      BY <1>1, <2>1, NewHeaderIsRead DEF FileHeader
  <1>2. CASE body # EncodeBody(s)
    <2>1. IsNamed(None)
      BY DEF IsNamed, IsOption
    <2>2. ~ Runs(read)
      BY <1>2, <2>1, NewBodyIsRefused
    <2> QED
      BY <2>2 DEF IsTheSame
  <1> QED
    BY <1>1, <1>2

LEMMA HeaderIsAnother ==
    ASSUME NEW s, IsSnapshotData(s), NEW by \in {-1, 1}, NEW other, NEW header,
           IsAltered(header, FileHeader(s, None), by, other), NEW blobs
    PROVE  IsTheSame(DecodeFile(FileOf(Current, header, EncodeBody(s)), blobs), s)
  <1> DEFINE body == EncodeBody(s)
             length == Len(body)
             file == FileOf(Current, header, body)
             read == DecodeFile(file, blobs)
  <1>1. FileHeader(s, None) = HeaderOf(s.origin, s.captured_at, None, length, body)
    BY DEF FileHeader
  <1>2. IsOrigin(s.origin) /\ IsFields(body)
    BY BodyIsFields DEF IsSnapshotData
  <1>3. IsFields(header)
    <2>1. IsFields(FileHeader(s, None))
      BY <1>1, HeaderIsFields
    <2> QED
      BY <2>1, AlteredIsLong
  <1>4. \/ \E o, t, n, b : /\ IsOrigin(o) /\ IsNear(o, s.origin)
                           /\ header = HeaderOf(o, t, None, n, b)
        \/ HeaderStops(header)
    <2>1. IsAltered(header, HeaderOf(s.origin, s.captured_at, None, length, body), by, other)
      BY <1>1
    <2> HIDE DEF body, length
    <2> QED
      BY <1>2, <2>1, AlteredHeader
  <1>5. CASE \E o, t, n, b : /\ IsOrigin(o) /\ IsNear(o, s.origin)
                             /\ header = HeaderOf(o, t, None, n, b)
    BY <1>5, NewHeaderIsRead
  <1>6. CASE HeaderStops(header)
    <2> HIDE DEF body
    <2>1. SubSeq(file, 4, 3 + Len(header)) = header
      BY <1>2, <1>3, FileIsOpened
    <2>2. ~ Runs(ReadHeader(file, 3 + Len(header)))
      BY <1>6, <2>1 DEF HeaderStops
    <2>3. ~ Runs(read)
      BY <1>2, <1>3, <2>2, FileIsOpened
    <2> QED
      BY <2>3 DEF IsTheSame, body
  <1> QED
    BY <1>4, <1>5, <1>6

\* A header that is read up to where it stops.
LEMMA StopsInHeader ==
    ASSUME NEW header, IsFields(header), HeaderStops(header), NEW body, IsFields(body),
           NEW blobs
    PROVE  ~ Runs(DecodeFile(FileOf(Current, header, body), blobs))
  <1> DEFINE file == FileOf(Current, header, body)
  <1>1. SubSeq(file, 4, 3 + Len(header)) = header
    BY FileIsOpened
  <1>2. ~ Runs(ReadHeader(file, 3 + Len(header)))
    BY <1>1 DEF HeaderStops
  <1> QED
    BY <1>2, FileIsOpened

\* A header whose length is said to be one less, or one more.
LEMMA LengthIsLess ==
    ASSUME NEW s, IsSnapshotData(s), NEW k, k = Len(FileHeader(s, None)) - 1, NEW blobs
    PROVE  LET file == (Ahead(Current, k) \o FileHeader(s, None)) \o EncodeBody(s)
           IN  ~ Runs(DecodeFile(file, blobs))
  <1> DEFINE body == EncodeBody(s)
             none == <<>>
             a == WriteOption(s.origin, WriteOrigin)
             b == I64(s.captured_at)
             c == WriteOption(None, Str)
             d == U64(Len(body))
             e == Sum(body)
             ahead == Ahead(Current, k)
             header == FileHeader(s, None)
             short == ((a \o b) \o c) \o d
  <1>1. header = short \o e
    BY DEF FileHeader, HeaderOf
  <1>2. IsFields(a) /\ IsFields(b) /\ IsFields(c) /\ IsFields(d) /\ IsFields(e)
    BY OneField, OptionsAreFields DEF I64, U64, Sum
  <1>3. IsFields(body) /\ IsFields(ahead) /\ Len(e) = 1 /\ IsOrigin(s.origin)
    BY BodyIsFields, AheadIsFields DEF Sum, IsSnapshotData
  <1>4. c = U8(0)
    BY DEF WriteOption
  <1>5. IsFields(none)
    BY <1>2, JoinedWithNone
  <1>6. HeaderStops(a \o (b \o (c \o (d \o none))))
    BY <1>3, <1>4, HeaderIsTooShort
  <1> HIDE DEF a, b, c, d, e, body, header, none
  <1>7. IsFields(a \o b)
    BY <1>2, JoinedFields
  <1>8. IsFields((a \o b) \o c)
    BY <1>2, <1>7, JoinedFields
  <1>9. IsFields(short)
    BY <1>2, <1>8, JoinedFields
  <1>10. RegroupsFive(a, b, c, d, none)
    BY <1>2, <1>5, JoinedFive
  <1>11. short \o none = a \o (b \o (c \o (d \o none)))
    BY <1>10 DEF RegroupsFive
  <1> HIDE DEF short, ahead
  <1>12. HeaderStops(short)
    BY <1>6, <1>9, <1>11, JoinedWithNone DEF none
  <1>13. IsFields(e \o body)
    BY <1>2, <1>3, JoinedFields
  <1>14. Len(short) = k
    <2>1. Len(header) = Len(short) + Len(e)
      BY <1>1, <1>2, <1>9, JoinedLengths
    <2>2. Len(short) \in Nat
      BY <1>9, FieldsAreSeq
    <2> QED
      BY <1>3, <2>1, <2>2 DEF header
  <1>15. (ahead \o header) \o body = (ahead \o short) \o (e \o body)
    <2>1. RegroupsFour(ahead, short, e, body)
      BY <1>2, <1>3, <1>9, JoinedFour
    <2>2. ((ahead \o short) \o e) \o body = ahead \o (short \o (e \o body))
      BY <2>1 DEF RegroupsFour
    <2>3. (ahead \o short) \o e = ahead \o (short \o e)
      <3>1. IsFields(ahead) /\ IsFields(short) /\ IsFields(e)
        BY <1>2, <1>3, <1>9
      <3>2. RegroupsThree(ahead, short, e)
        BY <3>1, JoinedThree
      <3> QED
        BY <3>2 DEF RegroupsThree
    <2>4. (ahead \o short) \o (e \o body) = ahead \o (short \o (e \o body))
      <3> DEFINE left == e \o body
      <3>1. IsFields(left)
        BY <1>13
      <3> HIDE DEF left
      <3>2. RegroupsThree(ahead, short, left)
        BY <1>3, <1>9, <3>1, JoinedThree
      <3> QED
        BY <3>2 DEF left, RegroupsThree
    <2> QED
      BY <1>1, <2>2, <2>3, <2>4
  <1>16. (ahead \o header) \o body = FileOf(Current, short, e \o body)
    <2>1. FileOf(Current, short, e \o body) = (Ahead(Current, Len(short)) \o short) \o (e \o body)
      BY FileIsAhead
    <2> QED
      BY <1>14, <1>15, <2>1 DEF ahead
  <1>17. ~ Runs(DecodeFile(FileOf(Current, short, e \o body), blobs))
    BY <1>9, <1>12, <1>13, StopsInHeader
  <1> QED
    BY <1>16, <1>17 DEF ahead, header, body

LEMMA LengthIsMore ==
    ASSUME NEW s, IsSnapshotData(s), NEW k, k = Len(FileHeader(s, None)) + 1, NEW blobs
    PROVE  LET file == (Ahead(Current, k) \o FileHeader(s, None)) \o EncodeBody(s)
           IN  ~ Runs(DecodeFile(file, blobs))
  <1> DEFINE body == EncodeBody(s)
             a == WriteOption(s.origin, WriteOrigin)
             b == I64(s.captured_at)
             c == WriteOption(None, Str)
             d == U64(Len(body))
             e == Sum(body)
             ahead == Ahead(Current, k)
             header == FileHeader(s, None)
  <1>1. header = (((a \o b) \o c) \o d) \o e
    BY DEF FileHeader, HeaderOf
  <1>2. IsFields(a) /\ IsFields(b) /\ IsFields(c) /\ IsFields(d) /\ IsFields(e)
    BY OneField, OptionsAreFields DEF I64, U64, Sum
  <1>3. IsFields(body) /\ IsFields(ahead) /\ IsOrigin(s.origin)
    BY BodyIsFields, AheadIsFields DEF IsSnapshotData
  <1>4. c = U8(0)
    BY DEF WriteOption
  <1>5. PICK first, rest : IsFields(rest) /\ body = <<first>> \o rest
    BY BodyIsLong
  <1> DEFINE one == <<first>>
  <1>6. IsFields(one) /\ Len(one) = 1 /\ one # <<>>
    BY OneField
  <1>7. HeaderStops(a \o (b \o (c \o (d \o (e \o one)))))
    <2>1. HeaderStops(WriteOption(s.origin, WriteOrigin)
             \o (I64(s.captured_at) \o (U8(0) \o (U64(Len(body)) \o (Sum(body) \o one)))))
      <3> HIDE DEF one, body
      <3> QED
        BY <1>3, <1>6, HeaderIsTooLong
    <2> QED
      BY <1>4, <2>1
  <1>8. IsFields(header)
    BY HeaderIsFields DEF FileHeader
  <1> HIDE DEF a, b, c, d, e, body, header, one, ahead
  <1> DEFINE long == header \o one
  <1>9. RegroupsSix(a, b, c, d, e, one)
    BY <1>2, <1>6, JoinedSix
  <1>10. long = a \o (b \o (c \o (d \o (e \o one))))
    BY <1>1, <1>9 DEF RegroupsSix
  <1>11. HeaderStops(long)
    BY <1>7, <1>10
  <1>12. IsFields(long) /\ Len(long) = k
    <2>1. IsFields(long) /\ Len(long) = Len(header) + Len(one)
      BY <1>6, <1>8, JoinedLengths
    <2> HIDE DEF long
    <2> QED
      BY <1>6, <2>1 DEF header
  <1>13. (ahead \o header) \o body = (ahead \o long) \o rest
    <2>1. RegroupsFour(ahead, header, one, rest)
      BY <1>3, <1>5, <1>6, <1>8, JoinedFour
    <2>2. ((ahead \o header) \o one) \o rest = ahead \o (header \o (one \o rest))
      BY <2>1 DEF RegroupsFour
    <2>3. (ahead \o header) \o one = ahead \o (header \o one)
      BY <1>3, <1>6, <1>8, JoinedThrice
    <2>4. (ahead \o header) \o body = ahead \o (header \o body)
      BY <1>3, <1>8, JoinedThrice
    <2> QED
      BY <1>5, <2>2, <2>3, <2>4 DEF one
  <1> HIDE DEF long
  <1>14. (ahead \o header) \o body = FileOf(Current, long, rest)
    <2>1. FileOf(Current, long, rest) = (Ahead(Current, Len(long)) \o long) \o rest
      BY FileIsAhead
    <2> QED
      BY <1>12, <1>13, <2>1 DEF ahead
  <1>15. ~ Runs(DecodeFile(FileOf(Current, long, rest), blobs))
    BY <1>5, <1>11, <1>12, StopsInHeader
  <1> QED
    BY <1>14, <1>15 DEF ahead, header, body

\* What a file begins with, however it goes on.
LEMMA FirstFields ==
    ASSUME NEW x, NEW y, NEW z, NEW header, IsFields(header), NEW body, IsFields(body)
    PROVE  LET file == (((<<x>> \o <<y>>) \o <<z>>) \o header) \o body
           IN  /\ IsFields(file) /\ Len(file) = 3 + Len(header) + Len(body)
               /\ file[1] = x /\ file[2] = y /\ file[3] = z
               /\ \A i \in 1 .. Len(header) : file[3 + i] = header[i]
  <1> DEFINE ahead == (<<x>> \o <<y>>) \o <<z>>
  <1>1. /\ IsFields(ahead) /\ Len(ahead) = 3
        /\ ahead[1] = x /\ ahead[2] = y /\ ahead[3] = z
    <2>1. ahead \in Seq({x, y, z})
      OBVIOUS
    <2>2. Len(ahead) = 3 /\ ahead[1] = x /\ ahead[2] = y /\ ahead[3] = z
      OBVIOUS
    <2> HIDE DEF ahead
    <2>3. IsFields(ahead)
      BY <2>1 DEF IsFields
    <2> QED
      BY <2>2, <2>3
  <1> HIDE DEF ahead
  <1> DEFINE begin == ahead \o header
  <1>2. Len(header) \in Nat /\ Len(body) \in Nat
    BY FieldsAreSeq
  <1>3. /\ IsFields(begin) /\ Len(begin) = Len(ahead) + Len(header)
        /\ \A i \in 1 .. Len(ahead) : begin[i] = ahead[i]
        /\ \A i \in 1 .. Len(header) : begin[Len(ahead) + i] = header[i]
    <2>1. IsFields(begin) /\ Len(begin) = Len(ahead) + Len(header)
      BY <1>1, JoinedLengths
    <2>2. /\ \A i \in 1 .. Len(ahead) : begin[i] = ahead[i]
          /\ \A i \in 1 .. Len(header) : begin[Len(ahead) + i] = header[i]
      <3>1. IsFields(ahead)
        BY <1>1
      <3> QED
        BY <3>1, JoinedFields
    <2> QED
      BY <2>1, <2>2
  <1> HIDE DEF begin
  <1>4. /\ IsFields(begin \o body) /\ Len(begin \o body) = Len(begin) + Len(body)
        /\ \A i \in 1 .. Len(begin) : (begin \o body)[i] = begin[i]
    BY <1>3, JoinedFields
  <1>5. \A i \in 1..3 : i \in 1 .. Len(begin)
    BY <1>1, <1>2, <1>3
  <1>6. \A i \in 1 .. Len(header) : 3 + i \in 1 .. Len(begin)
    BY <1>1, <1>2, <1>3
  <1>7. /\ (begin \o body)[1] = x /\ (begin \o body)[2] = y /\ (begin \o body)[3] = z
    BY <1>1, <1>3, <1>4, <1>5
  <1>8. \A i \in 1 .. Len(header) : (begin \o body)[3 + i] = header[i]
    BY <1>1, <1>3, <1>4, <1>6
  <1>9. Len(begin \o body) = 3 + Len(header) + Len(body)
    BY <1>1, <1>2, <1>3, <1>4
  <1> QED
    BY <1>4, <1>7, <1>8, <1>9 DEF begin, ahead

LEMMA HeaderIsStopped ==
    ASSUME NEW file, NEW blobs, ~ Runs(DecodeHeader(file))
    PROVE  ~ Runs(DecodeFile(file, blobs))
  BY DEF DecodeFile, DecodeRest

\* Other magic.
LEMMA MagicIsAnother ==
    ASSUME NEW x, x # Magic, NEW y, NEW z, NEW header, IsFields(header),
           NEW body, IsFields(body), NEW blobs
    PROVE  ~ Runs(DecodeFile((((<<x>> \o <<y>>) \o <<z>>) \o header) \o body, blobs))
  <1> DEFINE file == (((<<x>> \o <<y>>) \o <<z>>) \o header) \o body
  <1>1. file[1] = x /\ Len(file) = 3 + Len(header) + Len(body)
    BY FirstFields
  <1>2. Len(header) \in Nat /\ Len(body) \in Nat
    BY FieldsAreSeq
  <1> HIDE DEF file
  <1>3. DecodeHeader(file) = Stop(Reader(file), "BadMagic")
    BY <1>1, <1>2 DEF DecodeHeader
  <1>4. ~ Runs(DecodeHeader(file))
    BY <1>3, ReaderIsStopped
  <1> QED
    BY <1>4, HeaderIsStopped DEF file

\* A version there is not.
LEMMA VersionIsUnknown ==
    ASSUME NEW y, y.is \notin {BeforeOrigin, Current}, NEW z,
           NEW header, IsFields(header), NEW body, IsFields(body), NEW blobs
    PROVE  ~ Runs(DecodeFile((((<<Magic>> \o <<y>>) \o <<z>>) \o header) \o body, blobs))
  <1> DEFINE file == (((<<Magic>> \o <<y>>) \o <<z>>) \o header) \o body
  <1>1. file[1] = Magic /\ file[2] = y /\ Len(file) = 3 + Len(header) + Len(body)
    BY FirstFields
  <1>2. Len(header) \in Nat /\ Len(body) \in Nat
    BY FieldsAreSeq
  <1> HIDE DEF file
  <1>3. DecodeHeader(file) = Stop(Reader(file), "UnsupportedFormatVersion")
    BY <1>1, <1>2 DEF DecodeHeader
  <1>4. ~ Runs(DecodeHeader(file))
    BY <1>3, ReaderIsStopped
  <1> QED
    BY <1>4, HeaderIsStopped DEF file

\* The version before this one: the first field of the header would be the
\* length of the body, and it is nought or one.
LEMMA VersionIsOld ==
    ASSUME NEW y, y.is = BeforeOrigin, NEW z, NEW header, IsFields(header),
           Len(header) >= 3, header[1].is \in {0, 1},
           NEW body, IsFields(body), Len(body) >= 1, NEW blobs
    PROVE  ~ Runs(DecodeFile((((<<Magic>> \o <<y>>) \o <<z>>) \o header) \o body, blobs))
  <1> DEFINE file == (((<<Magic>> \o <<y>>) \o <<z>>) \o header) \o body
  <1>0. Len(header) \in Nat /\ Len(body) \in Nat
    BY FieldsAreSeq
  <1>1. /\ IsFields(file) /\ file[1] = Magic /\ file[2] = y
        /\ Len(file) = 3 + Len(header) + Len(body)
        /\ \A i \in 1 .. Len(header) : file[3 + i] = header[i]
    BY FirstFields
  <1>2. file[4] = header[1]
    <2>1. 1 \in 1 .. Len(header) /\ 3 + 1 = 4
      BY <1>0
    <2> HIDE DEF file
    <2> QED
      BY <1>1, <2>1
  <1> HIDE DEF file
  <1>3. Len(file) \in Nat /\ Len(file) >= 7
    BY <1>0, <1>1
  <1> DEFINE value == [version |-> BeforeOrigin, origin |-> None, tag |-> None,
                       captured_at |-> file[3].is, length |-> file[4].is,
                       sum |-> file[5].is, start |-> HeaderLengthV1]
             read == Yield(Reader(<<>>), value)
             rest == SubSeq(file, 6, Len(file))
  <1>4. DecodeHeader(file) = read
    <2>1. DecodeHeader(file) = DecodeHeaderV1(file)
      BY <1>1, <1>3 DEF DecodeHeader
    <2> QED
      BY <1>3, <2>1 DEF DecodeHeaderV1, HeaderLengthV1
  <1>5. value.start = 5 /\ value.length = file[4].is
    BY DEF HeaderLengthV1
  <1> HIDE DEF value
  <1>6. Runs(read) /\ read.value = value
    BY DEF Yield, Runs, Reader
  <1> HIDE DEF read
  <1>7. DecodeFile(file, blobs) = DecodeBodyOf(rest, value, blobs)
    BY <1>4, <1>5, <1>6 DEF DecodeFile, DecodeRest
  <1>8. Len(rest) = Len(file) - 5
    <2>1. PICK T : file \in Seq(T)
      BY <1>1 DEF IsFields
    <2> QED
      BY <1>3, <2>1
  <1> HIDE DEF rest
  <1>9. Len(rest) # value.length
    BY <1>2, <1>3, <1>5, <1>8
  <1>10. DecodeFile(file, blobs) = Stop(Reader(rest), "Truncated")
    BY <1>7, <1>9 DEF DecodeBodyOf
  <1> QED
    BY <1>10, ReaderIsStopped DEF file

\* A file cut short in its body is one of another body, and before that its
\* header is not whole.
LEMMA CutIsOfSecond ==
    ASSUME NEW x, IsFields(x), NEW y, IsFields(y), NEW k \in Nat, k <= Len(y)
    PROVE  /\ SubSeq(x \o y, 1, Len(x) + k) = x \o SubSeq(y, 1, k)
           /\ IsFields(SubSeq(y, 1, k)) /\ Len(SubSeq(y, 1, k)) = k
  <1> DEFINE all == x \o y
             cut == SubSeq(y, 1, k)
             left == SubSeq(all, 1, Len(x) + k)
             right == x \o cut
  <1>1. PICK T : x \in Seq(T) /\ y \in Seq(T)
    BY ManyAreFields
  <1>2. cut \in Seq(T) /\ Len(cut) = k /\ \A i \in 1..k : cut[i] = y[i]
    BY <1>1
  <1>3. all \in Seq(T) /\ Len(all) = Len(x) + Len(y)
    BY <1>1
  <1>0. Len(x) \in Nat /\ Len(y) \in Nat
    BY <1>1
  <1>8. /\ \A i \in 1 .. Len(x) : all[i] = x[i]
        /\ \A i \in 1 .. Len(y) : all[Len(x) + i] = y[i]
    BY JoinedFields
  <1> HIDE DEF all, cut
  <1>4. left \in Seq(T) /\ Len(left) = Len(x) + k /\ \A i \in 1 .. Len(x) + k : left[i] = all[i]
    BY <1>0, <1>3
  <1>5. /\ IsFields(right) /\ Len(right) = Len(x) + Len(cut)
        /\ \A i \in 1 .. Len(x) : right[i] = x[i]
        /\ \A i \in 1 .. Len(cut) : right[Len(x) + i] = cut[i]
    <2>1. IsFields(cut)
      BY <1>2 DEF IsFields
    <2> QED
      BY <2>1, JoinedFields
  <1> HIDE DEF left, right
  <1>6. ASSUME NEW i \in 1 .. Len(x) + k
        PROVE  left[i] = right[i]
    <2>1. CASE i <= Len(x)
      <3>1. i \in 1 .. Len(x)
        BY <1>0, <2>1
      <3> QED
        BY <1>4, <1>5, <1>8, <3>1
    <2>2. CASE ~ i <= Len(x)
      <3>1. /\ i - Len(x) \in 1 .. k /\ Len(x) + (i - Len(x)) = i
            /\ i - Len(x) \in 1 .. Len(y)
        BY <1>0, <2>2
      <3>2. right[Len(x) + (i - Len(x))] = cut[i - Len(x)]
        BY <1>2, <1>5, <3>1
      <3>3. all[Len(x) + (i - Len(x))] = y[i - Len(x)]
        BY <1>8, <3>1
      <3> QED
        BY <1>2, <1>4, <3>1, <3>2, <3>3
    <2> QED
      BY <2>1, <2>2
  <1>7. left = right
    <2>1. left = [i \in 1 .. Len(x) + k |-> left[i]]
      BY <1>4
    <2>2. right = [i \in 1 .. Len(x) + k |-> right[i]]
      BY <1>2, <1>5, FieldsAreSeq
    <2> QED
      BY <1>6, <2>1, <2>2
  <1> QED
    BY <1>2, <1>7 DEF left, right, all, cut, IsFields

LEMMA CutInHeader ==
    ASSUME NEW header, IsFields(header), NEW body, IsFields(body), NEW blobs,
           NEW k \in Nat, k < 3 + Len(header)
    PROVE  ~ Runs(DecodeFile(SubSeq(FileOf(Current, header, body), 1, k), blobs))
  <1> DEFINE file == FileOf(Current, header, body)
             cut == SubSeq(file, 1, k)
             start == 3 + Len(header)
  <1>1. /\ IsFields(file) /\ Len(file) = 3 + Len(header) + Len(body)
        /\ file[1] = Magic /\ file[2].is = Current /\ file[3].is = Len(header)
    BY FileIs DEF IsFile, FileOf
  <1>2. Len(header) \in Nat /\ Len(body) \in Nat
    BY FieldsAreSeq
  <1> HIDE DEF file
  <1>3. Len(cut) = k /\ \A i \in 1..k : cut[i] = file[i]
    <2>1. PICK T : file \in Seq(T)
      BY <1>1 DEF IsFields
    <2> QED
      BY <1>1, <1>2, <2>1
  <1> HIDE DEF cut
  <1>4. \E error : error # "none" /\ DecodeHeader(cut) = Stop(Reader(cut), error)
    <2>1. CASE k < 2
      BY <1>3, <2>1 DEF DecodeHeader
    <2>2. CASE k = 2
      <3>1. cut[1] = Magic /\ cut[2].is = Current
        BY <1>1, <1>3, <2>2
      <3>2. DecodeHeader(cut) = DecodeHeaderCurrent(cut)
        BY <1>3, <2>2, <3>1 DEF DecodeHeader, Current, BeforeOrigin
      <3> QED
        BY <1>3, <2>2, <3>2 DEF DecodeHeaderCurrent
    <2>3. CASE k >= 3
      <3>1. cut[1] = Magic /\ cut[2].is = Current /\ cut[3].is = Len(header)
        BY <1>1, <1>3, <2>3
      <3>2. DecodeHeader(cut) = DecodeHeaderCurrent(cut)
        BY <1>3, <2>3, <3>1 DEF DecodeHeader, Current, BeforeOrigin
      <3> QED
        BY <1>3, <3>1, <3>2 DEF DecodeHeaderCurrent
    <2> QED
      BY <2>1, <2>2, <2>3
  <1>5. ~ Runs(DecodeHeader(cut))
    BY <1>4, ReaderIsStopped
  <1> QED
    BY <1>5, HeaderIsStopped DEF cut, file

LEMMA FirstOfHeader ==
    ASSUME NEW s, IsSnapshotData(s)
    PROVE  LET header == FileHeader(s, None)
           IN  /\ IsFields(header) /\ Len(header) \in Nat /\ Len(header) >= 3
               /\ header[1].is \in {0, 1}
  <1> DEFINE body == EncodeBody(s)
             a == WriteOption(s.origin, WriteOrigin)
             b == I64(s.captured_at)
             c == WriteOption(None, Str)
             d == U64(Len(body))
             e == Sum(body)
             header == FileHeader(s, None)
  <1>1. header = (((a \o b) \o c) \o d) \o e
    BY DEF FileHeader, HeaderOf
  <1>2. IsFields(header) /\ Len(header) \in Nat /\ Len(header) >= 3
    BY HeaderIsLong DEF FileHeader
  <1>3. IsFields(a) /\ IsFields(b) /\ IsFields(c) /\ IsFields(d) /\ IsFields(e)
    BY OneField, OptionsAreFields DEF I64, U64, Sum
  <1>4. Len(a) >= 1 /\ a[1].is \in {0, 1}
    <2> DEFINE v == s.origin[1]
               t == IF s.origin = None THEN 0 ELSE 1
               tag == [as |-> "u8", is |-> t]
               fields == WriteOrigin(v)
    <2>1. a = U8(0) \/ a = U8(1) \o fields
      BY DEF WriteOption
    <2>2. Len(U8(0)) = 1 /\ U8(0)[1].is = 0
      BY DEF U8
    <2>3. IsFields(fields)
      <3>1. WriteOrigin(v) = U32(v.pid) \o I64(v.start)
        BY DEF WriteOrigin
      <3>2. IsFields(U32(v.pid)) /\ IsFields(I64(v.start))
        BY OneField DEF U32, I64
      <3> QED
        BY <3>1, <3>2, JoinedFields
    <2> HIDE DEF fields
    <2>4. IsFields(U8(1)) /\ Len(U8(1)) = 1 /\ U8(1)[1].is = 1
      BY OneField DEF U8
    <2> DEFINE one == U8(1)
    <2>5. Len(one \o fields) = Len(one) + Len(fields)
      BY <2>3, <2>4, JoinedFields
    <2>6. \A i \in 1 .. Len(one) : (one \o fields)[i] = one[i]
      BY <2>3, <2>4, JoinedFields
    <2>7. Len(one \o fields) >= 1 /\ (one \o fields)[1].is = 1
      <3>1. 1 \in 1 .. Len(one) /\ Len(fields) \in Nat
        BY <2>3, <2>4, FieldsAreSeq
      <3> HIDE DEF one
      <3>2. (one \o fields)[1] = one[1]
        BY <2>6, <3>1
      <3> QED
        BY <2>4, <2>5, <3>1, <3>2 DEF one
    <2> HIDE DEF a
    <2> QED
      BY <2>1, <2>2, <2>7
  <1> HIDE DEF a, b, c, d, e, header
  <1>5. RegroupsFive(a, b, c, d, e)
    BY <1>3, JoinedFive
  <1> DEFINE de == d \o e
             cde == c \o de
             more == b \o cde
  <1>6. IsFields(de)
    BY <1>3, JoinedFields
  <1>7. IsFields(cde)
    <2> HIDE DEF de
    <2> QED
      BY <1>3, <1>6, JoinedFields
  <1>8. IsFields(more)
    <2> HIDE DEF cde
    <2> QED
      BY <1>3, <1>7, JoinedFields
  <1>9. header = a \o more
    BY <1>1, <1>5 DEF RegroupsFive
  <1> HIDE DEF more
  <1>10. \A i \in 1 .. Len(a) : header[i] = a[i]
    BY <1>3, <1>8, <1>9, JoinedFields
  <1>11. header[1] = a[1]
    <2>1. Len(a) \in Nat
      BY <1>3, FieldsAreSeq
    <2> QED
      BY <1>4, <1>10, <2>1
  <1> QED
    BY <1>2, <1>4, <1>11 DEF header

\* A file altered is altered in its magic, its version, the length of its
\* header, its header or its body.
LEMMA AlteredSomewhere ==
    ASSUME NEW x, NEW y, NEW z, NEW header, IsFields(header), NEW body, IsFields(body),
           NEW by, NEW other, NEW f,
           IsAltered(f, (((<<x>> \o <<y>>) \o <<z>>) \o header) \o body, by, other)
    PROVE  \/ \E g : IsAltered(g, body, by, other)
                     /\ f = (((<<x>> \o <<y>>) \o <<z>>) \o header) \o g
           \/ \E g : IsAltered(g, header, by, other)
                     /\ f = (((<<x>> \o <<y>>) \o <<z>>) \o g) \o body
           \/ f = (((<<x>> \o <<y>>) \o <<Altered(z, by, other)>>) \o header) \o body
           \/ f = (((<<x>> \o <<Altered(y, by, other)>>) \o <<z>>) \o header) \o body
           \/ f = (((<<Altered(x, by, other)>> \o <<y>>) \o <<z>>) \o header) \o body
  <1> DEFINE a == <<x>>
             b == <<y>>
             c == <<z>>
             ab == a \o b
             abc == ab \o c
             abcd == abc \o header
  <1>1. IsFields(a) /\ IsFields(b) /\ IsFields(c)
    BY OneField
  <1>2. \A g : /\ IsAltered(g, a, by, other) => g = <<Altered(x, by, other)>>
               /\ IsAltered(g, b, by, other) => g = <<Altered(y, by, other)>>
               /\ IsAltered(g, c, by, other) => g = <<Altered(z, by, other)>>
    BY AlteredAlone
  <1> HIDE DEF a, b, c
  <1>3. IsFields(ab)
    BY <1>1, JoinedFields
  <1>4. IsFields(abc)
    <2> HIDE DEF ab
    <2> QED
      BY <1>1, <1>3, JoinedFields
  <1>5. IsFields(abcd)
    <2> HIDE DEF abc
    <2> QED
      BY <1>4, JoinedFields
  <1>6. IsAltered(f, abcd \o body, by, other)
    BY DEF a, b, c
  <1> HIDE DEF abcd
  <1>7. \/ \E g : IsAltered(g, abcd, by, other) /\ f = g \o body
        \/ \E g : IsAltered(g, body, by, other) /\ f = abcd \o g
    BY <1>5, <1>6, AlteredIsOfOne
  <1>8. ASSUME NEW h, IsAltered(h, abcd, by, other)
        PROVE  \/ \E g : IsAltered(g, abc, by, other) /\ h = g \o header
               \/ \E g : IsAltered(g, header, by, other) /\ h = abc \o g
    <2>1. IsAltered(h, abc \o header, by, other)
      BY <1>8 DEF abcd
    <2> HIDE DEF abc
    <2> QED
      BY <1>4, <2>1, AlteredIsOfOne
  <1> HIDE DEF abc
  <1>9. ASSUME NEW h, IsAltered(h, abc, by, other)
        PROVE  \/ \E g : IsAltered(g, ab, by, other) /\ h = g \o c
               \/ \E g : IsAltered(g, c, by, other) /\ h = ab \o g
    <2>1. IsAltered(h, ab \o c, by, other)
      BY <1>9 DEF abc
    <2> HIDE DEF ab
    <2> QED
      BY <1>1, <1>3, <2>1, AlteredIsOfOne
  <1> HIDE DEF ab
  <1>10. ASSUME NEW h, IsAltered(h, ab, by, other)
         PROVE  \/ \E g : IsAltered(g, a, by, other) /\ h = g \o b
                \/ \E g : IsAltered(g, b, by, other) /\ h = a \o g
    <2>1. IsAltered(h, a \o b, by, other)
      BY <1>10 DEF ab
    <2> QED
      BY <1>1, <2>1, AlteredIsOfOne
  <1>11. CASE \E g : IsAltered(g, body, by, other) /\ f = abcd \o g
    BY <1>11 DEF abcd, abc, ab, a, b, c
  <1>12. CASE \E g : IsAltered(g, abcd, by, other) /\ f = g \o body
    <2>1. PICK h : IsAltered(h, abcd, by, other) /\ f = h \o body
      BY <1>12
    <2>2. CASE \E g : IsAltered(g, header, by, other) /\ h = abc \o g
      BY <2>1, <2>2 DEF abc, ab, a, b, c
    <2>3. CASE \E g : IsAltered(g, abc, by, other) /\ h = g \o header
      <3>1. PICK k : IsAltered(k, abc, by, other) /\ h = k \o header
        BY <2>3
      <3>2. f = (k \o header) \o body
        BY <2>1, <3>1
      <3>3. CASE \E g : IsAltered(g, c, by, other) /\ k = ab \o g
        BY <1>2, <3>2, <3>3 DEF ab, a, b
      <3>4. CASE \E g : IsAltered(g, ab, by, other) /\ k = g \o c
        <4>1. PICK m : IsAltered(m, ab, by, other) /\ k = m \o c
          BY <3>4
        <4>2. f = ((m \o c) \o header) \o body
          BY <3>2, <4>1
        <4>3. CASE \E g : IsAltered(g, b, by, other) /\ m = a \o g
          BY <1>2, <4>2, <4>3 DEF a, c
        <4>4. CASE \E g : IsAltered(g, a, by, other) /\ m = g \o b
          BY <1>2, <4>2, <4>4 DEF b, c
        <4> QED
          BY <1>10, <4>1, <4>3, <4>4
      <3> QED
        BY <1>9, <3>1, <3>3, <3>4
    <2> QED
      BY <1>8, <2>1, <2>2, <2>3
  <1> QED
    BY <1>7, <1>11, <1>12

\* What a disk may do to a file: cut it short, go on behind its end, or change
\* one of its fields.
IsDamaged(f, file, other) ==
    \/ \E k \in 0 .. Len(file) - 1 : f = SubSeq(file, 1, k)
    \/ \E x : f = Append(file, x)
    \/ \E by \in {-1, 1} : IsAltered(f, file, by, other)

LEMMA CutIsNoticed ==
    ASSUME NEW s, IsSnapshotData(s), NEW blobs,
           NEW k \in 0 .. Len(EncodeFile(s, None)) - 1
    PROVE  IsTheSame(DecodeFile(SubSeq(EncodeFile(s, None), 1, k), blobs), s)
  <1> DEFINE header == FileHeader(s, None)
             body == EncodeBody(s)
             ahead == Ahead(Current, Len(header))
             file == FileOf(Current, header, body)
  <1>1. IsFields(header) /\ Len(header) \in Nat
    BY FirstOfHeader
  <1>2. IsFields(body) /\ Len(body) \in Nat
    BY BodyIsLong
  <1>3. EncodeFile(s, None) = file
    BY FileIsWritten
  <1>4. IsFields(ahead) /\ Len(ahead) = 3
    BY AheadIsFields
  <1>5. file = (ahead \o header) \o body
    BY FileIsAhead
  <1>6. \A b : FileOf(Current, header, b) = (ahead \o header) \o b
    BY FileIsAhead
  <1>7. \A j \in Nat : j < 3 + Len(header) => ~ Runs(DecodeFile(SubSeq(file, 1, j), blobs))
    <2> HIDE DEF header, body
    <2> QED
      BY <1>1, <1>2, CutInHeader
  <1>8. \A b : IsFields(b) => IsTheSame(DecodeFile(FileOf(Current, header, b), blobs), s)
    BY BodyIsAnother
  <1> DEFINE begin == ahead \o header
  <1> HIDE DEF header, body, ahead, file
  <1>9. IsFields(begin) /\ Len(begin) = 3 + Len(header)
    BY <1>1, <1>4, JoinedLengths
  <1>10. file = begin \o body /\ \A b : FileOf(Current, header, b) = begin \o b
    BY <1>5, <1>6
  <1> HIDE DEF begin
  <1>11. k \in Nat /\ k < 3 + Len(header) + Len(body)
    <2>1. Len(file) = Len(begin) + Len(body)
      BY <1>2, <1>9, <1>10, JoinedLengths
    <2> QED
      BY <1>1, <1>2, <1>3, <1>9, <2>1
  <1>12. CASE k < 3 + Len(header)
    <2>1. ~ Runs(DecodeFile(SubSeq(file, 1, k), blobs))
      BY <1>7, <1>11, <1>12
    <2> QED
      BY <1>3, <2>1 DEF IsTheSame
  <1>13. CASE ~ k < 3 + Len(header)
    <2> DEFINE j == k - (3 + Len(header))
               cut == SubSeq(body, 1, j)
    <2>1. j \in Nat /\ j <= Len(body) /\ k = Len(begin) + j
      BY <1>1, <1>2, <1>9, <1>11, <1>13
    <2> HIDE DEF j
    <2>2. SubSeq(begin \o body, 1, Len(begin) + j) = begin \o cut /\ IsFields(cut)
      BY <1>2, <1>9, <2>1, CutIsOfSecond
    <2>3. SubSeq(file, 1, k) = FileOf(Current, header, cut)
      BY <1>10, <2>1, <2>2
    <2> QED
      BY <1>3, <1>8, <2>2, <2>3
  <1> QED
    BY <1>12, <1>13

LEMMA TailIsNoticed ==
    ASSUME NEW s, IsSnapshotData(s), NEW blobs, NEW x
    PROVE  IsTheSame(DecodeFile(Append(EncodeFile(s, None), x), blobs), s)
  <1> DEFINE header == FileHeader(s, None)
             body == EncodeBody(s)
             ahead == Ahead(Current, Len(header))
             begin == ahead \o header
             file == begin \o body
             one == <<x>>
  <1>1. IsFields(header) /\ IsFields(body) /\ IsFields(ahead) /\ IsFields(one)
    BY FirstOfHeader, BodyIsLong, AheadIsFields, OneField
  <1>2. EncodeFile(s, None) = file
    BY FileIsWritten, FileIsAhead
  <1>3. \A b : FileOf(Current, header, b) = begin \o b
    BY FileIsAhead
  <1>4. \A b : IsFields(b) => IsTheSame(DecodeFile(FileOf(Current, header, b), blobs), s)
    BY BodyIsAnother
  <1> HIDE DEF header, body, ahead
  <1>5. IsFields(begin)
    BY <1>1, JoinedFields
  <1> HIDE DEF begin
  <1>6. IsFields(file) /\ IsFields(body \o one)
    BY <1>1, <1>5, JoinedFields
  <1>7. Append(file, x) = file \o one
    <2> HIDE DEF file
    <2>1. PICK T : file \in Seq(T)
      BY <1>6 DEF IsFields
    <2>2. file \in Seq(T \cup {x}) /\ x \in T \cup {x}
      BY <2>1, SeqMonotonic
    <2> QED
      BY <2>2
  <1> HIDE DEF one
  <1>8. file \o one = begin \o (body \o one)
    BY <1>1, <1>5, JoinedThrice
  <1> DEFINE longer == body \o one
  <1>9. IsFields(longer) /\ Append(file, x) = begin \o longer
    BY <1>6, <1>7, <1>8
  <1> HIDE DEF longer, file
  <1>10. Append(EncodeFile(s, None), x) = FileOf(Current, header, longer)
    BY <1>2, <1>3, <1>9
  <1> QED
    BY <1>4, <1>9, <1>10

\* A version or a length that was altered.
LEMMA AlteredAhead ==
    ASSUME NEW n \in Nat, n >= 1, NEW by \in {-1, 1}, NEW other
    PROVE  /\ <<Altered(U32(n)[1], by, other)>> = U32(n + by)
           /\ Altered(Magic, by, other) = Magic \/ Altered(Magic, by, other) # Magic
  <1>1. <<Altered([as |-> "u32", is |-> n], by, other)>> = <<[as |-> "u32", is |-> Max({0, n + by})]>>
    BY AlteredNumber
  <1>2. n + by \in Int /\ ~ n + by < 0
    OBVIOUS
  <1> DEFINE m == n + by
  <1> HIDE DEF m
  <1>3. m \in Int /\ ~ m < 0
    BY <1>2 DEF m
  <1>4. Max({0, m}) = m
    BY <1>3, MaxOfTwo
  <1>5. <<Altered([as |-> "u32", is |-> n], by, other)>> = <<[as |-> "u32", is |-> m]>>
    BY <1>1, <1>4 DEF m
  <1> QED
    BY <1>5 DEF U32, m

LEMMA ChangeIsNoticed ==
    ASSUME NEW s, IsSnapshotData(s), NEW blobs, NEW by \in {-1, 1}, NEW other,
           NEW f, IsAltered(f, EncodeFile(s, None), by, other)
    PROVE  IsTheSame(DecodeFile(f, blobs), s)
  <1> DEFINE header == FileHeader(s, None)
             body == EncodeBody(s)
             n == Len(header)
             y == [as |-> "u32", is |-> Current]
             z == [as |-> "u32", is |-> n]
             read == DecodeFile(f, blobs)
  <1>1. /\ IsFields(header) /\ n \in Nat /\ n >= 3 /\ header[1].is \in {0, 1}
    BY FirstOfHeader
  <1>2. IsFields(body) /\ Len(body) \in Nat
    BY BodyIsLong
  <1>3. Len(body) >= 1
    <2>1. PICK first, rest : IsFields(rest) /\ body = <<first>> \o rest
      BY BodyIsLong
    <2> HIDE DEF body
    <2>2. IsFields(<<first>>) /\ Len(<<first>>) = 1 /\ Len(rest) \in Nat
      BY <2>1, OneField, FieldsAreSeq
    <2> DEFINE one == <<first>>
    <2> HIDE DEF one
    <2>3. Len(one \o rest) = Len(one) + Len(rest)
      BY <2>1, <2>2, JoinedLengths DEF one
    <2> QED
      BY <2>1, <2>2, <2>3 DEF one
  <1>4. EncodeFile(s, None) = (((<<Magic>> \o <<y>>) \o <<z>>) \o header) \o body
    BY FileIsWritten DEF FileOf, U32
  <1>5. \A h, b : FileOf(Current, h, b) = (((<<Magic>> \o <<y>>) \o U32(Len(h))) \o h) \o b
    BY DEF FileOf, U32
  <1>6. U32(n) = <<z>> /\ z = U32(n)[1]
    BY DEF U32
  <1>7. \/ \E g : IsAltered(g, body, by, other)
                  /\ f = (((<<Magic>> \o <<y>>) \o <<z>>) \o header) \o g
        \/ \E g : IsAltered(g, header, by, other)
                  /\ f = (((<<Magic>> \o <<y>>) \o <<z>>) \o g) \o body
        \/ f = (((<<Magic>> \o <<y>>) \o <<Altered(z, by, other)>>) \o header) \o body
        \/ f = (((<<Magic>> \o <<Altered(y, by, other)>>) \o <<z>>) \o header) \o body
        \/ f = (((<<Altered(Magic, by, other)>> \o <<y>>) \o <<z>>) \o header) \o body
    <2>1. IsAltered(f, (((<<Magic>> \o <<y>>) \o <<z>>) \o header) \o body, by, other)
      BY <1>4
    <2> HIDE DEF header, body, y, z, n
    <2> QED
      BY <1>1, <1>2, <2>1, AlteredSomewhere
  <1>8. CASE \E g : IsAltered(g, body, by, other)
                    /\ f = (((<<Magic>> \o <<y>>) \o <<z>>) \o header) \o g
    <2>1. PICK g : IsAltered(g, body, by, other)
                   /\ f = (((<<Magic>> \o <<y>>) \o <<z>>) \o header) \o g
      BY <1>8
    <2>2. IsFields(g)
      BY <1>2, <2>1, AlteredIsLong
    <2>3. f = FileOf(Current, header, g)
      BY <1>5, <1>6, <2>1
    <2> QED
      BY <2>2, <2>3, BodyIsAnother
  <1>9. CASE \E g : IsAltered(g, header, by, other)
                    /\ f = (((<<Magic>> \o <<y>>) \o <<z>>) \o g) \o body
    <2>1. PICK g : IsAltered(g, header, by, other)
                   /\ f = (((<<Magic>> \o <<y>>) \o <<z>>) \o g) \o body
      BY <1>9
    <2>2. Len(g) = n
      BY <1>1, <2>1, AlteredIsLong
    <2>3. f = FileOf(Current, g, body)
      BY <1>5, <1>6, <2>1, <2>2
    <2> QED
      BY <2>1, <2>3, HeaderIsAnother
  <1>10. CASE f = (((<<Magic>> \o <<y>>) \o <<Altered(z, by, other)>>) \o header) \o body
    <2>1. <<Altered(z, by, other)>> = U32(n + by)
      <3>1. n >= 1
        BY <1>1
      <3> HIDE DEF n, z
      <3> QED
        BY <1>1, <1>6, <3>1, AlteredAhead
    <2>2. \A k : f = (Ahead(Current, k) \o header) \o body
                 /\ (k = n - 1 \/ k = n + 1) => ~ Runs(read)
      BY LengthIsLess, LengthIsMore
    <2>3. f = (Ahead(Current, n + by) \o header) \o body
      BY <1>10, <2>1 DEF Ahead, U32
    <2>4. n + by = n - 1 \/ n + by = n + 1
      BY <1>1
    <2>5. ~ Runs(read)
      <3> HIDE DEF n, read, header, body
      <3> QED
        BY <2>2, <2>3, <2>4
    <2> QED
      BY <2>5 DEF IsTheSame
  <1>11. CASE f = (((<<Magic>> \o <<Altered(y, by, other)>>) \o <<z>>) \o header) \o body
    <2> DEFINE v == Altered(y, by, other)
    <2>1. v = [as |-> "u32", is |-> Current + by]
      <3>1. <<v>> = U32(Current + by)
        <4>1. y = U32(Current)[1]
          BY DEF U32
        <4>2. Current \in Nat /\ Current >= 1
          BY DEF Current
        <4> HIDE DEF y
        <4> QED
          BY <4>1, <4>2, AlteredAhead
      <3> HIDE DEF v
      <3> QED
        BY <3>1 DEF U32
    <2>2. v.is = Current + by
      BY <2>1
    <2> HIDE DEF v
    <2>3. v.is = BeforeOrigin \/ v.is \notin {BeforeOrigin, Current}
      BY <2>2 DEF BeforeOrigin, Current
    <2>4. f = (((<<Magic>> \o <<v>>) \o <<z>>) \o header) \o body
      BY <1>11 DEF v
    <2> HIDE DEF z, header, body
    <2>5. CASE v.is = BeforeOrigin
      <3>1. ~ Runs(read)
        BY <1>1, <1>2, <1>3, <2>4, <2>5, VersionIsOld DEF n
      <3> QED
        BY <3>1 DEF IsTheSame
    <2>6. CASE v.is \notin {BeforeOrigin, Current}
      <3>1. ~ Runs(read)
        BY <1>1, <1>2, <2>4, <2>6, VersionIsUnknown
      <3> QED
        BY <3>1 DEF IsTheSame
    <2> QED
      BY <2>3, <2>5, <2>6
  <1>12. CASE f = (((<<Altered(Magic, by, other)>> \o <<y>>) \o <<z>>) \o header) \o body
    <2> DEFINE v == Altered(Magic, by, other)
    <2>1. CASE v = Magic
      <3>1. f = FileOf(Current, header, body)
        BY <1>5, <1>6, <1>12, <2>1
      <3> QED
        BY <1>2, <3>1, BodyIsAnother
    <2>2. CASE v # Magic
      <3>1. ~ Runs(read)
        <4> HIDE DEF v, y, z, header, body
        <4> QED
          BY <1>1, <1>2, <1>12, <2>2, MagicIsAnother DEF v
      <3> QED
        BY <3>1 DEF IsTheSame
    <2> QED
      BY <2>1, <2>2
  <1> QED
    BY <1>7, <1>8, <1>9, <1>10, <1>11, <1>12

LEMMA DamagedIsTheSame ==
    ASSUME NEW s, IsSnapshotData(s), NEW blobs, NEW other,
           NEW f, IsDamaged(f, EncodeFile(s, None), other)
    PROVE  IsTheSame(DecodeFile(f, blobs), s)
  BY CutIsNoticed, TailIsNoticed, ChangeIsNoticed DEF IsDamaged

\* What a disk does to a file does not pass for another snapshot (header.rs,
\* codec.rs): of a file that was cut short, that goes on, or one field of
\* which was changed, nothing is read or the very body that was saved, under
\* a header that no checksum covers - another time, or another origin, of which
\* the process id or the start is still the one it was.
THEOREM DamageIsNoticed ==
    ASSUME NEW s, IsSnapshotData(s), NEW blobs, NEW other,
           NEW f, IsDamaged(f, EncodeFile(s, None), other)
    PROVE  LET read == DecodeFile(f, blobs)
           IN  Runs(read) =>
                  \E o, t : /\ IsNear(o, s.origin)
                            /\ read.value = [s EXCEPT !.origin = o, !.captured_at = t]
  <1>1. IsTheSame(DecodeFile(f, blobs), s)
    BY DamagedIsTheSame
  <1> QED
    BY <1>1 DEF IsTheSame, Headed
-----------------------------------------------------------------------------
(***************************************************************************)
(* The format before: panes.                                               *)
(***************************************************************************)
RegroupsSeven(a, b, c, d, e, f, rest) ==
    (((((a \o b) \o c) \o d) \o e) \o f) \o rest
        = a \o (b \o (c \o (d \o (e \o (f \o rest)))))

LEMMA JoinedSeven ==
    ASSUME NEW a, NEW b, NEW c, NEW d, NEW e, NEW f, NEW rest,
           IsFields(a), IsFields(b), IsFields(c), IsFields(d), IsFields(e), IsFields(f),
           IsFields(rest)
    PROVE  RegroupsSeven(a, b, c, d, e, f, rest)
  <1> DEFINE more == f \o rest
             short == (((a \o b) \o c) \o d) \o e
             ab == a \o b
             abc == ab \o c
             abcd == abc \o d
  <1>1. IsFields(ab) /\ IsFields(more)
    BY JoinedFields
  <1>2. IsFields(abc)
    <2> HIDE DEF ab
    <2> QED
      BY <1>1, JoinedFields
  <1>3. IsFields(abcd)
    <2> HIDE DEF abc
    <2> QED
      BY <1>2, JoinedFields
  <1>4. IsFields(short)
    <2>1. short = abcd \o e
      OBVIOUS
    <2> HIDE DEF abcd, short
    <2> QED
      BY <1>3, <2>1, JoinedFields
  <1>5. RegroupsSix(a, b, c, d, e, more)
    <2> HIDE DEF more
    <2> QED
      BY <1>1, JoinedSix
  <1>6. short \o more = a \o (b \o (c \o (d \o (e \o more))))
    <2> HIDE DEF more
    <2> QED
      BY <1>5 DEF RegroupsSix
  <1>7. (short \o f) \o rest = short \o more
    <2> HIDE DEF short
    <2>1. RegroupsThree(short, f, rest)
      BY <1>4, JoinedThree
    <2> QED
      BY <2>1 DEF RegroupsThree
  <1> QED
    BY <1>6, <1>7 DEF RegroupsSeven

\* An option, the item of which may stop for what is amiss.
LEMMA OptionIsReadOrStops ==
    ASSUME NEW option, IsOption(option), NEW fields, option # None => IsFields(fields),
           NEW rest, IsFields(rest), NEW r, IsAt(r, OptionFields(option, fields) \o rest),
           NEW item, NEW isWhole,
           option # None /\ IsAt(Take(r, "u8"), fields \o rest)
              => Reads(item, option[1], rest, isWhole)
    PROVE  Reads(OptionOf(Take(r, "u8"), item), option, rest, isWhole)
  <1>1. CASE option = None
    <2>1. HasRead(OptionOf(Take(r, "u8"), item), option, rest)
      BY <1>1, OptionIsRead
    <2> QED
      BY <2>1 DEF Reads
  <1>2. CASE option # None
    <2> DEFINE tag == Take(r, "u8")
    <2>1. IsAt(r, (U8(1) \o fields) \o rest)
      BY <1>2 DEF OptionFields
    <2>2. Runs(tag) /\ tag.value = 1 /\ IsAt(tag, fields \o rest)
      BY <1>2, <2>1, TagIsTaken
    <2> HIDE DEF tag
    <2>3. OptionOf(tag, item) = Yield(item, Some(item.value))
      BY <2>2 DEF OptionOf, Present
    <2>4. Reads(item, option[1], rest, isWhole)
      BY <1>2, <2>2 DEF tag
    <2>5. CASE HasRead(item, option[1], rest)
      <3>1. HasRead(Yield(item, option), option, rest)
        BY <2>5, ValueIsYielded DEF HasRead
      <3>2. Some(item.value) = option
        BY <1>2, <2>5 DEF HasRead, IsOption
      <3> QED
        BY <2>3, <3>1, <3>2 DEF Reads, tag
    <2>6. CASE ~ isWhole /\ ~ Runs(item)
      <3>1. Yield(item, Some(item.value)) = item
        BY <2>6, StoppedIsStopped
      <3> QED
        BY <2>3, <2>6, <3>1 DEF Reads, tag
    <2> QED
      BY <2>4, <2>5, <2>6 DEF Reads
  <1> QED
    BY <1>1, <1>2

\* The optional items of an old pane, as one operator each.
ArgvOption(r) == ReadOption(r, LAMBDA b : ReadNonEmpty(b, TakeStr))
CapturedOption(r, blobs) == ReadOption(r, LAMBDA d : ReadCaptured(d, blobs))

WriteArgv(argv) == WriteOption(argv, LAMBDA a : WriteVec(<<a>>, Str))
WriteCaptured(content) ==
    WriteOption(content,
        LAMBDA c : U64(c.indicator) \o Bytes(c.scrollback) \o Bytes(c.visible))

\* What is read of them: an argument list is one of one element.
ArgvRead(argv) == IF argv = None THEN None ELSE Some(<<argv[1]>>)
CapturedRead(content) ==
    IF content = None THEN None
    ELSE Some(Captured(content[1].indicator, content[1].scrollback, content[1].visible))

LEMMA OldOptionsAre ==
    ASSUME NEW r, NEW blobs
    PROVE  /\ ArgvOption(r) = OptionOf(Take(r, "u8"), SomeItem(Arguments(Take(r, "u8"))))
           /\ CapturedOption(r, blobs) =
                 OptionOf(Take(r, "u8"), ReadCaptured(Take(r, "u8"), blobs))
  <1>1. ArgvOption(r) = OptionOf(Take(r, "u8"), SomeItem(Arguments(Take(r, "u8"))))
    BY DEF ArgvOption, ReadOption, OptionOf, ReadNonEmpty, Arguments
  <1>2. CapturedOption(r, blobs) = OptionOf(Take(r, "u8"), ReadCaptured(Take(r, "u8"), blobs))
    BY DEF CapturedOption, ReadOption, OptionOf
  <1> QED
    BY <1>1, <1>2

CapturedFields(c) == (U64(c.indicator) \o Bytes(c.scrollback)) \o Bytes(c.visible)

LEMMA OldOptionsAreWritten ==
    ASSUME NEW option
    PROVE  /\ option # None => WriteArgv(option) = OptionFields(ArgvRead(option), WriteVec(<<option[1]>>, Str))
           /\ option = None => WriteArgv(option) = OptionFields(ArgvRead(option), <<>>)
           /\ option # None => WriteCaptured(option)
                 = OptionFields(CapturedRead(option), CapturedFields(option[1]))
           /\ option = None => WriteCaptured(option) = OptionFields(CapturedRead(option), <<>>)
  <1> DEFINE list == WriteVec(<<option[1]>>, Str)
             text == CapturedFields(option[1])
  <1>1. WriteArgv(option) = IF option = None THEN U8(0) ELSE U8(1) \o list
    BY DEF WriteArgv, WriteOption
  <1>2. WriteCaptured(option) = IF option = None THEN U8(0) ELSE U8(1) \o text
    BY DEF WriteCaptured, WriteOption, CapturedFields
  <1>3. \A x : Some(x) # None
    BY DEF Some, None
  <1>4. (ArgvRead(option) = None <=> option = None) /\ (CapturedRead(option) = None <=> option = None)
    BY <1>3 DEF ArgvRead, CapturedRead
  <1> HIDE DEF list, text
  <1>5. \A fields : OptionFields(ArgvRead(option), fields) = IF option = None THEN U8(0) ELSE U8(1) \o fields
    BY <1>4 DEF OptionFields
  <1>6. \A fields : OptionFields(CapturedRead(option), fields) = IF option = None THEN U8(0) ELSE U8(1) \o fields
    BY <1>4 DEF OptionFields
  <1> QED
    BY <1>1, <1>2, <1>5, <1>6 DEF list, text

LEMMA OldOptionsAreFields ==
    ASSUME NEW option
    PROVE  IsFields(WriteArgv(option)) /\ IsFields(WriteCaptured(option))
  <1>1. \A n : IsFields(U8(n)) /\ IsFields(U64(n)) /\ IsFields(Bytes(n))
    BY OneField DEF U8, U64, Bytes
  <1>2. \A x : IsFields(WriteVec(<<x>>, Str))
    <2> TAKE x
    <2>1. PICK pieces :
             /\ WriteVec(<<x>>, Str) = U32(1) \o FlattenSeq(pieces)
             /\ IsFields(pieces) /\ Len(pieces) = 1 /\ pieces[1] = Str(x)
             /\ ArePieces(pieces, 1)
      BY ArgvIsWritten
    <2>2. 1 \in Nat
      OBVIOUS
    <2> QED
      BY <2>1, <2>2, SequenceIsFields
  <1>3. \A c : IsFields(CapturedFields(c))
    <2> TAKE c
    <2>1. IsFields(U64(c.indicator) \o Bytes(c.scrollback))
      BY <1>1, JoinedFields
    <2> QED
      BY <1>1, <2>1, JoinedFields DEF CapturedFields
  <1>4. WriteArgv(option) = IF option = None THEN U8(0) ELSE U8(1) \o WriteVec(<<option[1]>>, Str)
    BY DEF WriteArgv, WriteOption
  <1>5. WriteCaptured(option) = IF option = None THEN U8(0) ELSE U8(1) \o CapturedFields(option[1])
    BY DEF WriteCaptured, WriteOption, CapturedFields
  <1> QED
    BY <1>1, <1>2, <1>3, <1>4, <1>5, JoinedFields

AfterArgvOption(r) ==
    Then(r, LAMBDA a : ReadOption(a, LAMBDA b : ReadNonEmpty(b, TakeStr)))
AfterCapturedOption(r, blobs) ==
    Then(r, LAMBDA c : ReadOption(c, LAMBDA d : ReadCaptured(d, blobs)))
AfterStr(r) == Then(r, TakeStr)

LEMMA NextStr ==
    ASSUME NEW r, NEW x, NEW rest, IsFields(rest), IsAt(r, Str(x) \o rest)
    PROVE  IsAt(AfterStr(r), rest) /\ AfterStr(r).got = Append(r.got, x)
  <1>1. IsAt(Fresh(r), <<[as |-> "str", is |-> x]>> \o rest)
    BY FreshIsAt DEF Str
  <1>2. HasRead(Take(Fresh(r), "str"), x, rest)
    BY <1>1, FieldIsTaken
  <1>3. AfterStr(r) = Got(r, Take(Fresh(r), "str"))
    BY DEF AfterStr, Then, TakeStr, Fresh
  <1> QED
    BY <1>2, <1>3, ItemIsGot

LEMMA NextArgvOption ==
    ASSUME NEW r, NEW argv, NEW rest, IsFields(rest), IsAt(r, WriteArgv(argv) \o rest)
    PROVE  IsAt(AfterArgvOption(r), rest) /\ AfterArgvOption(r).got = Append(r.got, ArgvRead(argv))
  <1> DEFINE option == ArgvRead(argv)
             s == Fresh(r)
             tag == Take(s, "u8")
             item == SomeItem(Arguments(tag))
  <1>1. IsAt(s, WriteArgv(argv) \o rest)
    BY FreshIsAt
  <1>2. IsOption(option)
    BY DEF IsOption, ArgvRead, Some, None
  <1>3. HasRead(OptionOf(tag, item), option, rest)
    <2>1. CASE argv = None
      <3>1. IsAt(s, OptionFields(option, <<>>) \o rest) /\ option = None
        BY <1>1, <2>1, OldOptionsAreWritten DEF ArgvRead
      <3> HIDE DEF option, s, item
      <3> QED
        BY <1>2, <3>1, OptionIsRead
    <2>2. CASE argv # None
      <3> DEFINE fields == WriteVec(<<argv[1]>>, Str)
      <3>1. IsAt(s, OptionFields(option, fields) \o rest)
        BY <1>1, <2>2, OldOptionsAreWritten
      <3>2. IsFields(fields)
        <4>1. PICK pieces :
                 /\ fields = U32(1) \o FlattenSeq(pieces)
                 /\ IsFields(pieces) /\ Len(pieces) = 1 /\ ArePieces(pieces, 1)
          BY ArgvIsWritten
        <4>2. 1 \in Nat
          OBVIOUS
        <4> QED
          BY <4>1, <4>2, SequenceIsFields
      <3>3. option[1] = <<argv[1]>>
        BY <2>2 DEF ArgvRead, Some
      <3>4. IsAt(tag, fields \o rest) => HasRead(item, <<argv[1]>>, rest)
        <4> HIDE DEF tag
        <4> QED
          BY ArgvIsRead
      <3> HIDE DEF option, s, item, fields
      <3> QED
        BY <1>2, <3>1, <3>2, <3>3, <3>4, OptionIsRead
    <2> QED
      BY <2>1, <2>2
  <1>4. AfterArgvOption(r) = Got(r, ArgvOption(s))
    BY DEF AfterArgvOption, ArgvOption, Then, Fresh
  <1>5. ArgvOption(s) = OptionOf(tag, item)
    BY OldOptionsAre
  <1> HIDE DEF option, s, tag, item
  <1> QED
    BY <1>3, <1>4, <1>5, ItemIsGot DEF option

\* The texts of what an old pane captured are there.
IsOldThere(content, blobs) ==
    content # None => IsWhole(content[1].scrollback, blobs) /\ IsWhole(content[1].visible, blobs)

LEMMA NextCapturedOption ==
    ASSUME NEW r, NEW content, NEW blobs, NEW isWhole, isWhole => IsOldThere(content, blobs),
           NEW rest, IsFields(rest), IsAt(r, WriteCaptured(content) \o rest)
    PROVE  HasGot(AfterCapturedOption(r, blobs), r, CapturedRead(content), rest, isWhole)
  <1> DEFINE option == CapturedRead(content)
             s == Fresh(r)
             tag == Take(s, "u8")
             item == ReadCaptured(tag, blobs)
  <1>1. IsAt(s, WriteCaptured(content) \o rest)
    BY FreshIsAt
  <1>2. IsOption(option)
    BY DEF IsOption, CapturedRead, Some, None
  <1>3. Reads(OptionOf(tag, item), option, rest, isWhole)
    <2>1. CASE content = None
      <3>1. IsAt(s, OptionFields(option, <<>>) \o rest) /\ option = None
        BY <1>1, <2>1, OldOptionsAreWritten DEF CapturedRead
      <3> HIDE DEF option, s, item
      <3> QED
        BY <1>2, <3>1, OptionIsReadOrStops
    <2>2. CASE content # None
      <3> DEFINE c == content[1]
                 fields == CapturedFields(c)
      <3>1. IsAt(s, OptionFields(option, fields) \o rest)
        BY <1>1, <2>2, OldOptionsAreWritten
      <3>2. IsFields(fields)
        <4>1. \A n : IsFields(U64(n)) /\ IsFields(Bytes(n))
          BY OneField DEF U64, Bytes
        <4>2. IsFields(U64(c.indicator) \o Bytes(c.scrollback))
          BY <4>1, JoinedFields
        <4> QED
          BY <4>1, <4>2, JoinedFields DEF CapturedFields
      <3>3. option[1] = Captured(c.indicator, c.scrollback, c.visible)
        BY <2>2 DEF CapturedRead, Some
      <3>4. isWhole => IsWhole(c.scrollback, blobs) /\ IsWhole(c.visible, blobs)
        BY <2>2 DEF IsOldThere
      <3>5. IsAt(tag, fields \o rest)
               => Reads(item, Captured(c.indicator, c.scrollback, c.visible), rest, isWhole)
        <4> HIDE DEF tag, c
        <4> QED
          BY <3>4, CapturedIsRead DEF CapturedFields
      <3> HIDE DEF option, s, item, fields, c
      <3> QED
        BY <1>2, <3>1, <3>2, <3>3, <3>5, OptionIsReadOrStops
    <2> QED
      BY <2>1, <2>2
  <1>4. AfterCapturedOption(r, blobs) = Got(r, CapturedOption(s, blobs))
    BY DEF AfterCapturedOption, CapturedOption, Then, Fresh
  <1>5. CapturedOption(s, blobs) = OptionOf(tag, item)
    BY OldOptionsAre
  <1> HIDE DEF option, s, tag, item
  <1> QED
    BY <1>3, <1>4, <1>5, ItemIsGotOrStops DEF option

\* Nor do these read on once stopped.
LEMMA NoOldOptionsOfStopped ==
    ASSUME NEW r, ~ Runs(r), NEW blobs
    PROVE  /\ ~ Runs(AfterStr(r)) /\ ~ Runs(AfterArgvOption(r))
           /\ ~ Runs(AfterCapturedOption(r, blobs))
  <1> DEFINE s == Fresh(r)
  <1>1. ~ Runs(s) /\ Take(s, "str") = s /\ Got(r, s) = s
    BY StoppedIsStopped
  <1>2. AfterStr(r) = Got(r, Take(s, "str"))
    BY DEF AfterStr, Then, TakeStr, Fresh
  <1>3. AfterArgvOption(r) = Got(r, ArgvOption(s))
    BY DEF AfterArgvOption, ArgvOption, Then, Fresh
  <1>4. AfterCapturedOption(r, blobs) = Got(r, CapturedOption(s, blobs))
    BY DEF AfterCapturedOption, CapturedOption, Then, Fresh
  <1> HIDE DEF s
  <1>5. ArgvOption(s) = s /\ CapturedOption(s, blobs) = s
    BY <1>1, OldOptionsAre, NoOptionOfStopped
  <1> QED
    BY <1>1, <1>2, <1>3, <1>4, <1>5

OldPaneFields == <<"id", "index", "cwd", "command", "argv", "content">>

LEMMA OldPaneFieldsAre ==
    /\ OldPaneFields \in [1..6 -> ToSet(OldPaneFields)]
    /\ \A i, j \in 1..6 : OldPaneFields[i] = OldPaneFields[j] => i = j
    /\ OldPaneFields[1] = "id" /\ OldPaneFields[2] = "index" /\ OldPaneFields[3] = "cwd"
    /\ OldPaneFields[4] = "command" /\ OldPaneFields[5] = "argv"
    /\ OldPaneFields[6] = "content"
    /\ ToSet(OldPaneFields) = {"id", "index", "cwd", "command", "argv", "content"}
  <1>1. OldPaneFields = <<"id", "index", "cwd", "command", "argv", "content">>
    BY DEF OldPaneFields
  <1>2. OldPaneFields \in [1..6 -> ToSet(OldPaneFields)]
    <2>1. DOMAIN OldPaneFields = 1..6 /\ OldPaneFields = [i \in 1..6 |-> OldPaneFields[i]]
      BY <1>1
    <2> QED
      BY <2>1 DEF ToSet
  <1>3. /\ OldPaneFields[1] = "id" /\ OldPaneFields[2] = "index" /\ OldPaneFields[3] = "cwd"
        /\ OldPaneFields[4] = "command" /\ OldPaneFields[5] = "argv"
        /\ OldPaneFields[6] = "content"
    BY <1>1
  <1>4. \A i \in 1..6 : i = 1 \/ i = 2 \/ i = 3 \/ i = 4 \/ i = 5 \/ i = 6
    OBVIOUS
  <1>5. ToSet(OldPaneFields) = {OldPaneFields[i] : i \in 1..6}
    BY <1>1 DEF ToSet
  <1>6. {OldPaneFields[i] : i \in 1..6} =
           {OldPaneFields[1], OldPaneFields[2], OldPaneFields[3], OldPaneFields[4],
            OldPaneFields[5], OldPaneFields[6]}
    BY <1>4
  <1> QED
    BY <1>2, <1>3, <1>4, <1>5, <1>6

\* The record of an old pane that is read, and the pane it becomes.
OldPaneRecord(p) ==
    [id |-> p.id, index |-> p.index, cwd |-> p.cwd, command |-> p.command,
     argv |-> ArgvRead(p.argv), content |-> CapturedRead(p.content)]

OldPaneRead(p) == PaneV1(OldPaneRecord(p))

LEMMA OldPaneIsFields ==
    ASSUME NEW p
    PROVE  /\ IsFields(EncodePaneV1(p))
           /\ EncodePaneV1(p) = ((((U32(p.id) \o U32(p.index)) \o WriteOption(p.cwd, Str))
                                   \o Str(p.command)) \o WriteArgv(p.argv))
                                \o WriteCaptured(p.content)
  <1> DEFINE a == U32(p.id)
             b == U32(p.index)
             c == WriteOption(p.cwd, Str)
             d == Str(p.command)
             e == WriteArgv(p.argv)
             f == WriteCaptured(p.content)
  <1>1. EncodePaneV1(p) = ((((a \o b) \o c) \o d) \o e) \o f
    BY DEF EncodePaneV1, WriteArgv, WriteCaptured
  <1>2. IsFields(a) /\ IsFields(b) /\ IsFields(c) /\ IsFields(d) /\ IsFields(e) /\ IsFields(f)
    BY OneField, OptionsAreFields, OldOptionsAreFields DEF U32, Str
  <1>3. ((((a \o b) \o c) \o d) \o e) \o f
           = ((((U32(p.id) \o U32(p.index)) \o WriteOption(p.cwd, Str))
                 \o Str(p.command)) \o WriteArgv(p.argv)) \o WriteCaptured(p.content)
    OBVIOUS
  <1> HIDE DEF a, b, c, d, e, f
  <1>4. IsFields(a \o b)
    BY <1>2, JoinedFields
  <1>5. IsFields((a \o b) \o c)
    BY <1>2, <1>4, JoinedFields
  <1>6. IsFields(((a \o b) \o c) \o d)
    BY <1>2, <1>5, JoinedFields
  <1>7. IsFields((((a \o b) \o c) \o d) \o e)
    BY <1>2, <1>6, JoinedFields
  <1>8. IsFields(EncodePaneV1(p))
    BY <1>1, <1>2, <1>7, JoinedFields
  <1> QED
    BY <1>1, <1>3, <1>8

LEMMA OldPaneIsRead ==
    ASSUME NEW p, IsOldPane(p), NEW blobs, NEW isWhole,
           isWhole => IsOldThere(p.content, blobs),
           NEW rest, IsFields(rest),
           NEW r, IsAt(r, EncodePaneV1(p) \o rest), r.got = <<>>
    PROVE  Reads(DecodePaneV1(r, blobs), OldPaneRead(p), rest, isWhole)
  <1> DEFINE a == U32(p.id)
             b == U32(p.index)
             c == WriteOption(p.cwd, Str)
             d == Str(p.command)
             e == WriteArgv(p.argv)
             f == WriteCaptured(p.content)
             argv == ArgvRead(p.argv)
             content == CapturedRead(p.content)
             record == OldPaneRecord(p)
             r1 == AfterU32(r)
             r2 == AfterU32(r1)
             r3 == AfterNameOption(r2)
             r4 == AfterStr(r3)
             r5 == AfterArgvOption(r4)
             r6 == AfterCapturedOption(r5, blobs)
  <1>1. DecodePaneV1(r, blobs) = AsPaneV1(AsRecord(r6, OldPaneFields))
    BY DEF DecodePaneV1, AfterU32, AfterNameOption, AfterStr, AfterArgvOption,
           AfterCapturedOption, OldPaneFields
  <1>2. EncodePaneV1(p) = ((((a \o b) \o c) \o d) \o e) \o f
    BY OldPaneIsFields
  <1>3. IsFields(a) /\ IsFields(b) /\ IsFields(c) /\ IsFields(d) /\ IsFields(e) /\ IsFields(f)
    BY OneField, OptionsAreFields, OldOptionsAreFields DEF U32, Str
  <1>0. IsNamed(p.cwd)
    BY DEF IsOldPane, IsUnsetOrText, IsNamed, IsOption
  <1>17. /\ record.id = p.id /\ record.index = p.index /\ record.cwd = p.cwd
         /\ record.command = p.command /\ record.argv = argv /\ record.content = content
    BY DEF OldPaneRecord
  <1>18. record = [x \in ToSet(OldPaneFields) |-> record[x]]
    <2>1. ToSet(OldPaneFields) = {"id", "index", "cwd", "command", "argv", "content"}
      BY OldPaneFieldsAre
    <2> QED
      BY <2>1 DEF OldPaneRecord
  <1> HIDE DEF a, b, c, d, e, f, r1, r2, r3, r4, r5, r6, argv, content, record
  <1>4. IsFields(f \o rest)
    BY <1>3, JoinedFields
  <1>5. IsFields(e \o (f \o rest))
    BY <1>3, <1>4, JoinedFields
  <1>6. IsFields(d \o (e \o (f \o rest)))
    BY <1>3, <1>5, JoinedFields
  <1>7. IsFields(c \o (d \o (e \o (f \o rest))))
    BY <1>3, <1>6, JoinedFields
  <1>8. IsFields(b \o (c \o (d \o (e \o (f \o rest)))))
    BY <1>3, <1>7, JoinedFields
  <1>9. RegroupsSeven(a, b, c, d, e, f, rest)
    BY <1>3, JoinedSeven
  <1>10. IsAt(r, a \o (b \o (c \o (d \o (e \o (f \o rest))))))
    BY <1>2, <1>9 DEF RegroupsSeven
  <1>11. IsAt(r1, b \o (c \o (d \o (e \o (f \o rest))))) /\ r1.got = Append(<<>>, p.id)
    BY <1>8, <1>10, NextU32 DEF a, r1
  <1>12. IsAt(r2, c \o (d \o (e \o (f \o rest)))) /\ r2.got = Append(r1.got, p.index)
    BY <1>7, <1>11, NextU32 DEF b, r2
  <1>13. IsAt(r3, d \o (e \o (f \o rest))) /\ r3.got = Append(r2.got, p.cwd)
    BY <1>0, <1>6, <1>12, NextNameOption DEF c, r3
  <1>14. IsAt(r4, e \o (f \o rest)) /\ r4.got = Append(r3.got, p.command)
    BY <1>5, <1>13, NextStr DEF d, r4
  <1>15. IsAt(r5, f \o rest) /\ r5.got = Append(r4.got, argv)
    BY <1>4, <1>14, NextArgvOption DEF e, r5, argv
  <1>16. HasGot(r6, r5, content, rest, isWhole)
    BY <1>15, NextCapturedOption DEF f, r6, content
  <1>19. CASE IsAt(r6, rest) /\ r6.got = Append(r5.got, content)
    <2>1. r6.got = Append(Append(Append(Append(Append(Append(<<>>, p.id), p.index),
                       p.cwd), p.command), argv), content)
      BY <1>11, <1>12, <1>13, <1>14, <1>15, <1>19
    <2>2. /\ r6.got[1] = p.id /\ r6.got[2] = p.index /\ r6.got[3] = p.cwd
          /\ r6.got[4] = p.command /\ r6.got[5] = argv /\ r6.got[6] = content
      BY <2>1
    <2>3. \A i \in 1..6 : record[OldPaneFields[i]] = r6.got[i]
      <3>1. \A i \in 1..6 : i = 1 \/ i = 2 \/ i = 3 \/ i = 4 \/ i = 5 \/ i = 6
        OBVIOUS
      <3> QED
        BY <1>17, <2>2, <3>1, OldPaneFieldsAre
    <2> DEFINE made == AsRecord(r6, OldPaneFields)
    <2>4. HasRead(made, record, rest)
      BY <1>18, <1>19, <2>3, OldPaneFieldsAre, RecordIsMade
    <2> HIDE DEF made
    <2>5. made.value = record /\ IsAt(made, rest)
      BY <2>4 DEF HasRead
    <2>6. AsPaneV1(made) = Yield(made, OldPaneRead(p))
      BY <2>5 DEF AsPaneV1, OldPaneRead, record
    <2> QED
      BY <1>1, <2>5, <2>6, ValueIsYielded DEF Reads, made
  <1>20. CASE ~ isWhole /\ ~ Runs(r6)
    <2>1. AsRecord(r6, OldPaneFields) = r6 /\ AsPaneV1(r6) = r6
      BY <1>20, StoppedIsStopped DEF AsRecord, AsPaneV1
    <2> QED
      BY <1>1, <1>20, <2>1 DEF Reads
  <1> QED
    BY <1>16, <1>19, <1>20 DEF HasGot

LEMMA NoOldPaneOfStopped ==
    ASSUME NEW r, ~ Runs(r), NEW blobs
    PROVE  ~ Runs(DecodePaneV1(r, blobs))
  <1> DEFINE r2 == AfterU32(AfterU32(r))
             r3 == AfterNameOption(r2)
             r4 == AfterStr(r3)
             r5 == AfterArgvOption(r4)
             r6 == AfterCapturedOption(r5, blobs)
  <1>1. DecodePaneV1(r, blobs) = AsPaneV1(AsRecord(r6, OldPaneFields))
    BY DEF DecodePaneV1, AfterU32, AfterNameOption, AfterStr, AfterArgvOption,
           AfterCapturedOption, OldPaneFields
  <1>2. ~ Runs(r2)
    BY NothingAfterStopped
  <1> HIDE DEF r2
  <1>3. ~ Runs(r3)
    BY <1>2, NoneOfStopped
  <1> HIDE DEF r3
  <1>4. ~ Runs(r4)
    BY <1>3, NoOldOptionsOfStopped
  <1> HIDE DEF r4
  <1>5. ~ Runs(r5)
    BY <1>4, NoOldOptionsOfStopped
  <1> HIDE DEF r5
  <1>6. ~ Runs(r6)
    BY <1>5, NoOldOptionsOfStopped
  <1> HIDE DEF r6
  <1>7. AsRecord(r6, OldPaneFields) = r6 /\ AsPaneV1(r6) = r6
    BY <1>6, StoppedIsStopped DEF AsRecord, AsPaneV1
  <1> QED
    BY <1>1, <1>6, <1>7

-----------------------------------------------------------------------------
(***************************************************************************)
(* The format before: windows, and the sessions that hold them.            *)
(***************************************************************************)
OldPanes(r, blobs) == ReadVec(r, LAMBDA q : DecodePaneV1(q, blobs))
OldWindows(r, blobs) == ReadVec(r, LAMBDA w : DecodeWindowV1(w, blobs))
OldSessions(r, blobs) == ReadVec(r, LAMBDA s : DecodeSessionV1(s, blobs))

LEMMA OldPanesAreItems ==
    ASSUME NEW r, NEW blobs
    PROVE  IsVecOf(OldPanes(r, blobs), r, "old pane", blobs)
  <1> DEFINE count == Take(r, "u32")
             items[n \in Nat] == IF n = 0 THEN [count EXCEPT !.got = <<>>]
                                 ELSE Then(items[n - 1], LAMBDA q : DecodePaneV1(q, blobs))
             Items(f) == f = [n \in Nat |-> IF n = 0 THEN [count EXCEPT !.got = <<>>]
                                 ELSE Then(f[n - 1], LAMBDA q : DecodePaneV1(q, blobs))]
  <1>1. OldPanes(r, blobs) = IF Runs(count) THEN AsSeq(items[count.value]) ELSE count
    BY DEF OldPanes, ReadVec, TakeU32
  <1>2. PICK f : AreItems(f, Nat, "old pane", Fresh(count), blobs)
    BY ItemsAreDefined
  <1>3. \A s : Then(s, LAMBDA q : DecodePaneV1(q, blobs)) = NextItem("old pane", s, blobs)
    BY DEF Then, NextItem, ItemOf, Fresh
  <1>4. Items(f)
    BY <1>2, <1>3 DEF AreItems, Fresh
  <1>5. Items(items)
    BY <1>4
  <1> HIDE DEF items
  <1>6. AreItems(items, Nat, "old pane", Fresh(count), blobs)
    BY <1>3, <1>5 DEF AreItems, Fresh
  <1> QED
    BY <1>1, <1>6 DEF IsVecOf

LEMMA OldWindowsAreItems ==
    ASSUME NEW r, NEW blobs
    PROVE  IsVecOf(OldWindows(r, blobs), r, "old window", blobs)
  <1> DEFINE count == Take(r, "u32")
             items[n \in Nat] == IF n = 0 THEN [count EXCEPT !.got = <<>>]
                                 ELSE Then(items[n - 1], LAMBDA w : DecodeWindowV1(w, blobs))
             Items(f) == f = [n \in Nat |-> IF n = 0 THEN [count EXCEPT !.got = <<>>]
                                 ELSE Then(f[n - 1], LAMBDA w : DecodeWindowV1(w, blobs))]
  <1>1. OldWindows(r, blobs) = IF Runs(count) THEN AsSeq(items[count.value]) ELSE count
    BY DEF OldWindows, ReadVec, TakeU32
  <1>2. PICK f : AreItems(f, Nat, "old window", Fresh(count), blobs)
    BY ItemsAreDefined
  <1>3. \A s : Then(s, LAMBDA w : DecodeWindowV1(w, blobs)) = NextItem("old window", s, blobs)
    BY DEF Then, NextItem, ItemOf, Fresh
  <1>4. Items(f)
    BY <1>2, <1>3 DEF AreItems, Fresh
  <1>5. Items(items)
    BY <1>4
  <1> HIDE DEF items
  <1>6. AreItems(items, Nat, "old window", Fresh(count), blobs)
    BY <1>3, <1>5 DEF AreItems, Fresh
  <1> QED
    BY <1>1, <1>6 DEF IsVecOf

LEMMA OldSessionsAreItems ==
    ASSUME NEW r, NEW blobs
    PROVE  IsVecOf(OldSessions(r, blobs), r, "old session", blobs)
  <1> DEFINE count == Take(r, "u32")
             items[n \in Nat] == IF n = 0 THEN [count EXCEPT !.got = <<>>]
                                 ELSE Then(items[n - 1], LAMBDA t : DecodeSessionV1(t, blobs))
             Items(f) == f = [n \in Nat |-> IF n = 0 THEN [count EXCEPT !.got = <<>>]
                                 ELSE Then(f[n - 1], LAMBDA t : DecodeSessionV1(t, blobs))]
  <1>1. OldSessions(r, blobs) = IF Runs(count) THEN AsSeq(items[count.value]) ELSE count
    BY DEF OldSessions, ReadVec, TakeU32
  <1>2. PICK f : AreItems(f, Nat, "old session", Fresh(count), blobs)
    BY ItemsAreDefined
  <1>3. \A s : Then(s, LAMBDA t : DecodeSessionV1(t, blobs)) = NextItem("old session", s, blobs)
    BY DEF Then, NextItem, ItemOf, Fresh
  <1>4. Items(f)
    BY <1>2, <1>3 DEF AreItems, Fresh
  <1>5. Items(items)
    BY <1>4
  <1> HIDE DEF items
  <1>6. AreItems(items, Nat, "old session", Fresh(count), blobs)
    BY <1>3, <1>5 DEF AreItems, Fresh
  <1> QED
    BY <1>1, <1>6 DEF IsVecOf

AreOldPanes(panes) == IsFields(panes) /\ \A i \in DOMAIN panes : IsOldPane(panes[i])

AreOldThere(panes, blobs) == \A i \in DOMAIN panes : IsOldThere(panes[i].content, blobs)

OldPanesRead(panes) == [i \in DOMAIN panes |-> OldPaneRead(panes[i])]

AfterOldPanes(r, blobs) ==
    Then(r, LAMBDA p : ReadNonEmpty(p, LAMBDA q : DecodePaneV1(q, blobs)))

\* What is read of a sequence is a sequence, as long.
LEMMA OldPanesReadAre ==
    ASSUME NEW panes, IsFields(panes)
    PROVE  /\ IsFields(OldPanesRead(panes)) /\ Len(OldPanesRead(panes)) = Len(panes)
           /\ DOMAIN OldPanesRead(panes) = 1 .. Len(panes) /\ DOMAIN panes = 1 .. Len(panes)
           /\ Len(panes) \in Nat
           /\ \A i \in 1 .. Len(panes) : OldPanesRead(panes)[i] = OldPaneRead(panes[i])
           /\ panes # <<>> => OldPanesRead(panes) # <<>>
  <1> DEFINE n == Len(panes)
             read == OldPanesRead(panes)
  <1>1. n \in Nat /\ DOMAIN panes = 1..n
    BY FieldsAreSeq
  <1>2. DOMAIN read = 1..n /\ \A i \in 1..n : read[i] = OldPaneRead(panes[i])
    BY <1>1 DEF OldPanesRead
  <1>3. read = [i \in 1..n |-> read[i]]
    BY <1>1 DEF OldPanesRead
  <1> HIDE DEF read, n
  <1>4. read \in Seq({read[k] : k \in 1..n}) /\ Len(read) = n
    BY <1>1, <1>3
  <1>5. IsFields(read)
    BY <1>4 DEF IsFields
  <1>6. panes # <<>> => read # <<>>
    <2>1. PICK T : panes \in Seq(T)
      BY DEF IsFields
    <2>2. n = 0 => panes = <<>>
      BY <2>1 DEF n
    <2>3. Len(<<>>) = 0
      OBVIOUS
    <2> QED
      BY <1>4, <2>2, <2>3
  <1> QED
    BY <1>1, <1>2, <1>4, <1>5, <1>6 DEF read, n

LEMMA OldPanesAreWritten ==
    ASSUME NEW panes, IsFields(panes)
    PROVE  /\ IsFields(WriteVec(panes, EncodePaneV1))
           /\ \E pieces :
                 /\ WriteVec(panes, EncodePaneV1) = U32(Len(panes)) \o FlattenSeq(pieces)
                 /\ IsFields(pieces) /\ Len(pieces) = Len(panes)
                 /\ ArePieces(pieces, Len(panes))
                 /\ \A k \in 1 .. Len(panes) : pieces[k] = EncodePaneV1(panes[k])
  <1> DEFINE n == Len(panes)
             pieces == [i \in DOMAIN panes |-> EncodePaneV1(panes[i])]
  <1>1. n \in Nat /\ DOMAIN panes = 1..n
    BY FieldsAreSeq
  <1>2. WriteVec(panes, EncodePaneV1) = U32(n) \o FlattenSeq(pieces)
    BY DEF WriteVec
  <1>3. \A k \in 1..n : pieces[k] = EncodePaneV1(panes[k])
    BY <1>1
  <1>4. \A k \in 1..n : IsFields(pieces[k])
    BY <1>1, <1>3, OldPaneIsFields
  <1> HIDE DEF n
  <1>5. pieces \in Seq({pieces[k] : k \in 1..n}) /\ Len(pieces) = n
    BY <1>1
  <1> HIDE DEF pieces
  <1>6. IsFields(pieces) /\ ArePieces(pieces, n)
    BY <1>4, <1>5 DEF IsFields, ArePieces
  <1>7. IsFields(U32(n) \o FlattenSeq(pieces))
    BY <1>1, <1>5, <1>6, SequenceIsFields
  <1> QED
    BY <1>2, <1>3, <1>5, <1>6, <1>7 DEF n

LEMMA NextOldPanes ==
    ASSUME NEW panes, AreOldPanes(panes), panes # <<>>, NEW blobs,
           NEW isWhole, isWhole => AreOldThere(panes, blobs),
           NEW rest, IsFields(rest),
           NEW r, IsAt(r, WriteVec(panes, EncodePaneV1) \o rest)
    PROVE  HasGot(AfterOldPanes(r, blobs), r, OldPanesRead(panes), rest, isWhole)
  <1> DEFINE s == Fresh(r)
             n == Len(panes)
             read == OldPanesRead(panes)
  <1>0. IsFields(panes)
    BY DEF AreOldPanes
  <1>1. PICK pieces :
           /\ WriteVec(panes, EncodePaneV1) = U32(Len(panes)) \o FlattenSeq(pieces)
           /\ IsFields(pieces) /\ Len(pieces) = Len(panes)
           /\ ArePieces(pieces, Len(panes))
           /\ \A k \in 1 .. Len(panes) : pieces[k] = EncodePaneV1(panes[k])
    BY <1>0, OldPanesAreWritten
  <1>2. /\ n \in Nat /\ DOMAIN panes = 1..n /\ Len(read) = n /\ read # <<>> /\ IsFields(read)
        /\ \A i \in 1..n : read[i] = OldPaneRead(panes[i])
    BY <1>0, OldPanesReadAre
  <1>3. PICK X : read \in Seq(X)
    BY <1>2 DEF IsFields
  <1>4. \A t : ~ Runs(t) => ~ Runs(ItemOf("old pane", t, blobs))
    BY NoOldPaneOfStopped DEF ItemOf
  <1>5. ASSUME NEW k \in 1..n, NEW t, NEW left,
               IsFields(left), IsAt(t, pieces[k] \o left), t.got = <<>>
        PROVE  Reads(ItemOf("old pane", t, blobs), read[k], left, isWhole)
    <2>1. IsOldPane(panes[k]) /\ (isWhole => IsOldThere(panes[k].content, blobs))
      BY <1>2 DEF AreOldPanes, AreOldThere
    <2>2. IsAt(t, EncodePaneV1(panes[k]) \o left)
      BY <1>1, <1>5
    <2>3. Reads(DecodePaneV1(t, blobs), OldPaneRead(panes[k]), left, isWhole)
      BY <1>5, <2>1, <2>2, OldPaneIsRead
    <2> QED
      BY <1>2, <2>3 DEF ItemOf
  <1>6. IsVecOf(OldPanes(s, blobs), s, "old pane", blobs)
    BY OldPanesAreItems
  <1>7. IsAt(s, (U32(n) \o FlattenSeq(pieces)) \o rest)
    BY <1>1, FreshIsAt
  <1> DEFINE vec == OldPanes(s, blobs)
  <1> HIDE DEF s, n, vec, read
  <1>8. Reads(vec, read, rest, isWhole)
    BY <1>1, <1>2, <1>3, <1>4, <1>5, <1>6, <1>7, SequenceIsRead DEF n, vec
  <1>9. Reads(SomeItem(vec), read, rest, isWhole)
    BY <1>2, <1>8, SomeItemIsRead
  <1>10. AfterOldPanes(r, blobs) = Got(r, SomeItem(vec))
    BY DEF AfterOldPanes, Then, Fresh, ReadNonEmpty, OldPanes, s, vec
  <1> QED
    BY <1>9, <1>10, ItemIsGotOrStops DEF read

LEMMA NoOldPanesOfStopped ==
    ASSUME NEW r, ~ Runs(r), NEW blobs
    PROVE  ~ Runs(AfterOldPanes(r, blobs))
  <1> DEFINE s == Fresh(r)
  <1>1. ~ Runs(s) /\ Got(r, s) = s
    BY StoppedIsStopped
  <1> HIDE DEF s
  <1>2. SomeItem(OldPanes(s, blobs)) = s
    BY <1>1, OldPanesAreItems, StoppedHasNoItems
  <1>3. AfterOldPanes(r, blobs) = Got(r, SomeItem(OldPanes(s, blobs)))
    BY DEF AfterOldPanes, Then, Fresh, ReadNonEmpty, OldPanes, s
  <1> QED
    BY <1>1, <1>2, <1>3

OldWindowFields == <<"index", "name", "layout", "panes", "active">>

LEMMA OldWindowFieldsAre ==
    /\ OldWindowFields \in [1..5 -> ToSet(OldWindowFields)]
    /\ \A i, j \in 1..5 : OldWindowFields[i] = OldWindowFields[j] => i = j
    /\ OldWindowFields[1] = "index" /\ OldWindowFields[2] = "name"
    /\ OldWindowFields[3] = "layout" /\ OldWindowFields[4] = "panes"
    /\ OldWindowFields[5] = "active"
    /\ ToSet(OldWindowFields) = {"index", "name", "layout", "panes", "active"}
  <1>1. OldWindowFields = <<"index", "name", "layout", "panes", "active">>
    BY DEF OldWindowFields
  <1>2. OldWindowFields \in [1..5 -> ToSet(OldWindowFields)]
    <2>1. DOMAIN OldWindowFields = 1..5 /\ OldWindowFields = [i \in 1..5 |-> OldWindowFields[i]]
      BY <1>1
    <2> QED
      BY <2>1 DEF ToSet
  <1>3. /\ OldWindowFields[1] = "index" /\ OldWindowFields[2] = "name"
        /\ OldWindowFields[3] = "layout" /\ OldWindowFields[4] = "panes"
        /\ OldWindowFields[5] = "active"
    BY <1>1
  <1>4. \A i \in 1..5 : i = 1 \/ i = 2 \/ i = 3 \/ i = 4 \/ i = 5
    OBVIOUS
  <1>5. ToSet(OldWindowFields) = {OldWindowFields[i] : i \in 1..5}
    BY <1>1 DEF ToSet
  <1>6. {OldWindowFields[i] : i \in 1..5} =
           {OldWindowFields[1], OldWindowFields[2], OldWindowFields[3], OldWindowFields[4],
            OldWindowFields[5]}
    BY <1>4
  <1> QED
    BY <1>2, <1>3, <1>4, <1>5, <1>6

OldWindowRead(w) ==
    [index |-> w.index, name |-> w.name, layout |-> w.layout,
     panes |-> OldPanesRead(w.panes), active |-> w.active]

\* What an old window and its panes have to be, as sequences of fields.
LEMMA OldWindowIs ==
    ASSUME NEW w, IsOldWindow(w)
    PROVE  /\ w.name # 0 /\ w.layout # 0 /\ AreOldPanes(w.panes) /\ w.panes # <<>>
           /\ IsWindow(OldWindowRead(w)) /\ Ids(OldPanesRead(w.panes)) = Ids(w.panes)
  <1>1. /\ w.name # 0 /\ w.layout # 0 /\ IsWindow(w) /\ w.panes \in Seq(ToSet(w.panes))
        /\ \A p \in ToSet(w.panes) : IsOldPane(p)
    BY DEF IsOldWindow
  <1>2. IsFields(w.panes)
    BY <1>1 DEF IsFields
  <1>3. AreOldPanes(w.panes)
    BY <1>1, <1>2 DEF AreOldPanes, ToSet
  <1>4. w.panes # <<>>
    BY <1>1 DEF IsWindow
  <1> DEFINE panes == w.panes
             read == OldPanesRead(panes)
             made == OldWindowRead(w)
  <1>5. /\ DOMAIN read = DOMAIN panes /\ read # <<>>
        /\ \A i \in DOMAIN panes : read[i] = OldPaneRead(panes[i])
    BY <1>2, <1>4, OldPanesReadAre
  <1>6. \A p : OldPaneRead(p).index = p.index /\ OldPaneRead(p).id = p.id
    BY DEF OldPaneRead, PaneV1, OldPaneRecord
  <1>7. Indexes(read) = Indexes(panes) /\ Ids(read) = Ids(panes)
    <2> HIDE DEF read, panes
    <2> QED
      BY <1>5, <1>6 DEF Indexes, Ids
  <1>8. made.panes = read /\ made.active = w.active
    BY DEF OldWindowRead
  <1>9. IsWindow(made)
    <2> HIDE DEF made, read
    <2> QED
      BY <1>1, <1>5, <1>7, <1>8 DEF IsWindow
  <1> QED
    BY <1>1, <1>3, <1>4, <1>7, <1>9

LEMMA OldWindowIsFields ==
    ASSUME NEW w, IsFields(w.panes)
    PROVE  /\ IsFields(EncodeWindowV1(w)) /\ IsFields(WriteVec(w.panes, EncodePaneV1))
  <1> DEFINE a == U32(w.index)
             b == Str(w.name)
             c == Str(w.layout)
             d == WriteVec(w.panes, EncodePaneV1)
             e == U32(w.active)
  <1>1. EncodeWindowV1(w) = (((a \o b) \o c) \o d) \o e
    BY DEF EncodeWindowV1
  <1>2. IsFields(a) /\ IsFields(b) /\ IsFields(c) /\ IsFields(d) /\ IsFields(e)
    BY OneField, OldPanesAreWritten DEF Str, U32
  <1>7. IsFields(WriteVec(w.panes, EncodePaneV1))
    BY <1>2
  <1> HIDE DEF a, b, c, d, e
  <1>3. IsFields(a \o b)
    BY <1>2, JoinedFields
  <1>4. IsFields((a \o b) \o c)
    BY <1>2, <1>3, JoinedFields
  <1>5. IsFields(((a \o b) \o c) \o d)
    BY <1>2, <1>4, JoinedFields
  <1>6. IsFields(EncodeWindowV1(w))
    BY <1>1, <1>2, <1>5, JoinedFields
  <1> QED
    BY <1>6, <1>7

LEMMA OldWindowIsRead ==
    ASSUME NEW w, IsOldWindow(w), NEW blobs, NEW isWhole,
           isWhole => AreOldThere(w.panes, blobs),
           NEW rest, IsFields(rest),
           NEW r, IsAt(r, EncodeWindowV1(w) \o rest), r.got = <<>>
    PROVE  Reads(DecodeWindowV1(r, blobs), OldWindowRead(w), rest, isWhole)
  <1> DEFINE a == U32(w.index)
             b == Str(w.name)
             c == Str(w.layout)
             d == WriteVec(w.panes, EncodePaneV1)
             e == U32(w.active)
             panes == OldPanesRead(w.panes)
             read == OldWindowRead(w)
             r1 == AfterU32(r)
             r2 == AfterName(r1)
             r3 == AfterName(r2)
             r4 == AfterOldPanes(r3, blobs)
             r5 == AfterU32(r4)
  <1>1. DecodeWindowV1(r, blobs) = Resolved(AsRecord(r5, OldWindowFields), IsWindow)
    BY DEF DecodeWindowV1, AfterName, AfterU32, AfterOldPanes, OldWindowFields
  <1>2. EncodeWindowV1(w) = (((a \o b) \o c) \o d) \o e
    BY DEF EncodeWindowV1
  <1>0. /\ w.name # 0 /\ w.layout # 0 /\ AreOldPanes(w.panes) /\ w.panes # <<>>
        /\ IsWindow(read)
    BY OldWindowIs
  <1>3. IsFields(a) /\ IsFields(b) /\ IsFields(c) /\ IsFields(d) /\ IsFields(e)
    BY <1>0, OneField, OldWindowIsFields DEF Str, U32, AreOldPanes
  <1>17. /\ read.index = w.index /\ read.name = w.name /\ read.layout = w.layout
         /\ read.panes = panes /\ read.active = w.active
    BY DEF OldWindowRead
  <1>18. read = [x \in ToSet(OldWindowFields) |-> read[x]]
    <2>1. ToSet(OldWindowFields) = {"index", "name", "layout", "panes", "active"}
      BY OldWindowFieldsAre
    <2> QED
      BY <2>1 DEF OldWindowRead
  <1> HIDE DEF a, b, c, d, e, r1, r2, r3, r4, r5, panes, read
  <1>4. IsFields(e \o rest)
    BY <1>3, JoinedFields
  <1>5. IsFields(d \o (e \o rest))
    BY <1>3, <1>4, JoinedFields
  <1>6. IsFields(c \o (d \o (e \o rest)))
    BY <1>3, <1>5, JoinedFields
  <1>7. IsFields(b \o (c \o (d \o (e \o rest))))
    BY <1>3, <1>6, JoinedFields
  <1>8. RegroupsSix(a, b, c, d, e, rest)
    BY <1>3, JoinedSix
  <1>9. IsAt(r, a \o (b \o (c \o (d \o (e \o rest)))))
    BY <1>2, <1>8 DEF RegroupsSix
  <1>10. IsAt(r1, b \o (c \o (d \o (e \o rest)))) /\ r1.got = Append(<<>>, w.index)
    BY <1>7, <1>9, NextU32 DEF a, r1
  <1>11. IsAt(r2, c \o (d \o (e \o rest))) /\ r2.got = Append(r1.got, w.name)
    BY <1>0, <1>6, <1>10, NextName DEF b, r2
  <1>12. IsAt(r3, d \o (e \o rest)) /\ r3.got = Append(r2.got, w.layout)
    BY <1>0, <1>5, <1>11, NextName DEF c, r3
  <1>13. HasGot(r4, r3, panes, e \o rest, isWhole)
    BY <1>0, <1>4, <1>12, NextOldPanes DEF d, r4, panes
  <1>14. CASE IsAt(r4, e \o rest) /\ r4.got = Append(r3.got, panes)
    <2>1. IsAt(r5, rest) /\ r5.got = Append(r4.got, w.active)
      BY <1>14, NextU32 DEF e, r5
    <2>2. r5.got = Append(Append(Append(Append(Append(<<>>, w.index), w.name),
                       w.layout), panes), w.active)
      BY <1>10, <1>11, <1>12, <1>14, <2>1
    <2>3. /\ r5.got[1] = w.index /\ r5.got[2] = w.name /\ r5.got[3] = w.layout
          /\ r5.got[4] = panes /\ r5.got[5] = w.active
      BY <2>2
    <2>4. \A i \in 1..5 : read[OldWindowFields[i]] = r5.got[i]
      <3>1. \A i \in 1..5 : i = 1 \/ i = 2 \/ i = 3 \/ i = 4 \/ i = 5
        OBVIOUS
      <3> QED
        BY <1>17, <2>3, <3>1, OldWindowFieldsAre
    <2>5. HasRead(AsRecord(r5, OldWindowFields), read, rest)
      BY <1>18, <2>1, <2>4, OldWindowFieldsAre, RecordIsMade
    <2> QED
      BY <1>0, <1>1, <2>5, ResolvedWindow DEF Reads, read
  <1>15. CASE ~ isWhole /\ ~ Runs(r4)
    <2>1. ~ Runs(r5)
      BY <1>15, NothingAfterStopped DEF r5
    <2>2. AsRecord(r5, OldWindowFields) = r5
      BY <2>1, StoppedIsStopped DEF AsRecord
    <2>3. Resolved(r5, IsWindow) = r5
      BY <2>1 DEF Resolved, StopUnless
    <2> QED
      BY <1>1, <1>15, <2>1, <2>2, <2>3 DEF Reads
  <1> QED
    BY <1>13, <1>14, <1>15 DEF HasGot

LEMMA NoOldWindowOfStopped ==
    ASSUME NEW r, ~ Runs(r), NEW blobs
    PROVE  ~ Runs(DecodeWindowV1(r, blobs))
  <1> DEFINE r1 == AfterU32(r)
             r3 == AfterName(AfterName(r1))
             r4 == AfterOldPanes(r3, blobs)
             r5 == AfterU32(r4)
  <1>1. DecodeWindowV1(r, blobs) = Resolved(AsRecord(r5, OldWindowFields), IsWindow)
    BY DEF DecodeWindowV1, AfterName, AfterU32, AfterOldPanes, OldWindowFields
  <1>2. ~ Runs(r1)
    BY NothingAfterStopped
  <1> HIDE DEF r1
  <1>3. ~ Runs(r3)
    BY <1>2, NothingAfterStopped
  <1> HIDE DEF r3
  <1>4. ~ Runs(r4)
    BY <1>3, NoOldPanesOfStopped
  <1> HIDE DEF r4
  <1>5. ~ Runs(r5)
    BY <1>4, NothingAfterStopped
  <1> HIDE DEF r5
  <1>6. AsRecord(r5, OldWindowFields) = r5
    BY <1>5, StoppedIsStopped DEF AsRecord
  <1>7. Resolved(r5, IsWindow) = r5
    BY <1>5 DEF Resolved, StopUnless
  <1> QED
    BY <1>1, <1>5, <1>6, <1>7

AreOldWindows(windows) == IsFields(windows) /\ \A i \in DOMAIN windows : IsOldWindow(windows[i])

AreOldAllThere(windows, blobs) == \A i \in DOMAIN windows : AreOldThere(windows[i].panes, blobs)

OldWindowsRead(windows) == [i \in DOMAIN windows |-> OldWindowRead(windows[i])]

AfterOldWindows(r, blobs) ==
    Then(r, LAMBDA l : ReadNonEmpty(l, LAMBDA w : DecodeWindowV1(w, blobs)))

\* What is read of a sequence is a sequence, as long.
LEMMA OldWindowsReadAre ==
    ASSUME NEW windows, IsFields(windows)
    PROVE  /\ IsFields(OldWindowsRead(windows)) /\ Len(OldWindowsRead(windows)) = Len(windows)
           /\ DOMAIN OldWindowsRead(windows) = 1 .. Len(windows) /\ DOMAIN windows = 1 .. Len(windows)
           /\ Len(windows) \in Nat
           /\ \A i \in 1 .. Len(windows) : OldWindowsRead(windows)[i] = OldWindowRead(windows[i])
           /\ windows # <<>> => OldWindowsRead(windows) # <<>>
  <1> DEFINE n == Len(windows)
             read == OldWindowsRead(windows)
  <1>1. n \in Nat /\ DOMAIN windows = 1..n
    BY FieldsAreSeq
  <1>2. DOMAIN read = 1..n /\ \A i \in 1..n : read[i] = OldWindowRead(windows[i])
    BY <1>1 DEF OldWindowsRead
  <1>3. read = [i \in 1..n |-> read[i]]
    BY <1>1 DEF OldWindowsRead
  <1> HIDE DEF read, n
  <1>4. read \in Seq({read[k] : k \in 1..n}) /\ Len(read) = n
    BY <1>1, <1>3
  <1>5. IsFields(read)
    BY <1>4 DEF IsFields
  <1>6. windows # <<>> => read # <<>>
    <2>1. PICK T : windows \in Seq(T)
      BY DEF IsFields
    <2>2. n = 0 => windows = <<>>
      BY <2>1 DEF n
    <2>3. Len(<<>>) = 0
      OBVIOUS
    <2> QED
      BY <1>4, <2>2, <2>3
  <1> QED
    BY <1>1, <1>2, <1>4, <1>5, <1>6 DEF read, n

LEMMA OldWindowsAreWritten ==
    ASSUME NEW windows, AreOldWindows(windows)
    PROVE  /\ IsFields(WriteVec(windows, EncodeWindowV1))
           /\ \E pieces :
                 /\ WriteVec(windows, EncodeWindowV1) = U32(Len(windows)) \o FlattenSeq(pieces)
                 /\ IsFields(pieces) /\ Len(pieces) = Len(windows)
                 /\ ArePieces(pieces, Len(windows))
                 /\ \A k \in 1 .. Len(windows) : pieces[k] = EncodeWindowV1(windows[k])
  <1> DEFINE n == Len(windows)
             pieces == [i \in DOMAIN windows |-> EncodeWindowV1(windows[i])]
  <1>1. n \in Nat /\ DOMAIN windows = 1..n
    BY FieldsAreSeq DEF AreOldWindows
  <1>2. WriteVec(windows, EncodeWindowV1) = U32(n) \o FlattenSeq(pieces)
    BY DEF WriteVec
  <1>3. \A k \in 1..n : pieces[k] = EncodeWindowV1(windows[k])
    BY <1>1
  <1>4. \A k \in 1..n : IsFields(pieces[k])
    BY <1>1, <1>3, OldWindowIs, OldWindowIsFields DEF AreOldWindows, AreOldPanes
  <1> HIDE DEF n
  <1>5. pieces \in Seq({pieces[k] : k \in 1..n}) /\ Len(pieces) = n
    BY <1>1
  <1> HIDE DEF pieces
  <1>6. IsFields(pieces) /\ ArePieces(pieces, n)
    BY <1>4, <1>5 DEF IsFields, ArePieces
  <1>7. IsFields(U32(n) \o FlattenSeq(pieces))
    BY <1>1, <1>5, <1>6, SequenceIsFields
  <1> QED
    BY <1>2, <1>3, <1>5, <1>6, <1>7 DEF n

LEMMA NextOldWindows ==
    ASSUME NEW windows, AreOldWindows(windows), windows # <<>>, NEW blobs,
           NEW isWhole, isWhole => AreOldAllThere(windows, blobs),
           NEW rest, IsFields(rest),
           NEW r, IsAt(r, WriteVec(windows, EncodeWindowV1) \o rest)
    PROVE  HasGot(AfterOldWindows(r, blobs), r, OldWindowsRead(windows), rest, isWhole)
  <1> DEFINE s == Fresh(r)
             n == Len(windows)
             read == OldWindowsRead(windows)
  <1>0. IsFields(windows)
    BY DEF AreOldWindows
  <1>1. PICK pieces :
           /\ WriteVec(windows, EncodeWindowV1) = U32(Len(windows)) \o FlattenSeq(pieces)
           /\ IsFields(pieces) /\ Len(pieces) = Len(windows)
           /\ ArePieces(pieces, Len(windows))
           /\ \A k \in 1 .. Len(windows) : pieces[k] = EncodeWindowV1(windows[k])
    BY OldWindowsAreWritten
  <1>2. /\ n \in Nat /\ DOMAIN windows = 1..n /\ Len(read) = n /\ read # <<>> /\ IsFields(read)
        /\ \A i \in 1..n : read[i] = OldWindowRead(windows[i])
    BY <1>0, OldWindowsReadAre
  <1>3. PICK X : read \in Seq(X)
    BY <1>2 DEF IsFields
  <1>4. \A t : ~ Runs(t) => ~ Runs(ItemOf("old window", t, blobs))
    BY NoOldWindowOfStopped DEF ItemOf
  <1>5. ASSUME NEW k \in 1..n, NEW t, NEW left,
               IsFields(left), IsAt(t, pieces[k] \o left), t.got = <<>>
        PROVE  Reads(ItemOf("old window", t, blobs), read[k], left, isWhole)
    <2>1. IsOldWindow(windows[k]) /\ (isWhole => AreOldThere(windows[k].panes, blobs))
      BY <1>2 DEF AreOldWindows, AreOldAllThere
    <2>2. IsAt(t, EncodeWindowV1(windows[k]) \o left)
      BY <1>1, <1>5
    <2>3. Reads(DecodeWindowV1(t, blobs), OldWindowRead(windows[k]), left, isWhole)
      BY <1>5, <2>1, <2>2, OldWindowIsRead
    <2> QED
      BY <1>2, <2>3 DEF ItemOf
  <1>6. IsVecOf(OldWindows(s, blobs), s, "old window", blobs)
    BY OldWindowsAreItems
  <1>7. IsAt(s, (U32(n) \o FlattenSeq(pieces)) \o rest)
    BY <1>1, FreshIsAt
  <1> DEFINE vec == OldWindows(s, blobs)
  <1> HIDE DEF s, n, vec, read
  <1>8. Reads(vec, read, rest, isWhole)
    BY <1>1, <1>2, <1>3, <1>4, <1>5, <1>6, <1>7, SequenceIsRead DEF n, vec
  <1>9. Reads(SomeItem(vec), read, rest, isWhole)
    BY <1>2, <1>8, SomeItemIsRead
  <1>10. AfterOldWindows(r, blobs) = Got(r, SomeItem(vec))
    BY DEF AfterOldWindows, Then, Fresh, ReadNonEmpty, OldWindows, s, vec
  <1> QED
    BY <1>9, <1>10, ItemIsGotOrStops DEF read

LEMMA NoOldWindowsOfStopped ==
    ASSUME NEW r, ~ Runs(r), NEW blobs
    PROVE  ~ Runs(AfterOldWindows(r, blobs))
  <1> DEFINE s == Fresh(r)
  <1>1. ~ Runs(s) /\ Got(r, s) = s
    BY StoppedIsStopped
  <1> HIDE DEF s
  <1>2. SomeItem(OldWindows(s, blobs)) = s
    BY <1>1, OldWindowsAreItems, StoppedHasNoItems
  <1>3. AfterOldWindows(r, blobs) = Got(r, SomeItem(OldWindows(s, blobs)))
    BY DEF AfterOldWindows, Then, Fresh, ReadNonEmpty, OldWindows, s
  <1> QED
    BY <1>1, <1>2, <1>3


OldSessionFields == <<"name", "links", "active">>

LEMMA OldSessionFieldsAre ==
    /\ OldSessionFields \in [1..3 -> ToSet(OldSessionFields)]
    /\ \A i, j \in 1..3 : OldSessionFields[i] = OldSessionFields[j] => i = j
    /\ OldSessionFields[1] = "name" /\ OldSessionFields[2] = "links"
    /\ OldSessionFields[3] = "active"
    /\ ToSet(OldSessionFields) = {"name", "links", "active"}
  <1>1. OldSessionFields = <<"name", "links", "active">>
    BY DEF OldSessionFields
  <1>2. OldSessionFields \in [1..3 -> ToSet(OldSessionFields)]
    <2>1. DOMAIN OldSessionFields = 1..3 /\ OldSessionFields = [i \in 1..3 |-> OldSessionFields[i]]
      BY <1>1
    <2> QED
      BY <2>1 DEF ToSet
  <1>3. /\ OldSessionFields[1] = "name" /\ OldSessionFields[2] = "links"
        /\ OldSessionFields[3] = "active"
    BY <1>1
  <1>4. \A i \in 1..3 : i = 1 \/ i = 2 \/ i = 3
    OBVIOUS
  <1>5. ToSet(OldSessionFields) = {OldSessionFields[i] : i \in 1..3}
    BY <1>1 DEF ToSet
  <1>6. {OldSessionFields[i] : i \in 1..3} =
           {OldSessionFields[1], OldSessionFields[2], OldSessionFields[3]}
    BY <1>4
  <1> QED
    BY <1>2, <1>3, <1>4, <1>5, <1>6

\* The record of an old session that is read, and what is made of it.
OldSessionRecord(s) ==
    [name |-> s.name, links |-> OldWindowsRead(s.windows), active |-> s.active]

Alone == [group |-> None, last |-> None]

OldSessionRead(s) ==
    [name |-> s.name, links |-> OldWindowsRead(s.windows), active |-> s.active,
     group |-> None, last |-> None]

LEMMA OldSessionIs ==
    ASSUME NEW s, IsOldSession(s)
    PROVE  /\ s.name # 0 /\ AreOldWindows(s.windows) /\ s.windows # <<>>
           /\ IsSession(OldSessionRead(s))
           /\ Extended(OldSessionRecord(s), Alone) = OldSessionRead(s)
  <1> DEFINE windows == s.windows
             read == OldWindowsRead(windows)
             made == OldSessionRead(s)
             old == [links |-> windows, active |-> s.active, last |-> None]
             record == OldSessionRecord(s)
  <1>1. /\ s.name # 0 /\ IsSession(old) /\ windows \in Seq(ToSet(windows))
        /\ \A w \in ToSet(windows) : IsOldWindow(w)
    BY DEF IsOldSession
  <1>2. IsFields(windows)
    BY <1>1 DEF IsFields
  <1>3. AreOldWindows(windows)
    BY <1>1, <1>2 DEF AreOldWindows, ToSet
  <1>4. old.links = windows /\ old.active = s.active /\ old.last = None
    OBVIOUS
  <1>5. made.links = read /\ made.active = s.active /\ made.last = None
    BY DEF OldSessionRead
  <1>6. \A w : OldWindowRead(w).index = w.index
    BY DEF OldWindowRead
  <1>7. Extended(record, Alone) = made
    <2>1. DOMAIN record = {"name", "links", "active"} /\ DOMAIN Alone = {"group", "last"}
      BY DEF OldSessionRecord, Alone
    <2>2. Extended(record, Alone) = [x \in {"name", "links", "active", "group", "last"} |->
              IF x \in {"name", "links", "active"} THEN record[x] ELSE Alone[x]]
      <3>1. DOMAIN record \cup DOMAIN Alone = {"name", "links", "active", "group", "last"}
        BY <2>1
      <3> HIDE DEF record
      <3> QED
        BY <2>1, <3>1 DEF Extended
    <2>3. \A x \in {"name", "links", "active", "group", "last"} :
             made[x] = IF x \in {"name", "links", "active"} THEN record[x] ELSE Alone[x]
      BY DEF OldSessionRead, OldSessionRecord, Alone
    <2>4. made = [x \in {"name", "links", "active", "group", "last"} |-> made[x]]
      BY DEF OldSessionRead
    <2> HIDE DEF made, record
    <2> QED
      BY <2>2, <2>3, <2>4
  <1> HIDE DEF made, old, read, windows, record
  <1>8. windows # <<>>
    BY <1>1, <1>4 DEF IsSession
  <1>9. /\ DOMAIN read = DOMAIN windows /\ read # <<>>
        /\ \A i \in DOMAIN windows : read[i] = OldWindowRead(windows[i])
    BY <1>2, <1>8, OldWindowsReadAre DEF read
  <1>10. Indexes(read) = Indexes(windows)
    BY <1>6, <1>9 DEF Indexes
  <1>11. IsSession(made)
    BY <1>1, <1>4, <1>5, <1>9, <1>10 DEF IsSession
  <1> QED
    BY <1>1, <1>3, <1>7, <1>8, <1>11 DEF made, windows, record

LEMMA OldSessionIsFields ==
    ASSUME NEW s, AreOldWindows(s.windows)
    PROVE  /\ IsFields(EncodeSessionV1(s)) /\ IsFields(WriteVec(s.windows, EncodeWindowV1))
  <1> DEFINE a == Str(s.name)
             b == WriteVec(s.windows, EncodeWindowV1)
             c == U32(s.active)
  <1>1. EncodeSessionV1(s) = (a \o b) \o c
    BY DEF EncodeSessionV1
  <1>2. IsFields(a) /\ IsFields(b) /\ IsFields(c)
    BY OneField, OldWindowsAreWritten DEF Str, U32
  <1>3. IsFields(WriteVec(s.windows, EncodeWindowV1))
    BY <1>2
  <1> HIDE DEF a, b, c
  <1>4. IsFields(a \o b)
    BY <1>2, JoinedFields
  <1>5. IsFields(EncodeSessionV1(s))
    BY <1>1, <1>2, <1>4, JoinedFields
  <1> QED
    BY <1>3, <1>5

LEMMA OldSessionIsRead ==
    ASSUME NEW s, IsOldSession(s), NEW blobs, NEW isWhole,
           isWhole => AreOldAllThere(s.windows, blobs),
           NEW rest, IsFields(rest),
           NEW r, IsAt(r, EncodeSessionV1(s) \o rest), r.got = <<>>
    PROVE  Reads(DecodeSessionV1(r, blobs), OldSessionRead(s), rest, isWhole)
  <1> DEFINE a == Str(s.name)
             b == WriteVec(s.windows, EncodeWindowV1)
             c == U32(s.active)
             windows == OldWindowsRead(s.windows)
             record == OldSessionRecord(s)
             read == OldSessionRead(s)
             r1 == AfterName(r)
             r2 == AfterOldWindows(r1, blobs)
             r3 == AfterU32(r2)
  <1>1. DecodeSessionV1(r, blobs) =
           Resolved(With(AsRecord(r3, OldSessionFields), Alone), IsSession)
    BY DEF DecodeSessionV1, AfterName, AfterU32, AfterOldWindows, OldSessionFields, Alone
  <1>2. EncodeSessionV1(s) = (a \o b) \o c
    BY DEF EncodeSessionV1
  <1>0. /\ s.name # 0 /\ AreOldWindows(s.windows) /\ s.windows # <<>>
        /\ IsSession(read) /\ Extended(record, Alone) = read
    BY OldSessionIs
  <1>3. IsFields(a) /\ IsFields(b) /\ IsFields(c)
    BY <1>0, OneField, OldSessionIsFields DEF Str, U32
  <1>17. record.name = s.name /\ record.links = windows /\ record.active = s.active
    BY DEF OldSessionRecord
  <1>18. record = [x \in ToSet(OldSessionFields) |-> record[x]]
    <2>1. ToSet(OldSessionFields) = {"name", "links", "active"}
      BY OldSessionFieldsAre
    <2> QED
      BY <2>1 DEF OldSessionRecord
  <1> HIDE DEF a, b, c, r1, r2, r3, windows, read, record
  <1>4. IsFields(c \o rest)
    BY <1>3, JoinedFields
  <1>5. IsFields(b \o (c \o rest))
    BY <1>3, <1>4, JoinedFields
  <1>6. RegroupsFour(a, b, c, rest)
    BY <1>3, JoinedFour
  <1>7. IsAt(r, a \o (b \o (c \o rest)))
    BY <1>2, <1>6 DEF RegroupsFour
  <1>8. IsAt(r1, b \o (c \o rest)) /\ r1.got = Append(<<>>, s.name)
    BY <1>0, <1>5, <1>7, NextName DEF a, r1
  <1>9. HasGot(r2, r1, windows, c \o rest, isWhole)
    BY <1>0, <1>4, <1>8, NextOldWindows DEF b, r2, windows
  <1>10. CASE IsAt(r2, c \o rest) /\ r2.got = Append(r1.got, windows)
    <2>1. IsAt(r3, rest) /\ r3.got = Append(r2.got, s.active)
      BY <1>10, NextU32 DEF c, r3
    <2>2. r3.got = Append(Append(Append(<<>>, s.name), windows), s.active)
      BY <1>8, <1>10, <2>1
    <2>3. r3.got[1] = s.name /\ r3.got[2] = windows /\ r3.got[3] = s.active
      BY <2>2
    <2>4. \A i \in 1..3 : record[OldSessionFields[i]] = r3.got[i]
      <3>1. \A i \in 1..3 : i = 1 \/ i = 2 \/ i = 3
        OBVIOUS
      <3> QED
        BY <1>17, <2>3, <3>1, OldSessionFieldsAre
    <2> DEFINE made == AsRecord(r3, OldSessionFields)
               with == With(made, Alone)
    <2>5. HasRead(made, record, rest)
      BY <1>18, <2>1, <2>4, OldSessionFieldsAre, RecordIsMade
    <2> HIDE DEF made
    <2>6. made.value = record /\ IsAt(made, rest)
      BY <2>5 DEF HasRead
    <2>7. with = Yield(made, read)
      BY <1>0, <2>6 DEF With
    <2>8. HasRead(with, read, rest)
      BY <2>6, <2>7, ValueIsYielded
    <2> HIDE DEF with
    <2>9. Resolved(with, IsSession) = with
      BY <1>0, <2>8 DEF Resolved, StopUnless, HasRead
    <2> QED
      BY <1>1, <2>8, <2>9 DEF Reads, read, made, with
  <1>11. CASE ~ isWhole /\ ~ Runs(r2)
    <2>1. ~ Runs(r3)
      BY <1>11, NothingAfterStopped DEF r3
    <2>2. AsRecord(r3, OldSessionFields) = r3 /\ With(r3, Alone) = r3
      BY <2>1, StoppedIsStopped DEF AsRecord, With
    <2>3. Resolved(r3, IsSession) = r3
      BY <2>1 DEF Resolved, StopUnless
    <2> QED
      BY <1>1, <1>11, <2>1, <2>2, <2>3 DEF Reads
  <1> QED
    BY <1>9, <1>10, <1>11 DEF HasGot

LEMMA NoOldSessionOfStopped ==
    ASSUME NEW r, ~ Runs(r), NEW blobs
    PROVE  ~ Runs(DecodeSessionV1(r, blobs))
  <1> DEFINE r1 == AfterName(r)
             r2 == AfterOldWindows(r1, blobs)
             r3 == AfterU32(r2)
  <1>1. DecodeSessionV1(r, blobs) =
           Resolved(With(AsRecord(r3, OldSessionFields), Alone), IsSession)
    BY DEF DecodeSessionV1, AfterName, AfterU32, AfterOldWindows, OldSessionFields, Alone
  <1>2. ~ Runs(r1)
    BY NothingAfterStopped
  <1> HIDE DEF r1
  <1>3. ~ Runs(r2)
    BY <1>2, NoOldWindowsOfStopped
  <1> HIDE DEF r2
  <1>4. ~ Runs(r3)
    BY <1>3, NothingAfterStopped
  <1> HIDE DEF r3
  <1>5. AsRecord(r3, OldSessionFields) = r3 /\ With(r3, Alone) = r3
    BY <1>4, StoppedIsStopped DEF AsRecord, With
  <1>6. Resolved(r3, IsSession) = r3
    BY <1>4 DEF Resolved, StopUnless
  <1> QED
    BY <1>1, <1>4, <1>5, <1>6

AreOldSessions(sessions) == IsFields(sessions) /\ \A i \in DOMAIN sessions : IsOldSession(sessions[i])

AreAllOldThere(sessions, blobs) == \A i \in DOMAIN sessions : AreOldAllThere(sessions[i].windows, blobs)

OldSessionsRead(sessions) == [i \in DOMAIN sessions |-> OldSessionRead(sessions[i])]

AfterOldSessions(r, blobs) ==
    Then(r, LAMBDA t : ReadNonEmpty(t, LAMBDA s : DecodeSessionV1(s, blobs)))

\* What is read of a sequence is a sequence, as long.
LEMMA OldSessionsReadAre ==
    ASSUME NEW sessions, IsFields(sessions)
    PROVE  /\ IsFields(OldSessionsRead(sessions)) /\ Len(OldSessionsRead(sessions)) = Len(sessions)
           /\ DOMAIN OldSessionsRead(sessions) = 1 .. Len(sessions) /\ DOMAIN sessions = 1 .. Len(sessions)
           /\ Len(sessions) \in Nat
           /\ \A i \in 1 .. Len(sessions) : OldSessionsRead(sessions)[i] = OldSessionRead(sessions[i])
           /\ sessions # <<>> => OldSessionsRead(sessions) # <<>>
  <1> DEFINE n == Len(sessions)
             read == OldSessionsRead(sessions)
  <1>1. n \in Nat /\ DOMAIN sessions = 1..n
    BY FieldsAreSeq
  <1>2. DOMAIN read = 1..n /\ \A i \in 1..n : read[i] = OldSessionRead(sessions[i])
    BY <1>1 DEF OldSessionsRead
  <1>3. read = [i \in 1..n |-> read[i]]
    BY <1>1 DEF OldSessionsRead
  <1> HIDE DEF read, n
  <1>4. read \in Seq({read[k] : k \in 1..n}) /\ Len(read) = n
    BY <1>1, <1>3
  <1>5. IsFields(read)
    BY <1>4 DEF IsFields
  <1>6. sessions # <<>> => read # <<>>
    <2>1. PICK T : sessions \in Seq(T)
      BY DEF IsFields
    <2>2. n = 0 => sessions = <<>>
      BY <2>1 DEF n
    <2>3. Len(<<>>) = 0
      OBVIOUS
    <2> QED
      BY <1>4, <2>2, <2>3
  <1> QED
    BY <1>1, <1>2, <1>4, <1>5, <1>6 DEF read, n

LEMMA OldSessionsAreWritten ==
    ASSUME NEW sessions, AreOldSessions(sessions)
    PROVE  /\ IsFields(WriteVec(sessions, EncodeSessionV1))
           /\ \E pieces :
                 /\ WriteVec(sessions, EncodeSessionV1) = U32(Len(sessions)) \o FlattenSeq(pieces)
                 /\ IsFields(pieces) /\ Len(pieces) = Len(sessions)
                 /\ ArePieces(pieces, Len(sessions))
                 /\ \A k \in 1 .. Len(sessions) : pieces[k] = EncodeSessionV1(sessions[k])
  <1> DEFINE n == Len(sessions)
             pieces == [i \in DOMAIN sessions |-> EncodeSessionV1(sessions[i])]
  <1>1. n \in Nat /\ DOMAIN sessions = 1..n
    BY FieldsAreSeq DEF AreOldSessions
  <1>2. WriteVec(sessions, EncodeSessionV1) = U32(n) \o FlattenSeq(pieces)
    BY DEF WriteVec
  <1>3. \A k \in 1..n : pieces[k] = EncodeSessionV1(sessions[k])
    BY <1>1
  <1>4. \A k \in 1..n : IsFields(pieces[k])
    BY <1>1, <1>3, OldSessionIs, OldSessionIsFields DEF AreOldSessions, AreOldWindows
  <1> HIDE DEF n
  <1>5. pieces \in Seq({pieces[k] : k \in 1..n}) /\ Len(pieces) = n
    BY <1>1
  <1> HIDE DEF pieces
  <1>6. IsFields(pieces) /\ ArePieces(pieces, n)
    BY <1>4, <1>5 DEF IsFields, ArePieces
  <1>7. IsFields(U32(n) \o FlattenSeq(pieces))
    BY <1>1, <1>5, <1>6, SequenceIsFields
  <1> QED
    BY <1>2, <1>3, <1>5, <1>6, <1>7 DEF n

LEMMA NextOldSessions ==
    ASSUME NEW sessions, AreOldSessions(sessions), sessions # <<>>, NEW blobs,
           NEW isWhole, isWhole => AreAllOldThere(sessions, blobs),
           NEW rest, IsFields(rest),
           NEW r, IsAt(r, WriteVec(sessions, EncodeSessionV1) \o rest)
    PROVE  HasGot(AfterOldSessions(r, blobs), r, OldSessionsRead(sessions), rest, isWhole)
  <1> DEFINE s == Fresh(r)
             n == Len(sessions)
             read == OldSessionsRead(sessions)
  <1>0. IsFields(sessions)
    BY DEF AreOldSessions
  <1>1. PICK pieces :
           /\ WriteVec(sessions, EncodeSessionV1) = U32(Len(sessions)) \o FlattenSeq(pieces)
           /\ IsFields(pieces) /\ Len(pieces) = Len(sessions)
           /\ ArePieces(pieces, Len(sessions))
           /\ \A k \in 1 .. Len(sessions) : pieces[k] = EncodeSessionV1(sessions[k])
    BY OldSessionsAreWritten
  <1>2. /\ n \in Nat /\ DOMAIN sessions = 1..n /\ Len(read) = n /\ read # <<>> /\ IsFields(read)
        /\ \A i \in 1..n : read[i] = OldSessionRead(sessions[i])
    BY <1>0, OldSessionsReadAre
  <1>3. PICK X : read \in Seq(X)
    BY <1>2 DEF IsFields
  <1>4. \A t : ~ Runs(t) => ~ Runs(ItemOf("old session", t, blobs))
    BY NoOldSessionOfStopped DEF ItemOf
  <1>5. ASSUME NEW k \in 1..n, NEW t, NEW left,
               IsFields(left), IsAt(t, pieces[k] \o left), t.got = <<>>
        PROVE  Reads(ItemOf("old session", t, blobs), read[k], left, isWhole)
    <2>1. IsOldSession(sessions[k]) /\ (isWhole => AreOldAllThere(sessions[k].windows, blobs))
      BY <1>2 DEF AreOldSessions, AreAllOldThere
    <2>2. IsAt(t, EncodeSessionV1(sessions[k]) \o left)
      BY <1>1, <1>5
    <2>3. Reads(DecodeSessionV1(t, blobs), OldSessionRead(sessions[k]), left, isWhole)
      BY <1>5, <2>1, <2>2, OldSessionIsRead
    <2> QED
      BY <1>2, <2>3 DEF ItemOf
  <1>6. IsVecOf(OldSessions(s, blobs), s, "old session", blobs)
    BY OldSessionsAreItems
  <1>7. IsAt(s, (U32(n) \o FlattenSeq(pieces)) \o rest)
    BY <1>1, FreshIsAt
  <1> DEFINE vec == OldSessions(s, blobs)
  <1> HIDE DEF s, n, vec, read
  <1>8. Reads(vec, read, rest, isWhole)
    BY <1>1, <1>2, <1>3, <1>4, <1>5, <1>6, <1>7, SequenceIsRead DEF n, vec
  <1>9. Reads(SomeItem(vec), read, rest, isWhole)
    BY <1>2, <1>8, SomeItemIsRead
  <1>10. AfterOldSessions(r, blobs) = Got(r, SomeItem(vec))
    BY DEF AfterOldSessions, Then, Fresh, ReadNonEmpty, OldSessions, s, vec
  <1> QED
    BY <1>9, <1>10, ItemIsGotOrStops DEF read

LEMMA NoOldSessionsOfStopped ==
    ASSUME NEW r, ~ Runs(r), NEW blobs
    PROVE  ~ Runs(AfterOldSessions(r, blobs))
  <1> DEFINE s == Fresh(r)
  <1>1. ~ Runs(s) /\ Got(r, s) = s
    BY StoppedIsStopped
  <1> HIDE DEF s
  <1>2. SomeItem(OldSessions(s, blobs)) = s
    BY <1>1, OldSessionsAreItems, StoppedHasNoItems
  <1>3. AfterOldSessions(r, blobs) = Got(r, SomeItem(OldSessions(s, blobs)))
    BY DEF AfterOldSessions, Then, Fresh, ReadNonEmpty, OldSessions, s
  <1> QED
    BY <1>1, <1>2, <1>3
-----------------------------------------------------------------------------
(***************************************************************************)
(* Where each piece is in the whole.                                       *)
(***************************************************************************)
LEMMA FlattenIsOne ==
    ASSUME NEW n \in Nat, NEW seqs, NEW f, NEW g, Flattens(f, n, seqs), Flattens(g, n, seqs)
    PROVE  \A i \in 1..n : f[i] = g[i]
  <1> DEFINE S == {k \in Nat : k \in 1..n => f[k] = g[k]}
  <1>1. S \in SUBSET Nat /\ 0 \in S
    OBVIOUS
  <1>2. ASSUME NEW k \in S
        PROVE  k + 1 \in S
    <2> SUFFICES ASSUME k + 1 \in 1..n
                 PROVE  f[k + 1] = g[k + 1]
      OBVIOUS
    <2>1. k \in Nat /\ (k + 1) - 1 = k /\ (k + 1 # 1 => k \in 1..n)
      OBVIOUS
    <2>2. k + 1 # 1 => f[k] = g[k]
      BY <2>1
    <2> HIDE DEF S
    <2>3. f[k + 1] = IF k + 1 = 1 THEN seqs[k + 1] ELSE f[k] \o seqs[k + 1]
      BY <2>1 DEF Flattens
    <2>4. g[k + 1] = IF k + 1 = 1 THEN seqs[k + 1] ELSE g[k] \o seqs[k + 1]
      BY <2>1 DEF Flattens
    <2> QED
      BY <2>2, <2>3, <2>4
  <1> HIDE DEF S
  <1>3. S = Nat
    BY <1>1, <1>2, Induction
  <1> QED
    BY <1>3 DEF S

\* The first k pieces, joined.
JoinedTo(pieces, k) == FlattenSeq([t \in 1..k |-> pieces[t]])

LEMMA JoinedToIs ==
    ASSUME NEW n \in Nat, NEW pieces, NEW f, Flattens(f, n, pieces), NEW k \in 0..n
    PROVE  JoinedTo(pieces, k) = IF k = 0 THEN <<>> ELSE f[k]
  <1> DEFINE first == [t \in 1..k |-> pieces[t]]
             flatten[i \in 1..k] == IF i = 1 THEN first[i] ELSE flatten[i - 1] \o first[i]
             g == [i \in 1..k |-> f[i]]
  <1>1. Len(first) = k /\ DOMAIN first = 1..k
    OBVIOUS
  <1>2. k = 0 => first = <<>>
    BY <1>1
  <1>3. JoinedTo(pieces, k) = IF k = 0 THEN first ELSE flatten[k]
    BY <1>1 DEF JoinedTo, FlattenSeq
  <1>4. flatten = [i \in 1..k |-> IF i = 1 THEN first[i] ELSE flatten[i - 1] \o first[i]]
    <2>1. \E h : Flattens(h, k, first)
      BY FlattenIsDefined
    <2> QED
      BY <2>1 DEF Flattens
  <1>5. Flattens(flatten, k, first)
    BY <1>4 DEF Flattens
  <1> HIDE DEF flatten
  <1>6. \A i \in 1..k : i \in 1..n /\ (i # 1 => i - 1 \in 1..k)
    OBVIOUS
  <1>7. \A i \in 1..k : first[i] = pieces[i]
    OBVIOUS
  <1>8. \A i \in 1..n : f[i] = IF i = 1 THEN pieces[i] ELSE f[i - 1] \o pieces[i]
    BY DEF Flattens
  <1>9. \A i \in 1..k : g[i] = IF i = 1 THEN first[i] ELSE g[i - 1] \o first[i]
    BY <1>6, <1>7, <1>8
  <1>10. g = [i \in 1..k |-> IF i = 1 THEN first[i] ELSE g[i - 1] \o first[i]]
    BY <1>9
  <1>11. k # 0 => g[k] = f[k] /\ k \in 1..k
    OBVIOUS
  <1> HIDE DEF g, first
  <1>12. Flattens(g, k, first)
    BY <1>10 DEF Flattens
  <1>13. \A i \in 1..k : flatten[i] = g[i]
    BY <1>5, <1>12, FlattenIsOne
  <1> QED
    BY <1>2, <1>3, <1>11, <1>13

LEMMA JoinedToNext ==
    ASSUME NEW n \in Nat, NEW pieces, ArePieces(pieces, n)
    PROVE  /\ JoinedTo(pieces, 0) = <<>> /\ \A k \in 0..n : IsFields(JoinedTo(pieces, k))
           /\ \A k \in 1..n : JoinedTo(pieces, k) = JoinedTo(pieces, k - 1) \o pieces[k]
  <1>1. PICK f : Flattens(f, n, pieces)
    BY FlattenIsDefined
  <1>2. \A k \in 0..n : JoinedTo(pieces, k) = IF k = 0 THEN <<>> ELSE f[k]
    BY <1>1, JoinedToIs
  <1>3. JoinedTo(pieces, 0) = <<>>
    BY <1>2
  <1>4. ASSUME NEW k \in 1..n
        PROVE  JoinedTo(pieces, k) = JoinedTo(pieces, k - 1) \o pieces[k]
    <2>1. f[k] = IF k = 1 THEN pieces[k] ELSE f[k - 1] \o pieces[k]
      BY <1>1 DEF Flattens
    <2>2. IsFields(pieces[k]) /\ <<>> \o pieces[k] = pieces[k]
      BY JoinedWithNone DEF ArePieces
    <2>3. k \in 0..n /\ k # 0 /\ k - 1 \in 0..n /\ (k = 1 <=> k - 1 = 0)
      OBVIOUS
    <2> QED
      BY <1>2, <2>1, <2>2, <2>3
  <1>5. IsFields(<<>>)
    <2>1. <<>> \in Seq({})
      OBVIOUS
    <2> QED
      BY <2>1 DEF IsFields
  <1> DEFINE S == {k \in Nat : k \in 0..n => IsFields(JoinedTo(pieces, k))}
  <1>7. S \in SUBSET Nat /\ 0 \in S
    BY <1>3, <1>5
  <1>8. ASSUME NEW k \in S
        PROVE  k + 1 \in S
    <2> SUFFICES ASSUME k + 1 \in 0..n
                 PROVE  IsFields(JoinedTo(pieces, k + 1))
      OBVIOUS
    <2>1. k \in Nat /\ k \in 0..n /\ k + 1 \in 1..n /\ (k + 1) - 1 = k
      OBVIOUS
    <2>2. JoinedTo(pieces, k + 1) = JoinedTo(pieces, k) \o pieces[k + 1]
      BY <1>4, <2>1
    <2>3. IsFields(JoinedTo(pieces, k)) /\ IsFields(pieces[k + 1])
      BY <2>1 DEF ArePieces
    <2> HIDE DEF S
    <2>4. IsFields(JoinedTo(pieces, k) \o pieces[k + 1])
      BY <2>3, JoinedFields
    <2> QED
      BY <2>2, <2>4
  <1> HIDE DEF S
  <1>9. S = Nat
    BY <1>7, <1>8, Induction
  <1>10. \A k \in 0..n : IsFields(JoinedTo(pieces, k))
    BY <1>9 DEF S
  <1> QED
    BY <1>3, <1>4, <1>10

\* How many there are in the first k pieces, which pieces as long have too.
LEMMA AsManyJoined ==
    ASSUME NEW n \in Nat, NEW p, ArePieces(p, n), NEW q, ArePieces(q, n),
           \A k \in 1..n : Len(p[k]) = Len(q[k])
    PROVE  \A k \in 0..n : Len(JoinedTo(p, k)) = Len(JoinedTo(q, k))
  <1> DEFINE S == {k \in Nat : k \in 0..n => Len(JoinedTo(p, k)) = Len(JoinedTo(q, k))}
  <1>1. S \in SUBSET Nat /\ 0 \in S
    BY JoinedToNext
  <1>2. ASSUME NEW k \in S
        PROVE  k + 1 \in S
    <2> SUFFICES ASSUME k + 1 \in 0..n
                 PROVE  Len(JoinedTo(p, k + 1)) = Len(JoinedTo(q, k + 1))
      OBVIOUS
    <2>1. k \in Nat /\ k \in 0..n /\ k + 1 \in 1..n /\ (k + 1) - 1 = k
      OBVIOUS
    <2>2. Len(JoinedTo(p, k)) = Len(JoinedTo(q, k)) /\ Len(p[k + 1]) = Len(q[k + 1])
      BY <2>1
    <2> HIDE DEF S
    <2>3. /\ JoinedTo(p, k + 1) = JoinedTo(p, k) \o p[k + 1] /\ IsFields(JoinedTo(p, k)) /\ IsFields(p[k + 1])
          /\ JoinedTo(q, k + 1) = JoinedTo(q, k) \o q[k + 1] /\ IsFields(JoinedTo(q, k)) /\ IsFields(q[k + 1])
      BY <2>1, JoinedToNext DEF ArePieces
    <2>4. Len(JoinedTo(p, k + 1)) = Len(JoinedTo(p, k)) + Len(p[k + 1])
      BY <2>3, JoinedFields, FieldsAreSeq
    <2>5. Len(JoinedTo(q, k + 1)) = Len(JoinedTo(q, k)) + Len(q[k + 1])
      BY <2>3, JoinedFields, FieldsAreSeq
    <2> QED
      BY <2>2, <2>4, <2>5
  <1> HIDE DEF S
  <1>3. S = Nat
    BY <1>1, <1>2, Induction
  <1> QED
    BY <1>3 DEF S

\* The i-th of the s-th piece is behind all of those before it.
Behind(pieces, s, i) == Len(JoinedTo(pieces, s - 1)) + i

ArePlaced(pieces, k) ==
    /\ \A s \in 1..k : \A i \in 1 .. Len(pieces[s]) :
          /\ Behind(pieces, s, i) \in 1 .. Len(JoinedTo(pieces, k))
          /\ JoinedTo(pieces, k)[Behind(pieces, s, i)] = pieces[s][i]
    /\ \A j \in 1 .. Len(JoinedTo(pieces, k)) :
          \E s \in 1..k : \E i \in 1 .. Len(pieces[s]) : j = Behind(pieces, s, i)

LEMMA PlacesAreFound ==
    ASSUME NEW n \in Nat, NEW pieces, ArePieces(pieces, n)
    PROVE  \A k \in 0..n : ArePlaced(pieces, k)
  <1> DEFINE S == {k \in Nat : k \in 0..n => ArePlaced(pieces, k)}
  <1>1. S \in SUBSET Nat /\ 0 \in S
    <2>0. JoinedTo(pieces, 0) = <<>> /\ Len(<<>>) = 0
      BY JoinedToNext
    <2>1. Len(JoinedTo(pieces, 0)) = 0
      BY <2>0
    <2>2. ArePlaced(pieces, 0)
      BY <2>1 DEF ArePlaced
    <2> QED
      BY <2>2
  <1>2. ASSUME NEW k \in S
        PROVE  k + 1 \in S
    <2> SUFFICES ASSUME k + 1 \in 0..n
                 PROVE  ArePlaced(pieces, k + 1)
      OBVIOUS
    <2>1. k \in Nat /\ k \in 0..n /\ k + 1 \in 1..n /\ (k + 1) - 1 = k
      OBVIOUS
    <2>2. ArePlaced(pieces, k)
      BY <2>1
    <2> HIDE DEF S
    <2> DEFINE before == JoinedTo(pieces, k)
               piece == pieces[k + 1]
               whole == JoinedTo(pieces, k + 1)
    <2>3. whole = before \o piece /\ IsFields(before) /\ IsFields(piece)
      BY <2>1, JoinedToNext DEF ArePieces
    <2>4. /\ Len(before) \in Nat /\ Len(piece) \in Nat
          /\ Len(whole) = Len(before) + Len(piece)
          /\ \A i \in 1 .. Len(before) : whole[i] = before[i]
          /\ \A i \in 1 .. Len(piece) : whole[Len(before) + i] = piece[i]
      BY <2>3, JoinedFields, FieldsAreSeq
    <2>5. \A i : Behind(pieces, k + 1, i) = Len(before) + i
      BY <2>1 DEF Behind
    <2>6. ASSUME NEW s \in 1 .. k + 1, NEW i \in 1 .. Len(pieces[s])
          PROVE  /\ Behind(pieces, s, i) \in 1 .. Len(whole)
                 /\ whole[Behind(pieces, s, i)] = pieces[s][i]
      <3>1. CASE s = k + 1
        BY <2>4, <2>5, <3>1
      <3>2. CASE s # k + 1
        <4>1. s \in 1..k
          BY <2>1, <3>2
        <4>2. /\ Behind(pieces, s, i) \in 1 .. Len(before)
              /\ before[Behind(pieces, s, i)] = pieces[s][i]
          BY <2>2, <4>1 DEF ArePlaced
        <4> HIDE DEF before, whole, piece
        <4> QED
          BY <2>4, <4>2
      <3> QED
        BY <3>1, <3>2
    <2>7. ASSUME NEW j \in 1 .. Len(whole)
          PROVE  \E s \in 1 .. k + 1 : \E i \in 1 .. Len(pieces[s]) : j = Behind(pieces, s, i)
      <3>1. CASE j <= Len(before)
        <4>1. j \in 1 .. Len(before)
          BY <2>4, <3>1
        <4>2. PICK s \in 1..k : \E i \in 1 .. Len(pieces[s]) : j = Behind(pieces, s, i)
          BY <2>2, <4>1 DEF ArePlaced
        <4>3. s \in 1 .. k + 1
          BY <2>1
        <4> QED
          BY <4>2, <4>3
      <3>2. CASE ~ j <= Len(before)
        <4> DEFINE i == j - Len(before)
        <4>1. i \in 1 .. Len(piece) /\ j = Len(before) + i
          <5> HIDE DEF before, piece, whole
          <5> QED
            BY <2>4, <3>2
        <4>2. j = Behind(pieces, k + 1, i)
          BY <2>5, <4>1
        <4>3. k + 1 \in 1 .. k + 1
          BY <2>1
        <4> HIDE DEF i
        <4> QED
          BY <4>1, <4>2, <4>3
      <3> QED
        BY <3>1, <3>2
    <2> QED
      BY <2>6, <2>7 DEF ArePlaced
  <1> HIDE DEF S
  <1>3. S = Nat
    BY <1>1, <1>2, Induction
  <1> QED
    BY <1>3 DEF S
-----------------------------------------------------------------------------
(***************************************************************************)
(* The graph of a tree.                                                    *)
(***************************************************************************)
IsTreeOfRead(tree) ==
    /\ \E name, links, active, group, last :
          tree = [name |-> name, links |-> links, active |-> active, group |-> group,
                  last |-> last]
    /\ IsFields(tree.links) /\ tree.links # <<>>

IsForest(trees) == IsFields(trees) /\ \A s \in DOMAIN trees : IsTreeOfRead(trees[s])

HeldBy(trees, s) ==
    [i \in DOMAIN trees[s].links |-> WindowV1(trees[s].links[i], WithIds(trees, s, i))]
LinksOf(trees, s) ==
    [i \in DOMAIN trees[s].links |-> [index |-> trees[s].links[i].index,
                                      window |-> WithIds(trees, s, i)]]

AllHeld(trees) == [s \in DOMAIN trees |-> HeldBy(trees, s)]
AllLinks(trees) == [s \in DOMAIN trees |-> trees[s].links]

LEMMA ForestIs ==
    ASSUME NEW trees, IsForest(trees)
    PROVE  /\ Len(trees) \in Nat /\ DOMAIN trees = 1 .. Len(trees)
           /\ ArePieces(AllHeld(trees), Len(trees)) /\ ArePieces(AllLinks(trees), Len(trees))
           /\ \A s \in 1 .. Len(trees) :
                 /\ AllLinks(trees)[s] = trees[s].links
                 /\ AllHeld(trees)[s] = HeldBy(trees, s)
                 /\ Len(trees[s].links) \in Nat /\ Len(trees[s].links) > 0
                 /\ Len(HeldBy(trees, s)) = Len(trees[s].links)
                 /\ \A i \in 1 .. Len(trees[s].links) :
                       HeldBy(trees, s)[i] = WindowV1(trees[s].links[i], WithIds(trees, s, i))
  <1> DEFINE n == Len(trees)
  <1>1. n \in Nat /\ DOMAIN trees = 1..n
    BY FieldsAreSeq DEF IsForest
  <1>2. ASSUME NEW s \in 1..n
        PROVE  /\ AllLinks(trees)[s] = trees[s].links
               /\ AllHeld(trees)[s] = HeldBy(trees, s)
               /\ Len(trees[s].links) \in Nat /\ Len(trees[s].links) > 0
               /\ Len(HeldBy(trees, s)) = Len(trees[s].links)
               /\ \A i \in 1 .. Len(trees[s].links) :
                     HeldBy(trees, s)[i] = WindowV1(trees[s].links[i], WithIds(trees, s, i))
               /\ IsFields(AllLinks(trees)[s]) /\ IsFields(AllHeld(trees)[s])
    <2>1. AllLinks(trees)[s] = trees[s].links /\ AllHeld(trees)[s] = HeldBy(trees, s)
      BY <1>1 DEF AllLinks, AllHeld
    <2> DEFINE links == trees[s].links
               held == HeldBy(trees, s)
               m == Len(links)
    <2>2. IsFields(links) /\ links # <<>>
      BY <1>1 DEF IsForest, IsTreeOfRead
    <2>3. held = [i \in DOMAIN links |-> WindowV1(links[i], WithIds(trees, s, i))]
      BY DEF HeldBy
    <2> HIDE DEF held, links
    <2>4. m \in Nat /\ DOMAIN links = 1..m
      BY <2>2, FieldsAreSeq
    <2>5. m > 0
      <3>1. PICK X : links \in Seq(X)
        BY <2>2 DEF IsFields
      <3> QED
        BY <2>2, <2>4, <3>1
    <2> HIDE DEF m
    <2>6. \A i \in 1..m : held[i] = WindowV1(links[i], WithIds(trees, s, i))
      BY <2>3, <2>4
    <2>7. held \in Seq({held[i] : i \in 1..m}) /\ Len(held) = m
      BY <2>3, <2>4
    <2>8. IsFields(held)
      BY <2>7 DEF IsFields
    <2> QED
      BY <2>1, <2>2, <2>4, <2>5, <2>6, <2>7, <2>8 DEF held, links, m
  <1>3. ArePieces(AllHeld(trees), n) /\ ArePieces(AllLinks(trees), n)
    BY <1>2 DEF ArePieces
  <1> QED
    BY <1>1, <1>2, <1>3

\* The windows of the graph are those of the trees, in order and numbered so.
LEMMA GraphWindows ==
    ASSUME NEW trees, IsForest(trees)
    PROVE  /\ IsFields(GraphV1(trees).windows)
           /\ \A s \in 1 .. Len(trees) : \A i \in 1 .. Len(trees[s].links) :
                 /\ WithIds(trees, s, i) + 1 \in 1 .. Len(GraphV1(trees).windows)
                 /\ WithIds(trees, s, i) \in Nat
                 /\ GraphV1(trees).windows[WithIds(trees, s, i) + 1]
                       = WindowV1(trees[s].links[i], WithIds(trees, s, i))
           /\ \A j \in 1 .. Len(GraphV1(trees).windows) :
                 \E s \in 1 .. Len(trees) : \E i \in 1 .. Len(trees[s].links) :
                    j = WithIds(trees, s, i) + 1
           /\ \A q : ArePieces(q, Len(trees))
                     /\ (\A s \in 1 .. Len(trees) : Len(q[s]) = Len(trees[s].links))
                        => Len(GraphV1(trees).windows) = Len(JoinedTo(q, Len(trees)))
  <1> DEFINE n == Len(trees)
             held == AllHeld(trees)
             links == AllLinks(trees)
             windows == GraphV1(trees).windows
  <1>1. /\ n \in Nat /\ DOMAIN trees = 1..n /\ ArePieces(held, n) /\ ArePieces(links, n)
        /\ \A s \in 1..n :
              /\ links[s] = trees[s].links /\ held[s] = HeldBy(trees, s)
              /\ Len(trees[s].links) \in Nat
              /\ Len(held[s]) = Len(trees[s].links)
              /\ \A i \in 1 .. Len(trees[s].links) :
                    held[s][i] = WindowV1(trees[s].links[i], WithIds(trees, s, i))
    BY ForestIs
  <1>2. windows = FlattenSeq(held)
    BY DEF GraphV1, AllHeld, HeldBy
  <1>3. held = [s \in 1..n |-> held[s]]
    BY <1>1 DEF AllHeld
  <1>4. \A s \in 1..n : \A i : WithIds(trees, s, i) = Len(JoinedTo(links, s - 1)) + i - 1
    <2> TAKE s \in 1..n
    <2> TAKE i
    <2>1. \A t \in 1 .. s - 1 : t \in DOMAIN trees
      BY <1>1
    <2>2. [t \in 1 .. s - 1 |-> trees[t].links] = [t \in 1 .. s - 1 |-> links[t]]
      BY <2>1 DEF AllLinks
    <2> HIDE DEF links
    <2> QED
      BY <2>2 DEF WithIds, JoinedTo
  <1> HIDE DEF held, links, windows, n
  <1>5. windows = JoinedTo(held, n)
    BY <1>2, <1>3 DEF JoinedTo
  <1>6. n \in 0..n
    BY <1>1
  <1>7. IsFields(JoinedTo(held, n))
    BY <1>1, <1>6, JoinedToNext
  <1>8. ArePlaced(held, n)
    BY <1>1, <1>6, PlacesAreFound
  <1>9. \A s \in 1..n : \A i \in 1 .. Len(trees[s].links) :
           /\ Behind(held, s, i) = WithIds(trees, s, i) + 1 /\ WithIds(trees, s, i) \in Nat
    <2>0. \A s \in 1..n : Len(held[s]) = Len(links[s])
      BY <1>1
    <2>1. \A k \in 0..n : Len(JoinedTo(held, k)) = Len(JoinedTo(links, k))
      BY <1>1, <2>0, AsManyJoined
    <2> TAKE s \in 1..n
    <2> TAKE i \in 1 .. Len(trees[s].links)
    <2>2. s - 1 \in 0..n
      BY <1>1
    <2>3. Len(JoinedTo(held, s - 1)) = Len(JoinedTo(links, s - 1)) /\ IsFields(JoinedTo(held, s - 1))
      BY <1>1, <2>1, <2>2, JoinedToNext
    <2>4. Len(JoinedTo(held, s - 1)) \in Nat
      BY <2>3, FieldsAreSeq
    <2>5. i \in Nat /\ i > 0
      BY <1>1
    <2>6. Behind(held, s, i) = Len(JoinedTo(held, s - 1)) + i
      BY DEF Behind
    <2>7. WithIds(trees, s, i) = Len(JoinedTo(links, s - 1)) + i - 1
      BY <1>4
    <2> QED
      BY <2>3, <2>4, <2>5, <2>6, <2>7
  <1>10. IsFields(windows)
    BY <1>5, <1>7
  <1>11. ASSUME NEW s \in 1..n, NEW i \in 1 .. Len(trees[s].links)
         PROVE  /\ WithIds(trees, s, i) + 1 \in 1 .. Len(windows)
                /\ WithIds(trees, s, i) \in Nat
                /\ windows[WithIds(trees, s, i) + 1]
                      = WindowV1(trees[s].links[i], WithIds(trees, s, i))
    <2>1. i \in 1 .. Len(held[s])
      BY <1>1
    <2>2. /\ Behind(held, s, i) \in 1 .. Len(JoinedTo(held, n))
          /\ JoinedTo(held, n)[Behind(held, s, i)] = held[s][i]
      BY <1>8, <2>1 DEF ArePlaced
    <2> QED
      BY <1>1, <1>5, <1>9, <2>2
  <1>12. ASSUME NEW j \in 1 .. Len(windows)
         PROVE  \E s \in 1..n : \E i \in 1 .. Len(trees[s].links) : j = WithIds(trees, s, i) + 1
    <2>1. PICK s \in 1..n : \E i \in 1 .. Len(held[s]) : j = Behind(held, s, i)
      BY <1>5, <1>8 DEF ArePlaced
    <2>2. PICK i \in 1 .. Len(held[s]) : j = Behind(held, s, i)
      BY <2>1
    <2>3. i \in 1 .. Len(trees[s].links)
      BY <1>1
    <2> QED
      BY <1>9, <2>2, <2>3
  <1>13. ASSUME NEW q, ArePieces(q, n), \A s \in 1..n : Len(q[s]) = Len(trees[s].links)
         PROVE  Len(windows) = Len(JoinedTo(q, n))
    <2>1. \A s \in 1..n : Len(held[s]) = Len(q[s])
      BY <1>1, <1>13
    <2>2. \A k \in 0..n : Len(JoinedTo(held, k)) = Len(JoinedTo(q, k))
      BY <1>1, <1>13, <2>1, AsManyJoined
    <2> QED
      BY <1>5, <1>6, <2>2
  <1> QED
    BY <1>10, <1>11, <1>12, <1>13 DEF windows, n

LEMMA GraphSessions ==
    ASSUME NEW trees, IsForest(trees)
    PROVE  /\ Len(GraphV1(trees).sessions) = Len(trees)
           /\ DOMAIN GraphV1(trees).sessions = 1 .. Len(trees)
           /\ \A s \in 1 .. Len(trees) :
                 /\ GraphV1(trees).sessions[s].name = trees[s].name
                 /\ GraphV1(trees).sessions[s].active = trees[s].active
                 /\ GraphV1(trees).sessions[s].links = LinksOf(trees, s)
                 /\ Len(LinksOf(trees, s)) = Len(trees[s].links)
                 /\ DOMAIN LinksOf(trees, s) = 1 .. Len(trees[s].links)
                 /\ \A i \in 1 .. Len(trees[s].links) :
                       LinksOf(trees, s)[i] = [index |-> trees[s].links[i].index,
                                               window |-> WithIds(trees, s, i)]
           /\ GraphV1(trees).clients = <<>>
  <1> DEFINE n == Len(trees)
             Changed(s) == [trees[s] EXCEPT !.links =
                              [i \in DOMAIN @ |-> [index |-> @[i].index,
                                                   window |-> WithIds(trees, s, i)]]]
             sessions == GraphV1(trees).sessions
  <1>1. n \in Nat /\ DOMAIN trees = 1..n
    BY ForestIs
  <1>2. sessions = [s \in DOMAIN trees |-> Changed(s)] /\ GraphV1(trees).clients = <<>>
    BY DEF GraphV1
  <1>3. ASSUME NEW s \in 1..n
        PROVE  /\ Changed(s).name = trees[s].name /\ Changed(s).active = trees[s].active
               /\ Changed(s).links = LinksOf(trees, s)
    <2>1. PICK name, links, active, group, last :
             trees[s] = [name |-> name, links |-> links, active |-> active, group |-> group,
                         last |-> last]
      BY <1>1 DEF IsForest, IsTreeOfRead
    <2>2. LinksOf(trees, s) = [i \in DOMAIN links |-> [index |-> links[i].index,
                                                       window |-> WithIds(trees, s, i)]]
      BY <2>1 DEF LinksOf
    <2>3. Changed(s) = [name |-> name, links |-> LinksOf(trees, s), active |-> active,
                        group |-> group, last |-> last]
      BY <2>1, <2>2
    <2> QED
      BY <2>1, <2>3
  <1>4. ASSUME NEW s \in 1..n
        PROVE  /\ Len(LinksOf(trees, s)) = Len(trees[s].links)
               /\ DOMAIN LinksOf(trees, s) = 1 .. Len(trees[s].links)
               /\ \A i \in 1 .. Len(trees[s].links) :
                     LinksOf(trees, s)[i] = [index |-> trees[s].links[i].index,
                                             window |-> WithIds(trees, s, i)]
    <2>1. IsFields(trees[s].links)
      BY <1>1 DEF IsForest, IsTreeOfRead
    <2>2. /\ Len(trees[s].links) \in Nat
          /\ DOMAIN trees[s].links = 1 .. Len(trees[s].links)
      BY <2>1, FieldsAreSeq
    <2> QED
      BY <2>2 DEF LinksOf
  <1> HIDE DEF Changed
  <1>5. Len(sessions) = n /\ DOMAIN sessions = 1..n /\ \A s \in 1..n : sessions[s] = Changed(s)
    BY <1>1, <1>2
  <1> QED
    BY <1>2, <1>3, <1>4, <1>5 DEF sessions, n

LEMMA GraphIsSnapshot ==
    ASSUME NEW trees, IsForest(trees), trees # <<>>, ~ HasDuplicate(Names(trees))
    PROVE  IsGraph(GraphV1(trees))
  <1> DEFINE n == Len(trees)
             g == GraphV1(trees)
             windows == g.windows
             sessions == g.sessions
             Id(s, i) == WithIds(trees, s, i)
             Held(s) == 1 .. Len(trees[s].links)
  <1>1. n \in Nat /\ DOMAIN trees = 1..n /\ n > 0
    <2>1. IsFields(trees)
      BY DEF IsForest
    <2>2. PICK X : trees \in Seq(X)
      BY <2>1 DEF IsFields
    <2> QED
      BY <2>2
  <1>2. /\ IsFields(windows)
        /\ \A s \in 1..n : \A i \in Held(s) :
              /\ Id(s, i) + 1 \in 1 .. Len(windows) /\ Id(s, i) \in Nat
              /\ windows[Id(s, i) + 1] = WindowV1(trees[s].links[i], Id(s, i))
        /\ \A j \in 1 .. Len(windows) : \E s \in 1..n : \E i \in Held(s) : j = Id(s, i) + 1
    BY GraphWindows
  <1>3. /\ DOMAIN sessions = 1..n /\ g.clients = <<>> /\ Len(sessions) = n
        /\ \A s \in 1..n :
              /\ sessions[s].name = trees[s].name /\ sessions[s].links = LinksOf(trees, s)
              /\ DOMAIN LinksOf(trees, s) = Held(s)
              /\ \A i \in Held(s) : LinksOf(trees, s)[i].window = Id(s, i)
    <2>2. \A s \in 1..n : \A i \in Held(s) :
             LinksOf(trees, s)[i] = [index |-> trees[s].links[i].index, window |-> Id(s, i)]
      BY GraphSessions
    <2>3. \A s \in 1..n : \A i \in Held(s) : LinksOf(trees, s)[i].window = Id(s, i)
      <3> TAKE s \in 1..n
      <3> TAKE i \in Held(s)
      <3> DEFINE link == LinksOf(trees, s)[i]
                 index == trees[s].links[i].index
                 window == Id(s, i)
      <3>1. link = [index |-> index, window |-> window]
        BY <2>2
      <3> HIDE DEF link, index, window
      <3>2. link.window = window
        BY <3>1
      <3> QED
        BY <3>2 DEF link, window
    <2> QED
      BY <2>3, GraphSessions
  <1>4. 1 \in 1..n /\ 1 \in Held(1)
    BY <1>1, ForestIs
  <1> HIDE DEF g, windows, sessions, Held, Id, n
  <1>5. Len(windows) \in Nat /\ DOMAIN windows = 1 .. Len(windows)
    BY <1>2, FieldsAreSeq
  <1>6. windows # <<>> /\ sessions # <<>>
    <2>1. Id(1, 1) + 1 \in DOMAIN windows /\ 1 \in DOMAIN sessions
      BY <1>2, <1>3, <1>4, <1>5
    <2>2. DOMAIN <<>> = {}
      OBVIOUS
    <2> QED
      BY <2>1, <2>2
  <1>7. \A j \in 1 .. Len(windows) : windows[j].id = j - 1
    <2> TAKE j \in 1 .. Len(windows)
    <2>1. PICK s \in 1..n : \E i \in Held(s) : j = Id(s, i) + 1
      BY <1>2
    <2>2. PICK i \in Held(s) : j = Id(s, i) + 1
      BY <2>1
    <2>3. windows[j] = WindowV1(trees[s].links[i], Id(s, i)) /\ Id(s, i) \in Nat
      BY <1>2, <2>2
    <2>4. \A w, id : WindowV1(w, id).id = id
      BY DEF WindowV1
    <2> QED
      BY <2>2, <2>3, <2>4
  <1>8. ToSet(Ids(windows)) = {j - 1 : j \in 1 .. Len(windows)}
    BY <1>5, <1>7 DEF ToSet, Ids
  <1>9. ~ HasDuplicate(Ids(windows))
    BY <1>5, <1>7 DEF HasDuplicate, Ids
  <1>10. Names(sessions) = Names(trees)
    BY <1>1, <1>3 DEF Names
  <1>11. Linked(sessions) = {j - 1 : j \in 1 .. Len(windows)}
    <2>1. ASSUME NEW x \in Linked(sessions)
          PROVE  x \in {j - 1 : j \in 1 .. Len(windows)}
      <3>1. PICK s \in 1..n : \E link \in ToSet(sessions[s].links) : x = link.window
        BY <1>3 DEF Linked, ToSet
      <3>2. PICK i \in Held(s) : x = LinksOf(trees, s)[i].window
        BY <1>3, <3>1 DEF ToSet
      <3>3. x = Id(s, i)
        BY <1>3, <3>2
      <3>4. x + 1 \in 1 .. Len(windows) /\ x \in Nat
        BY <1>2, <3>3
      <3>5. x = (x + 1) - 1
        BY <3>4
      <3> QED
        BY <3>4, <3>5
    <2>2. ASSUME NEW j \in 1 .. Len(windows)
          PROVE  j - 1 \in Linked(sessions)
      <3>1. PICK s \in 1..n : \E i \in Held(s) : j = Id(s, i) + 1
        BY <1>2
      <3>2. PICK i \in Held(s) : j = Id(s, i) + 1
        BY <3>1
      <3>3. j - 1 = Id(s, i)
        BY <1>2, <3>2
      <3>4. /\ sessions[s] \in ToSet(sessions)
            /\ LinksOf(trees, s)[i] \in ToSet(sessions[s].links)
            /\ LinksOf(trees, s)[i].window = j - 1
        BY <1>3, <3>3 DEF ToSet
      <3> QED
        BY <3>4 DEF Linked
    <2> QED
      BY <2>1, <2>2
  <1>12. ToSet(g.clients) = {}
    BY <1>3 DEF ToSet
  <1>13. IsSnapshot(windows, sessions, g.clients)
    BY <1>6, <1>8, <1>9, <1>10, <1>11, <1>12 DEF IsSnapshot
  <1> QED
    BY <1>13 DEF IsGraph, g, windows, sessions

LEMMA OldTreeIsForest ==
    ASSUME NEW sessions, AreOldSessions(sessions)
    PROVE  IsForest(OldSessionsRead(sessions)) /\ Names(OldSessionsRead(sessions)) = Names(sessions)
  <1> DEFINE trees == OldSessionsRead(sessions)
             n == Len(sessions)
  <1>1. IsFields(sessions) /\ \A s \in DOMAIN sessions : IsOldSession(sessions[s])
    BY DEF AreOldSessions
  <1>2. /\ IsFields(trees) /\ DOMAIN trees = 1..n /\ DOMAIN sessions = 1..n
        /\ \A s \in 1..n : trees[s] = OldSessionRead(sessions[s])
    BY <1>1, OldSessionsReadAre
  <1>3. ASSUME NEW s \in 1..n
        PROVE  IsTreeOfRead(trees[s]) /\ trees[s].name = sessions[s].name
    <2> DEFINE old == sessions[s]
    <2>1. AreOldWindows(old.windows) /\ old.windows # <<>>
      BY <1>1, <1>2, OldSessionIs
    <2>2. IsFields(OldWindowsRead(old.windows)) /\ OldWindowsRead(old.windows) # <<>>
      BY <2>1, OldWindowsReadAre DEF AreOldWindows
    <2>3. trees[s] = OldSessionRead(old)
      BY <1>2
    <2> HIDE DEF old
    <2>4. OldSessionRead(old).links = OldWindowsRead(old.windows) /\ OldSessionRead(old).name = old.name
      BY DEF OldSessionRead
    <2>5. \E name, links, active, group, last :
             OldSessionRead(old) = [name |-> name, links |-> links, active |-> active,
                                    group |-> group, last |-> last]
      BY DEF OldSessionRead
    <2>6. IsTreeOfRead(OldSessionRead(old))
      BY <2>2, <2>4, <2>5 DEF IsTreeOfRead
    <2> QED
      BY <2>3, <2>4, <2>6 DEF old
  <1> HIDE DEF trees, n
  <1>4. Names(trees) = Names(sessions)
    BY <1>2, <1>3 DEF Names
  <1> QED
    BY <1>2, <1>3, <1>4 DEF IsForest, trees

\* The graph of a tree that was read is that of the tree.
LEMMA GraphIsOfTree ==
    ASSUME NEW tree, IsTree(tree), NEW s,
           s.windows = GraphV1(OldSessionsRead(tree.sessions)).windows,
           s.sessions = GraphV1(OldSessionsRead(tree.sessions)).sessions
    PROVE  IsTreeOf(tree, s)
  <1> DEFINE old == tree.sessions
             trees == OldSessionsRead(old)
             n == Len(old)
             Id(t, i) == WithIds(trees, t, i)
             held == [i \in DOMAIN old |-> old[i].windows]
  <1>1. AreOldSessions(old)
    BY DEF IsTree, AreOldSessions, IsFields, ToSet
  <1>2. IsForest(trees)
    BY <1>1, OldTreeIsForest
  <1>3. /\ n \in Nat /\ DOMAIN trees = 1..n /\ DOMAIN old = 1..n /\ Len(trees) = n
        /\ \A t \in 1..n : trees[t] = OldSessionRead(old[t])
    BY <1>1, OldSessionsReadAre DEF AreOldSessions
  <1>4. ASSUME NEW t \in 1..n
        PROVE  /\ trees[t].name = old[t].name /\ trees[t].active = old[t].active
               /\ trees[t].links = OldWindowsRead(old[t].windows)
               /\ IsFields(old[t].windows)
               /\ Len(trees[t].links) = Len(old[t].windows)
               /\ \A i \in 1 .. Len(old[t].windows) :
                     /\ IsOldWindow(old[t].windows[i])
                     /\ trees[t].links[i] = OldWindowRead(old[t].windows[i])
    <2> DEFINE session == old[t]
    <2>1. AreOldWindows(session.windows)
      BY <1>1, <1>3, OldSessionIs DEF AreOldSessions
    <2>2. trees[t] = OldSessionRead(session)
      BY <1>3
    <2> HIDE DEF session
    <2>3. /\ OldSessionRead(session).name = session.name
          /\ OldSessionRead(session).active = session.active
          /\ OldSessionRead(session).links = OldWindowsRead(session.windows)
      BY DEF OldSessionRead
    <2> DEFINE windows == session.windows
    <2>4. IsFields(windows) /\ \A i \in DOMAIN windows : IsOldWindow(windows[i])
      BY <2>1 DEF AreOldWindows
    <2> HIDE DEF windows
    <2>5. /\ Len(OldWindowsRead(windows)) = Len(windows) /\ DOMAIN windows = 1 .. Len(windows)
          /\ \A i \in 1 .. Len(windows) : OldWindowsRead(windows)[i] = OldWindowRead(windows[i])
      BY <2>4, OldWindowsReadAre
    <2> QED
      BY <2>2, <2>3, <2>4, <2>5 DEF session, windows
  <1>5. /\ \A t \in 1..n : \A i \in 1 .. Len(trees[t].links) :
              /\ Id(t, i) + 1 \in 1 .. Len(s.windows)
              /\ s.windows[Id(t, i) + 1] = WindowV1(trees[t].links[i], Id(t, i))
        /\ \A q : ArePieces(q, n) /\ (\A t \in 1..n : Len(q[t]) = Len(trees[t].links))
                      => Len(s.windows) = Len(JoinedTo(q, n))
        /\ IsFields(s.windows)
    <2>1. s.windows = GraphV1(trees).windows
      OBVIOUS
    <2> HIDE DEF trees
    <2> QED
      BY <1>2, <1>3, <2>1, GraphWindows
  <1>6. /\ Len(s.sessions) = n /\ DOMAIN s.sessions = 1..n
        /\ \A t \in 1..n :
              /\ s.sessions[t].name = trees[t].name /\ s.sessions[t].active = trees[t].active
              /\ s.sessions[t].links = LinksOf(trees, t)
              /\ Len(LinksOf(trees, t)) = Len(trees[t].links)
              /\ DOMAIN LinksOf(trees, t) = 1 .. Len(trees[t].links)
              /\ \A i \in 1 .. Len(trees[t].links) :
                    LinksOf(trees, t)[i] = [index |-> trees[t].links[i].index,
                                            window |-> Id(t, i)]
    BY <1>2, <1>3, GraphSessions
  <1>7. Len(s.windows) = Len(FlattenSeq(held))
    <2>1. \A t \in 1..n : held[t] = old[t].windows
      BY <1>3
    <2>2. held = [t \in 1..n |-> held[t]]
      BY <1>3
    <2> HIDE DEF held
    <2>3. ArePieces(held, n) /\ \A t \in 1..n : Len(held[t]) = Len(trees[t].links)
      BY <1>4, <2>1 DEF ArePieces
    <2>4. Len(s.windows) = Len(JoinedTo(held, n))
      BY <1>5, <2>3
    <2>5. FlattenSeq(held) = JoinedTo(held, n)
      BY <2>2 DEF JoinedTo
    <2> QED
      BY <2>4, <2>5
  <1> HIDE DEF held, Id, trees, n, old
  <1>8. ASSUME NEW t \in 1..n, NEW j \in 1 .. Len(old[t].windows)
        PROVE  \E w \in ToSet(s.windows) :
                  /\ s.sessions[t].links[j] = [index |-> old[t].windows[j].index,
                                               window |-> w.id]
                  /\ <<w.name, w.layout, w.active>> =
                        <<old[t].windows[j].name, old[t].windows[j].layout,
                          old[t].windows[j].active>>
                  /\ Ids(w.panes) = Ids(old[t].windows[j].panes)
    <2> DEFINE was == old[t].windows[j]
               w == s.windows[Id(t, j) + 1]
    <2>1. j \in 1 .. Len(trees[t].links) /\ IsOldWindow(was) /\ trees[t].links[j] = OldWindowRead(was)
      BY <1>4
    <2>2. /\ Id(t, j) + 1 \in 1 .. Len(s.windows) /\ w = WindowV1(OldWindowRead(was), Id(t, j))
      BY <1>5, <2>1
    <2>3. w \in ToSet(s.windows)
      <3>1. DOMAIN s.windows = 1 .. Len(s.windows)
        BY <1>5, FieldsAreSeq
      <3> QED
        BY <2>2, <3>1 DEF ToSet
    <2>4. s.sessions[t].links[j] = [index |-> OldWindowRead(was).index, window |-> Id(t, j)]
      BY <1>6, <2>1
    <2> HIDE DEF was, w
    <2>5. /\ w.id = Id(t, j) /\ w.name = was.name /\ w.layout = was.layout
          /\ w.active = was.active /\ w.panes = OldPanesRead(was.panes)
          /\ OldWindowRead(was).index = was.index
      BY <2>2 DEF WindowV1, OldWindowRead
    <2>6. Ids(w.panes) = Ids(was.panes)
      BY <2>1, <2>5, OldWindowIs
    <2> QED
      BY <2>3, <2>4, <2>5, <2>6 DEF was
  <1>9. ASSUME NEW t \in 1..n
        PROVE  /\ s.sessions[t].name = old[t].name /\ s.sessions[t].active = old[t].active
               /\ Len(s.sessions[t].links) = Len(old[t].windows)
               /\ DOMAIN s.sessions[t].links = 1 .. Len(old[t].windows)
    BY <1>4, <1>6
  <1>10. /\ Len(s.sessions) = Len(old) /\ DOMAIN s.sessions = 1..n
         /\ Len(s.windows) = Len(FlattenSeq([i \in DOMAIN old |-> old[i].windows]))
    BY <1>6, <1>7 DEF n, held
  <1>11. ASSUME NEW t \in DOMAIN s.sessions
         PROVE  LET session == s.sessions[t]
                    was == tree.sessions[t]
                IN  /\ <<session.name, session.active>> = <<was.name, was.active>>
                    /\ Len(session.links) = Len(was.windows)
                    /\ \A j \in DOMAIN session.links :
                          \E w \in ToSet(s.windows) :
                             /\ session.links[j] = [index |-> was.windows[j].index,
                                                    window |-> w.id]
                             /\ <<w.name, w.layout, w.active>> =
                                   <<was.windows[j].name, was.windows[j].layout,
                                     was.windows[j].active>>
                             /\ Ids(w.panes) = Ids(was.windows[j].panes)
    <2>1. t \in 1..n
      BY <1>10
    <2>2. <<s.sessions[t].name, s.sessions[t].active>> = <<old[t].name, old[t].active>>
      BY <1>9, <2>1
    <2> QED
      BY <1>8, <1>9, <2>1, <2>2 DEF old
  <1>12. /\ Len(s.sessions) = Len(tree.sessions)
         /\ Len(s.windows) = Len(FlattenSeq([i \in DOMAIN tree.sessions |->
                                                tree.sessions[i].windows]))
    BY <1>10 DEF old
  <1> QED
    BY <1>11, <1>12, Zenon DEF IsTreeOf
-----------------------------------------------------------------------------
(***************************************************************************)
(* The body of a file of the format before, and the file.                  *)
(***************************************************************************)
OldBody(tree) ==
    (U32(tree.tmux_version) \o I64(tree.captured_at))
    \o WriteVec(tree.sessions, EncodeSessionV1)

\* What it is read as.
OldRead(tree, captured_at) ==
    Extended(GraphV1(OldSessionsRead(tree.sessions)),
             [origin |-> None, touched |-> None,
              captured_at |-> captured_at, tmux_version |-> tree.tmux_version])

LEMMA TreeIsOfSessions ==
    ASSUME NEW tree, IsTree(tree)
    PROVE  /\ AreOldSessions(tree.sessions) /\ tree.sessions # <<>>
           /\ ~ HasDuplicate(Names(tree.sessions))
  BY DEF IsTree, AreOldSessions, IsFields, ToSet

\* The texts beside the file are those that its panes hold.
LEMMA OldTextsAreThere ==
    ASSUME NEW tree, IsTree(tree), NEW blobs,
           \A text \in TextsOfTree(tree) : IsWhole(text, blobs)
    PROVE  AreAllOldThere(tree.sessions, blobs)
  <1> SUFFICES ASSUME NEW i \in DOMAIN tree.sessions,
                      NEW j \in DOMAIN tree.sessions[i].windows,
                      NEW k \in DOMAIN tree.sessions[i].windows[j].panes,
                      tree.sessions[i].windows[j].panes[k].content # None
               PROVE  LET content == tree.sessions[i].windows[j].panes[k].content
                      IN  IsWhole(content[1].scrollback, blobs) /\ IsWhole(content[1].visible, blobs)
    BY DEF AreAllOldThere, AreOldAllThere, AreOldThere, IsOldThere
  <1> DEFINE s == tree.sessions[i]
             w == s.windows[j]
             pane == w.panes[k]
             content == pane.content
             windows == UNION {ToSet(t.windows) : t \in ToSet(tree.sessions)}
             panes == UNION {ToSet(v.panes) : v \in windows}
             contents == UNION {ToSet(p.content) : p \in panes}
             texts == UNION {{c.scrollback, c.visible} : c \in contents}
  <1>1. texts = TextsOfTree(tree)
    BY DEF TextsOfTree
  <1>2. s \in ToSet(tree.sessions) /\ w \in ToSet(s.windows) /\ pane \in ToSet(w.panes)
    BY DEF ToSet
  <1>3. IsUnsetOrText(content)
    BY <1>2 DEF IsTree, IsOldSession, IsOldWindow, IsOldPane
  <1>4. content[1] \in ToSet(content)
    <2> HIDE DEF content
    <2>1. content = <<content[1]>>
      BY <1>3 DEF IsUnsetOrText, Some, content
    <2> DEFINE c == content[1]
    <2>2. content = <<c>>
      BY <2>1
    <2> HIDE DEF c
    <2>3. c \in ToSet(<<c>>)
      BY DEF ToSet
    <2> QED
      BY <2>2, <2>3 DEF c
  <1>5. w \in windows
    BY <1>2
  <1>6. pane \in panes
    <2> HIDE DEF windows, w
    <2> QED
      BY <1>2, <1>5
  <1>7. content[1] \in contents
    <2>1. content[1] \in ToSet(pane.content)
      BY <1>4
    <2> HIDE DEF panes, pane, content
    <2> QED
      BY <1>6, <2>1
  <1>8. content[1].scrollback \in texts /\ content[1].visible \in texts
    <2> HIDE DEF contents, content
    <2> QED
      BY <1>7
  <1> HIDE DEF texts
  <1> QED
    BY <1>1, <1>8

\* The graph, with what a file of that format says besides.
LEMMA OldReadIs ==
    ASSUME NEW tree, IsTree(tree), NEW captured_at
    PROVE  /\ IsGraph(OldRead(tree, captured_at))
           /\ IsTreeOf(tree, OldRead(tree, captured_at))
           /\ OldRead(tree, captured_at).origin = None
  <1> DEFINE trees == OldSessionsRead(tree.sessions)
             g == GraphV1(trees)
             more == [origin |-> None, touched |-> None,
                      captured_at |-> captured_at, tmux_version |-> tree.tmux_version]
             read == OldRead(tree, captured_at)
  <1>1. AreOldSessions(tree.sessions) /\ tree.sessions # <<>>
        /\ ~ HasDuplicate(Names(tree.sessions))
    BY TreeIsOfSessions
  <1>2. IsForest(trees) /\ ~ HasDuplicate(Names(trees))
    BY <1>1, OldTreeIsForest
  <1>3. trees # <<>>
    <2>1. IsFields(tree.sessions)
      BY <1>1 DEF AreOldSessions
    <2>2. IsFields(trees) /\ Len(trees) = Len(tree.sessions)
      BY <2>1, OldSessionsReadAre
    <2>3. PICK S : tree.sessions \in Seq(S)
      BY <2>1 DEF IsFields
    <2>4. Len(tree.sessions) # 0
      BY <1>1, <2>3
    <2> HIDE DEF trees
    <2>5. trees = <<>> => Len(trees) = 0
      OBVIOUS
    <2> QED
      BY <2>2, <2>4, <2>5
  <1>4. IsGraph(g)
    BY <1>2, <1>3, GraphIsSnapshot
  <1>5. DOMAIN g = {"windows", "sessions", "clients"}
    BY DEF GraphV1
  <1>6. DOMAIN more = {"origin", "touched", "captured_at", "tmux_version"}
    OBVIOUS
  <1>7. more.origin = None
    OBVIOUS
  <1>8. read = [f \in DOMAIN g \cup DOMAIN more |-> IF f \in DOMAIN g THEN g[f] ELSE more[f]]
    BY DEF OldRead, Extended
  <1> HIDE DEF more, g, read
  <1>9. /\ read.windows = g.windows /\ read.sessions = g.sessions /\ read.clients = g.clients
        /\ read.origin = more.origin
    BY <1>5, <1>6, <1>8
  <1>10. IsGraph(read)
    BY <1>4, <1>9 DEF IsGraph
  <1>11. IsTreeOf(tree, read)
    BY <1>9, GraphIsOfTree DEF g
  <1> QED
    BY <1>7, <1>9, <1>10, <1>11 DEF read

LEMMA OldBodyIsFields ==
    ASSUME NEW tree, IsTree(tree)
    PROVE  /\ IsFields(OldBody(tree)) /\ IsFields(WriteVec(tree.sessions, EncodeSessionV1))
           /\ Len(OldBody(tree)) \in Nat /\ Len(OldBody(tree)) >= 2
  <1> DEFINE a == U32(tree.tmux_version)
             b == I64(tree.captured_at)
             c == WriteVec(tree.sessions, EncodeSessionV1)
  <1>1. IsFields(a) /\ IsFields(b) /\ IsFields(c)
    BY OneField, TreeIsOfSessions, OldSessionsAreWritten DEF U32, I64
  <1>2. Len(a) = 1 /\ Len(b) = 1
    BY DEF U32, I64
  <1>3. OldBody(tree) = (a \o b) \o c
    BY DEF OldBody
  <1>4. IsFields(c)
    BY <1>1
  <1> DEFINE ab == a \o b
  <1> HIDE DEF a, b, c
  <1>5. IsFields(ab) /\ Len(ab) = 2
    <2>1. IsFields(a \o b) /\ Len(a \o b) = Len(a) + Len(b)
      BY <1>1, JoinedLengths
    <2> QED
      BY <1>2, <2>1
  <1> HIDE DEF ab
  <1>6. IsFields(ab \o c) /\ Len(ab \o c) = 2 + Len(c) /\ Len(c) \in Nat
    BY <1>1, <1>5, JoinedLengths, FieldsAreSeq
  <1>7. OldBody(tree) = ab \o c
    BY <1>3 DEF ab
  <1> QED
    BY <1>4, <1>6, <1>7 DEF c

LEMMA OldBodyIsRead ==
    ASSUME NEW tree, IsTree(tree), NEW captured_at, NEW blobs,
           NEW isWhole, isWhole => AreAllOldThere(tree.sessions, blobs)
    PROVE  Reads(DecodeBodyV1(OldBody(tree), captured_at, blobs),
                 OldRead(tree, captured_at), <<>>, isWhole)
  <1> DEFINE none == <<>>
             a == U32(tree.tmux_version)
             b == I64(tree.captured_at)
             c == WriteVec(tree.sessions, EncodeSessionV1)
             body == OldBody(tree)
             trees == OldSessionsRead(tree.sessions)
             read == OldRead(tree, captured_at)
             r0 == Reader(body)
             r1 == AfterU32(r0)
             r2 == AfterI64(r1)
             r3 == AfterOldSessions(r2, blobs)
             decoded == DecodeBodyV1(body, captured_at, blobs)
  <1>1. decoded = Resolved(AsGraphV1(NothingLeft(r3), captured_at), IsGraph)
    BY DEF DecodeBodyV1, AfterU32, AfterI64, AfterOldSessions
  <1>2. body = (a \o b) \o c
    BY DEF OldBody
  <1>3. IsFields(a) /\ IsFields(b) /\ IsFields(c) /\ IsFields(body)
    BY OneField, OldBodyIsFields DEF U32, I64
  <1>4. IsFields(none)
    BY <1>3, JoinedWithNone
  <1>5. body \o none = body
    BY <1>3, JoinedWithNone
  <1>6. IsAt(r0, body) /\ r0.got = <<>>
    BY <1>3, ReaderIsAt
  <1>7. AreOldSessions(tree.sessions) /\ tree.sessions # <<>>
    BY TreeIsOfSessions
  <1>8. IsGraph(read)
    BY OldReadIs
  <1>9. \A r : /\ r.got[1] = tree.tmux_version /\ r.got[3] = trees
               => AsGraphV1(r, captured_at) = Yield(r, read)
    BY DEF AsGraphV1, OldRead
  <1> HIDE DEF none, a, b, c, r0, r1, r2, r3, trees, read, body, decoded
  <1>10. IsFields(c \o none)
    BY <1>3, <1>4, JoinedFields
  <1>11. IsFields(b \o (c \o none))
    BY <1>3, <1>10, JoinedFields
  <1>12. IsAt(r0, a \o (b \o (c \o none)))
    <2>1. RegroupsFour(a, b, c, none)
      BY <1>3, <1>4, JoinedFour
    <2>2. ((a \o b) \o c) \o none = a \o (b \o (c \o none))
      BY <2>1 DEF RegroupsFour
    <2> QED
      BY <1>2, <1>5, <1>6, <2>2
  <1>13. IsAt(r1, b \o (c \o none)) /\ r1.got = Append(<<>>, tree.tmux_version)
    BY <1>6, <1>11, <1>12, NextU32 DEF a, r1
  <1>14. IsAt(r2, c \o none) /\ r2.got = Append(r1.got, tree.captured_at)
    BY <1>10, <1>13, NextI64 DEF b, r2
  <1>15. HasGot(r3, r2, trees, none, isWhole)
    BY <1>4, <1>7, <1>14, NextOldSessions DEF c, r3, trees
  <1>16. CASE IsAt(r3, none) /\ r3.got = Append(r2.got, trees)
    <2>1. r3.got = Append(Append(Append(<<>>, tree.tmux_version), tree.captured_at), trees)
      BY <1>13, <1>14, <1>16
    <2>2. r3.got[1] = tree.tmux_version /\ r3.got[3] = trees
      BY <2>1
    <2>3. NothingLeft(r3) = r3
      BY <1>16, NothingIsLeft DEF none
    <2>4. AsGraphV1(r3, captured_at) = Yield(r3, read)
      BY <1>9, <2>2
    <2> DEFINE made == Yield(r3, read)
    <2>5. HasRead(made, read, none)
      BY <1>16, ValueIsYielded
    <2> HIDE DEF made
    <2>6. Resolved(made, IsGraph) = made
      BY <1>8, <2>5 DEF Resolved, StopUnless, HasRead
    <2>7. decoded = made
      BY <1>1, <2>3, <2>4, <2>6 DEF made
    <2> QED
      BY <2>5, <2>7 DEF Reads, none, read, decoded, body
  <1>17. CASE ~ isWhole /\ ~ Runs(r3)
    <2>1. NothingLeft(r3) = r3
      BY <1>17 DEF NothingLeft, StopUnless
    <2>2. AsGraphV1(r3, captured_at) = r3
      BY <1>17, StoppedIsStopped DEF AsGraphV1
    <2>3. Resolved(r3, IsGraph) = r3
      BY <1>17 DEF Resolved, StopUnless
    <2>4. ~ Runs(decoded)
      BY <1>1, <1>17, <2>1, <2>2, <2>3
    <2> QED
      BY <1>17, <2>4 DEF Reads, decoded, body
  <1> QED
    BY <1>15, <1>16, <1>17 DEF HasGot

\* A file of that format: what it says of its body, and the body.
OldFileOf(x, y, z, u, v, body) ==
    (((<<x>> \o <<y>>) \o <<z>>) \o (<<u>> \o <<v>>)) \o body

\* The second of two sequences is where it was put.
LEMMA SecondIsThere ==
    ASSUME NEW s, NEW t, IsFields(s), IsFields(t)
    PROVE  SubSeq(s \o t, Len(s) + 1, Len(s \o t)) = t
  <1> DEFINE all == s \o t
             n == Len(s)
             m == Len(t)
  <1>1. PICK T : s \in Seq(T) /\ t \in Seq(T)
    BY ManyAreFields
  <1>2. all \in Seq(T) /\ Len(all) = n + m /\ n \in Nat /\ m \in Nat
    BY <1>1
  <1>3. \A i \in 1..m : all[n + i] = t[i]
    BY JoinedFields
  <1>4. t = [i \in 1..m |-> t[i]]
    BY FieldsAreSeq
  <1> HIDE DEF all, n, m
  <1> DEFINE sub == SubSeq(all, n + 1, n + m)
  <1>5. sub \in Seq(T) /\ Len(sub) = m /\ \A i \in 1..m : sub[i] = all[n + i]
    <2>1. \A i \in n + 1 .. n + m : all[i] \in T
      BY <1>2
    <2> QED
      BY <1>2, <2>1
  <1> HIDE DEF sub
  <1>6. sub = [i \in 1..m |-> sub[i]]
    BY <1>2, <1>5
  <1>7. sub = t
    BY <1>3, <1>4, <1>5, <1>6
  <1> QED
    BY <1>2, <1>7 DEF sub, all, n

LEMMA OldFileIs ==
    ASSUME NEW x, NEW y, NEW z, NEW u, NEW v, NEW body, IsFields(body)
    PROVE  LET file == OldFileOf(x, y, z, u, v, body)
           IN  /\ IsFields(file) /\ Len(file) = 5 + Len(body) /\ Len(body) \in Nat
               /\ file[1] = x /\ file[2] = y /\ file[3] = z /\ file[4] = u /\ file[5] = v
               /\ SubSeq(file, 6, Len(file)) = body
  <1> DEFINE header == <<u>> \o <<v>>
             ahead == (<<x>> \o <<y>>) \o <<z>>
             begin == ahead \o header
             file == OldFileOf(x, y, z, u, v, body)
  <1>1. IsFields(header) /\ Len(header) = 2 /\ header[1] = u /\ header[2] = v
    <2>1. header \in Seq({u, v})
      OBVIOUS
    <2>2. Len(header) = 2 /\ header[1] = u /\ header[2] = v
      OBVIOUS
    <2> HIDE DEF header
    <2> QED
      BY <2>1, <2>2 DEF IsFields
  <1>2. IsFields(ahead) /\ Len(ahead) = 3
    <2>1. ahead \in Seq({x, y, z})
      OBVIOUS
    <2>2. Len(ahead) = 3
      OBVIOUS
    <2> HIDE DEF ahead
    <2> QED
      BY <2>1, <2>2 DEF IsFields
  <1>3. file = (((<<x>> \o <<y>>) \o <<z>>) \o header) \o body /\ file = begin \o body
    BY DEF OldFileOf
  <1> HIDE DEF header, file
  <1>4. /\ IsFields(file) /\ Len(file) = 3 + Len(header) + Len(body)
        /\ file[1] = x /\ file[2] = y /\ file[3] = z
        /\ \A i \in 1 .. Len(header) : file[3 + i] = header[i]
    BY <1>1, <1>3, FirstFields
  <1>5. file[4] = u /\ file[5] = v
    <2>1. 1 \in 1 .. Len(header) /\ 2 \in 1 .. Len(header) /\ 3 + 1 = 4 /\ 3 + 2 = 5
      BY <1>1
    <2> QED
      BY <1>1, <1>4, <2>1
  <1> HIDE DEF ahead
  <1>6. IsFields(begin) /\ Len(begin) = 5
    <2>1. IsFields(begin) /\ Len(begin) = Len(ahead) + Len(header)
      BY <1>1, <1>2, JoinedLengths
    <2> HIDE DEF begin
    <2> QED
      BY <1>1, <1>2, <2>1
  <1> HIDE DEF begin
  <1>7. SubSeq(file, 6, Len(file)) = body
    <2>1. SubSeq(begin \o body, Len(begin) + 1, Len(begin \o body)) = body
      BY <1>6, SecondIsThere
    <2>2. Len(begin) + 1 = 6
      BY <1>6
    <2> QED
      BY <1>3, <2>1, <2>2
  <1>8. Len(body) \in Nat /\ Len(file) = 5 + Len(body)
    BY <1>1, <1>4, FieldsAreSeq
  <1> QED
    BY <1>4, <1>5, <1>7, <1>8 DEF file

\* It is opened as one, and its body is read if it has the length and the sum
\* that were written down.
LEMMA OldFileIsOpened ==
    ASSUME NEW y, y.is = BeforeOrigin, NEW z, NEW u, NEW v, NEW body, IsFields(body), NEW blobs
    PROVE  LET read == DecodeFile(OldFileOf(Magic, y, z, u, v, body), blobs)
           IN  /\ Len(body) # u.is \/ body # v.is => ~ Runs(read)
               /\ ~ (Len(body) # u.is \/ body # v.is) => read = DecodeBodyV1(body, z.is, blobs)
  <1> DEFINE file == OldFileOf(Magic, y, z, u, v, body)
  <1>1. /\ IsFields(file) /\ Len(file) = 5 + Len(body) /\ Len(body) \in Nat
        /\ file[1] = Magic /\ file[2] = y /\ file[3] = z /\ file[4] = u /\ file[5] = v
        /\ SubSeq(file, 6, Len(file)) = body
    BY OldFileIs
  <1> HIDE DEF file
  <1> DEFINE value == [version |-> BeforeOrigin, origin |-> None, tag |-> None,
                       captured_at |-> file[3].is, length |-> file[4].is,
                       sum |-> file[5].is, start |-> HeaderLengthV1]
             read == Yield(Reader(<<>>), value)
  <1>2. DecodeHeader(file) = read
    <2>1. DecodeHeader(file) = DecodeHeaderV1(file)
      BY <1>1 DEF DecodeHeader
    <2> QED
      BY <1>1, <2>1 DEF DecodeHeaderV1, HeaderLengthV1
  <1>3. /\ value.start = 5 /\ value.length = u.is /\ value.sum = v.is
        /\ value.captured_at = z.is /\ value.version = BeforeOrigin
    BY <1>1 DEF HeaderLengthV1
  <1> HIDE DEF value
  <1>4. Runs(read) /\ read.value = value
    BY DEF Yield, Runs, Reader
  <1> HIDE DEF read
  <1>5. DecodeFile(file, blobs) = DecodeBodyOf(body, value, blobs)
    <2>1. value.start + 1 = 6
      BY <1>3
    <2> QED
      BY <1>1, <1>2, <1>4, <2>1 DEF DecodeFile, DecodeRest
  <1>6. CASE Len(body) # u.is
    <2>1. DecodeFile(file, blobs) = Stop(Reader(body), "Truncated")
      BY <1>3, <1>5, <1>6 DEF DecodeBodyOf
    <2> QED
      BY <1>6, <2>1, ReaderIsStopped DEF file
  <1>7. CASE Len(body) = u.is /\ body # v.is
    <2>1. DecodeFile(file, blobs) = Stop(Reader(body), "ChecksumMismatch")
      BY <1>3, <1>5, <1>7 DEF DecodeBodyOf, SumMatches
    <2> QED
      BY <1>7, <2>1, ReaderIsStopped DEF file
  <1>8. CASE Len(body) = u.is /\ body = v.is
    <2>1. DecodeFile(file, blobs) = DecodeBodyV1(body, z.is, blobs)
      BY <1>3, <1>5, <1>8 DEF DecodeBodyOf, SumMatches
    <2> QED
      BY <1>8, <2>1 DEF file
  <1> QED
    BY <1>6, <1>7, <1>8

\* What is read is the tree that was written.
IsTheTree(read, tree) ==
    Runs(read) => IsTreeOf(tree, read.value) /\ read.value.origin = None

\* What such a phoenix wrote down: the version, the time, and of the body its
\* length and its sum.
OldVersion == [as |-> "u32", is |-> BeforeOrigin]
OldTime(tree) == [as |-> "i64", is |-> tree.captured_at]
OldLength(tree) == [as |-> "u64", is |-> Len(OldBody(tree))]
OldSum(tree) == [as |-> "sum", is |-> OldBody(tree)]

LEMMA OldFileIsWritten ==
    ASSUME NEW tree, IsTree(tree)
    PROVE  EncodeFileV1(tree) =
              OldFileOf(Magic, OldVersion, OldTime(tree), OldLength(tree), OldSum(tree),
                        OldBody(tree))
  <1> DEFINE body == OldBody(tree)
             a == <<OldLength(tree)>>
             b == <<OldSum(tree)>>
             x == <<Magic>>
             y == <<OldVersion>>
             z == <<OldTime(tree)>>
             ahead == (x \o y) \o z
  <1>1. EncodeFileV1(tree) = ((ahead \o a) \o b) \o body
    BY DEF EncodeFileV1, OldBody, U32, I64, U64, Sum, OldVersion, OldTime, OldLength, OldSum
  <1>2. IsFields(x) /\ IsFields(y) /\ IsFields(z) /\ IsFields(a) /\ IsFields(b)
    BY OneField
  <1>3. OldFileOf(Magic, OldVersion, OldTime(tree), OldLength(tree), OldSum(tree), body) =
           (ahead \o (a \o b)) \o body
    BY DEF OldFileOf
  <1> HIDE DEF x, y, z, a, b, body
  <1>4. IsFields(x \o y)
    BY <1>2, JoinedFields
  <1>5. IsFields(ahead)
    BY <1>2, <1>4, JoinedFields
  <1> HIDE DEF ahead
  <1>6. (ahead \o a) \o b = ahead \o (a \o b)
    BY <1>2, <1>5, JoinedThrice
  <1> QED
    BY <1>1, <1>3, <1>6 DEF body

\* Under any time, the body is read as the tree.
LEMMA OldBodyIsTree ==
    ASSUME NEW tree, IsTree(tree), NEW z, NEW blobs
    PROVE  LET read == DecodeFile(OldFileOf(Magic, OldVersion, z, OldLength(tree), OldSum(tree),
                                            OldBody(tree)), blobs)
           IN  /\ IsTheTree(read, tree)
               /\ (\A text \in TextsOfTree(tree) : IsWhole(text, blobs)) => Runs(read)
  <1> DEFINE body == OldBody(tree)
             u == OldLength(tree)
             v == OldSum(tree)
             read == DecodeFile(OldFileOf(Magic, OldVersion, z, u, v, body), blobs)
             isWhole == \A text \in TextsOfTree(tree) : IsWhole(text, blobs)
             value == OldRead(tree, z.is)
  <1>1. OldVersion.is = BeforeOrigin /\ u.is = Len(body) /\ v.is = body
    BY DEF OldVersion, OldLength, OldSum
  <1>2. IsFields(body)
    BY OldBodyIsFields
  <1>3. isWhole => AreAllOldThere(tree.sessions, blobs)
    BY OldTextsAreThere
  <1>4. IsTreeOf(tree, value) /\ value.origin = None
    BY OldReadIs
  <1> HIDE DEF isWhole, u, v
  <1>5. Reads(DecodeBodyV1(body, z.is, blobs), value, <<>>, isWhole)
    BY <1>3, OldBodyIsRead
  <1> HIDE DEF body, value
  <1>6. read = DecodeBodyV1(body, z.is, blobs)
    BY <1>1, <1>2, OldFileIsOpened
  <1> HIDE DEF read
  <1>7. (Runs(read) => read.value = value) /\ (isWhole => Runs(read))
    BY <1>5, <1>6, StillRuns DEF Reads, HasRead
  <1>8. IsTheTree(read, tree)
    BY <1>4, <1>7 DEF IsTheTree
  <1> QED
    BY <1>7, <1>8 DEF read, isWhole, body, u, v

\* A file that a phoenix before this format wrote is read as the sessions,
\* windows and panes it was of (codec.rs `decode_v1`): each window once, under
\* an id of its own, and of no server - and while every text it names is there
\* and whole, it is read.
THEOREM OldFileReadsBack ==
    ASSUME NEW tree, IsTree(tree), NEW blobs
    PROVE  LET read == DecodeFile(EncodeFileV1(tree), blobs)
           IN  /\ Runs(read) => IsTreeOf(tree, read.value) /\ read.value.origin = None
               /\ (\A text \in TextsOfTree(tree) : IsWhole(text, blobs)) => Runs(read)
  <1> DEFINE read == DecodeFile(EncodeFileV1(tree), blobs)
  <1>1. /\ IsTheTree(read, tree)
        /\ (\A text \in TextsOfTree(tree) : IsWhole(text, blobs)) => Runs(read)
    BY OldFileIsWritten, OldBodyIsTree
  <1> HIDE DEF read
  <1> QED
    BY <1>1 DEF IsTheTree, read

\* A header that is empty, or that begins with what is no tag of an option.
LEMMA TagIsMissing ==
    ASSUME NEW header,
           \/ header = <<>>
           \/ \E field, rest : /\ field.as # "u8" /\ IsFields(rest)
                               /\ header = <<field>> \o rest
    PROVE  HeaderStops(header)
  <1> DEFINE r0 == Reader(header)
             s == Fresh(r0)
             tag == Take(s, "u8")
             r1 == HeaderStep(header, 1)
  <1>1. r1 = AfterOriginOption(r0)
    BY HeaderSteps
  <1>2. AfterOriginOption(r0) = Got(r0, OriginOption(s))
    BY DEF AfterOriginOption, OriginOption, Then, Fresh
  <1>3. OriginOption(s) = OptionOf(tag, ReadOrigin(tag))
    BY OptionsAre
  <1>4. \A item : ~ Runs(item) => ~ Runs(Got(r0, item))
    BY StoppedIsStopped
  <1>5. ~ Runs(tag)
    <2>1. CASE header = <<>>
      <3> DEFINE none == <<>>
      <3>1. IsFields(none)
        <4>1. none \in Seq({})
          OBVIOUS
        <4> QED
          BY <4>1 DEF IsFields
      <3> HIDE DEF none
      <3>2. header = none
        BY <2>1 DEF none
      <3>3. IsAt(s, none)
        BY <3>1, <3>2, ReaderIsAt, FreshIsAt
      <3> HIDE DEF s
      <3> QED
        BY <3>3, NoField DEF none
    <2>2. CASE \E field, rest : /\ field.as # "u8" /\ IsFields(rest)
                                /\ header = <<field>> \o rest
      <3>1. PICK field, rest : /\ field.as # "u8" /\ IsFields(rest)
                               /\ header = <<field>> \o rest
        BY <2>2
      <3>2. IsFields(header)
        BY <3>1, FirstField
      <3>3. IsAt(s, <<field>> \o rest)
        BY <3>1, <3>2, ReaderIsAt, FreshIsAt
      <3> HIDE DEF s
      <3> QED
        BY <3>1, <3>3, WrongField
    <2> QED
      BY <2>1, <2>2
  <1> HIDE DEF tag
  <1>6. OptionOf(tag, ReadOrigin(tag)) = tag
    BY <1>5 DEF OptionOf
  <1>7. ~ Runs(r1)
    BY <1>1, <1>2, <1>3, <1>4, <1>5, <1>6
  <1> QED
    BY <1>7, HeaderStopsAt DEF r1

\* A file of the format before under the number of this one: what would be the
\* tag of its origin is the length of its body.
LEMMA VersionIsNew ==
    ASSUME NEW y, y.is = Current, NEW z, z.is \in Int, NEW u, u.as # "u8", NEW v,
           NEW body, IsFields(body), NEW blobs
    PROVE  ~ Runs(DecodeFile(OldFileOf(Magic, y, z, u, v, body), blobs))
  <1> DEFINE file == OldFileOf(Magic, y, z, u, v, body)
             c == z.is
  <1>1. /\ IsFields(file) /\ Len(file) = 5 + Len(body) /\ Len(body) \in Nat
        /\ file[1] = Magic /\ file[2] = y /\ file[3] = z /\ file[4] = u
    BY OldFileIs
  <1> HIDE DEF file
  <1>2. DecodeHeader(file) = DecodeHeaderCurrent(file)
    BY <1>1 DEF DecodeHeader, Current, BeforeOrigin
  <1>3. CASE Len(file) < 3 + c
    <2>1. DecodeHeaderCurrent(file) = Stop(Reader(file), "Truncated")
      BY <1>1, <1>3 DEF DecodeHeaderCurrent
    <2>2. ~ Runs(DecodeHeader(file))
      BY <1>2, <2>1, ReaderIsStopped
    <2> QED
      BY <2>2, HeaderIsStopped DEF file
  <1>4. CASE ~ Len(file) < 3 + c
    <2> DEFINE start == 3 + c
               header == SubSeq(file, 4, start)
    <2>0. ~ Len(file) < 3
      BY <1>1
    <2>1. DecodeHeaderCurrent(file) = ReadHeader(file, start)
      BY <1>1, <1>4, <2>0 DEF DecodeHeaderCurrent
    <2>2. start \in Int /\ start <= Len(file)
      BY <1>1, <1>4
    <2>3. PICK T : file \in Seq(T)
      BY <1>1 DEF IsFields
    <2> HIDE DEF start
    <2>4. \/ header = <<>>
          \/ \E field, rest : /\ field.as # "u8" /\ IsFields(rest)
                              /\ header = <<field>> \o rest
      <3>1. CASE start < 4
        <4>1. header = <<>>
          BY <2>2, <2>3, <3>1
        <4> QED
          BY <4>1
      <3>2. CASE ~ start < 4
        <4> DEFINE one == <<u>>
                   rest == SubSeq(file, 5, start)
        <4>1. u \in T
          BY <1>1, <2>3
        <4>2. rest \in Seq(T) /\ Len(rest) = start - 4
              /\ \A i \in 1 .. start - 4 : rest[i] = file[4 + i]
          BY <1>1, <2>2, <2>3, <3>2
        <4>3. header \in Seq(T) /\ Len(header) = start - 3
              /\ \A i \in 1 .. start - 3 : header[i] = file[3 + i]
          BY <1>1, <2>2, <2>3, <3>2
        <4>4. one \in Seq(T) /\ Len(one) = 1 /\ one[1] = u
          BY <4>1
        <4> HIDE DEF rest, header, one
        <4>9. IsFields(one) /\ IsFields(rest)
          BY <4>2, <4>4 DEF IsFields
        <4>10. /\ IsFields(one \o rest) /\ Len(one \o rest) = Len(one) + Len(rest)
               /\ \A i \in 1 .. Len(one) : (one \o rest)[i] = one[i]
               /\ \A i \in 1 .. Len(rest) : (one \o rest)[Len(one) + i] = rest[i]
          BY <4>9, JoinedFields
        <4>5. /\ Len(one \o rest) = start - 3 /\ (one \o rest)[1] = u
              /\ \A i \in 1 .. start - 4 : (one \o rest)[1 + i] = rest[i]
          BY <2>2, <3>2, <4>2, <4>4, <4>10
        <4>6. ASSUME NEW i \in 1 .. start - 3
              PROVE  header[i] = (one \o rest)[i]
          <5>1. CASE i = 1
            BY <1>1, <4>3, <4>5, <5>1
          <5>2. CASE i # 1
            <6>1. i - 1 \in 1 .. start - 4 /\ 1 + (i - 1) = i /\ 4 + (i - 1) = 3 + i
              BY <2>2, <5>2
            <6> QED
              BY <4>2, <4>3, <4>5, <6>1
          <5> QED
            BY <5>1, <5>2
        <4>7. header = one \o rest
          <5>1. one \o rest = [i \in 1 .. start - 3 |-> (one \o rest)[i]]
            BY <4>10, <4>5, FieldsAreSeq
          <5>2. header = [i \in 1 .. start - 3 |-> header[i]]
            BY <2>2, <3>2, <4>3
          <5> QED
            BY <4>6, <5>1, <5>2
        <4>8. IsFields(rest)
          BY <4>2 DEF IsFields
        <4> QED
          BY <4>7, <4>8 DEF one
      <3> QED
        BY <3>1, <3>2
    <2>5. HeaderStops(header)
      <3> HIDE DEF header
      <3> QED
        BY <2>4, TagIsMissing
    <2>6. ~ Runs(ReadHeader(file, start))
      BY <2>5 DEF HeaderStops
    <2>7. ~ Runs(DecodeHeader(file))
      BY <1>2, <2>1, <2>6
    <2> QED
      BY <2>7, HeaderIsStopped DEF file
  <1> QED
    BY <1>3, <1>4

\* A file of the format before that stops short of its body.
LEMMA OldFileIsTooShort ==
    ASSUME NEW file, IsFields(file), Len(file) < 5,
           Len(file) >= 2 => file[2].is = BeforeOrigin, NEW blobs
    PROVE  ~ Runs(DecodeFile(file, blobs))
  <1>1. Len(file) \in Nat
    BY FieldsAreSeq
  <1>2. \E error : error # "none" /\ DecodeHeader(file) = Stop(Reader(file), error)
    <2>1. CASE Len(file) < 2
      BY <2>1 DEF DecodeHeader
    <2>2. CASE ~ Len(file) < 2 /\ file[1] # Magic
      BY <2>2 DEF DecodeHeader
    <2>3. CASE ~ Len(file) < 2 /\ file[1] = Magic
      <3>1. file[2].is = BeforeOrigin
        BY <1>1, <2>3
      <3>2. DecodeHeader(file) = DecodeHeaderV1(file)
        BY <2>3, <3>1 DEF DecodeHeader
      <3>3. DecodeHeaderV1(file) = Stop(Reader(file), "Truncated")
        BY <1>1 DEF DecodeHeaderV1, HeaderLengthV1
      <3> QED
        BY <3>2, <3>3
    <2> QED
      BY <2>1, <2>2, <2>3
  <1>3. ~ Runs(DecodeHeader(file))
    BY <1>2, ReaderIsStopped
  <1> QED
    BY <1>3, HeaderIsStopped

\* The file is what is ahead of its body, and the body.
OldAhead(x, y, z, u, v) == ((<<x>> \o <<y>>) \o <<z>>) \o (<<u>> \o <<v>>)

LEMMA OldFileIsAhead ==
    ASSUME NEW x, NEW y, NEW z, NEW u, NEW v
    PROVE  /\ IsFields(OldAhead(x, y, z, u, v)) /\ Len(OldAhead(x, y, z, u, v)) = 5
           /\ \A body : OldFileOf(x, y, z, u, v, body) = OldAhead(x, y, z, u, v) \o body
  <1> DEFINE a == (<<x>> \o <<y>>) \o <<z>>
             b == <<u>> \o <<v>>
  <1>1. a \in Seq({x, y, z}) /\ Len(a) = 3
    OBVIOUS
  <1>2. b \in Seq({u, v}) /\ Len(b) = 2
    OBVIOUS
  <1>3. OldAhead(x, y, z, u, v) = a \o b
    BY DEF OldAhead
  <1>4. \A body : OldFileOf(x, y, z, u, v, body) = OldAhead(x, y, z, u, v) \o body
    BY DEF OldFileOf, OldAhead
  <1> HIDE DEF a, b
  <1>5. IsFields(a) /\ IsFields(b)
    BY <1>1, <1>2 DEF IsFields
  <1>6. IsFields(a \o b) /\ Len(a \o b) = Len(a) + Len(b)
    BY <1>5, JoinedLengths
  <1>7. Len(a \o b) = 5
    BY <1>1, <1>2, <1>6
  <1> QED
    BY <1>3, <1>4, <1>6, <1>7

\* A body of another length, or another body of that length, is refused.
LEMMA OldBodyIsAnother ==
    ASSUME NEW tree, IsTree(tree), NEW z, NEW body, IsFields(body), NEW blobs
    PROVE  IsTheTree(DecodeFile(OldFileOf(Magic, OldVersion, z, OldLength(tree), OldSum(tree),
                                          body), blobs), tree)
  <1> DEFINE u == OldLength(tree)
             v == OldSum(tree)
             read == DecodeFile(OldFileOf(Magic, OldVersion, z, u, v, body), blobs)
  <1>1. OldVersion.is = BeforeOrigin /\ v.is = OldBody(tree)
    BY DEF OldVersion, OldSum
  <1>2. CASE body = OldBody(tree)
    BY <1>2, OldBodyIsTree
  <1>3. CASE body # OldBody(tree)
    <2>1. body # v.is
      BY <1>1, <1>3
    <2> HIDE DEF u, v
    <2>2. ~ Runs(read)
      BY <1>1, <2>1, OldFileIsOpened
    <2> HIDE DEF read
    <2>3. IsTheTree(read, tree)
      BY <2>2 DEF IsTheTree
    <2> QED
      BY <2>3 DEF read, u, v
  <1> QED
    BY <1>2, <1>3

LEMMA OldCutIsNoticed ==
    ASSUME NEW tree, IsTree(tree), NEW blobs, NEW k \in 0 .. Len(EncodeFileV1(tree)) - 1
    PROVE  IsTheTree(DecodeFile(SubSeq(EncodeFileV1(tree), 1, k), blobs), tree)
  <1> DEFINE y == OldVersion
             z == OldTime(tree)
             u == OldLength(tree)
             v == OldSum(tree)
             body == OldBody(tree)
             begin == OldAhead(Magic, y, z, u, v)
             file == OldFileOf(Magic, y, z, u, v, body)
  <1>1. IsFields(body) /\ Len(body) \in Nat
    BY OldBodyIsFields
  <1>2. EncodeFileV1(tree) = file
    BY OldFileIsWritten
  <1>3. IsFields(begin) /\ Len(begin) = 5
        /\ \A b : OldFileOf(Magic, y, z, u, v, b) = begin \o b
    BY OldFileIsAhead
  <1>4. \A b : IsFields(b) =>
           IsTheTree(DecodeFile(OldFileOf(Magic, y, z, u, v, b), blobs), tree)
    BY OldBodyIsAnother
  <1>5. y.is = BeforeOrigin
    BY DEF OldVersion
  <1> HIDE DEF y, z, u, v, body
  <1>6. IsFields(file) /\ Len(file) = 5 + Len(body) /\ file[2] = y
    BY <1>1, OldFileIs
  <1> HIDE DEF begin
  <1>7. file = begin \o body
    BY <1>3
  <1> HIDE DEF file
  <1>8. k \in Nat /\ k < 5 + Len(body)
    BY <1>1, <1>2, <1>6
  <1>9. CASE k < 5
    <2> DEFINE cut == SubSeq(file, 1, k)
    <2>1. PICK T : file \in Seq(T)
      BY <1>6 DEF IsFields
    <2>2. cut \in Seq(T) /\ Len(cut) = k /\ \A i \in 1..k : cut[i] = file[i]
      BY <1>1, <1>6, <1>8, <2>1
    <2> HIDE DEF cut
    <2>3. IsFields(cut)
      BY <2>2 DEF IsFields
    <2>4. Len(cut) >= 2 => cut[2].is = BeforeOrigin
      <3>1. k >= 2 => 2 \in 1..k
        BY <1>8
      <3> QED
        BY <1>5, <1>6, <2>2, <3>1
    <2>5. ~ Runs(DecodeFile(cut, blobs))
      BY <1>9, <2>2, <2>3, <2>4, OldFileIsTooShort
    <2> QED
      BY <1>2, <2>5 DEF IsTheTree, cut
  <1>10. CASE ~ k < 5
    <2> DEFINE j == k - 5
               cut == SubSeq(body, 1, j)
    <2>1. j \in Nat /\ j <= Len(body) /\ k = Len(begin) + j
      BY <1>1, <1>3, <1>8, <1>10
    <2> HIDE DEF j
    <2>2. SubSeq(begin \o body, 1, Len(begin) + j) = begin \o cut /\ IsFields(cut)
      BY <1>1, <1>3, <2>1, CutIsOfSecond
    <2>3. SubSeq(file, 1, k) = OldFileOf(Magic, y, z, u, v, cut)
      BY <1>3, <1>7, <2>1, <2>2
    <2> QED
      BY <1>2, <1>4, <2>2, <2>3
  <1> QED
    BY <1>9, <1>10

LEMMA OldTailIsNoticed ==
    ASSUME NEW tree, IsTree(tree), NEW blobs, NEW x
    PROVE  IsTheTree(DecodeFile(Append(EncodeFileV1(tree), x), blobs), tree)
  <1> DEFINE y == OldVersion
             z == OldTime(tree)
             u == OldLength(tree)
             v == OldSum(tree)
             body == OldBody(tree)
             begin == OldAhead(Magic, y, z, u, v)
             file == begin \o body
             one == <<x>>
  <1>1. IsFields(body) /\ IsFields(begin) /\ IsFields(one)
    BY OldBodyIsFields, OldFileIsAhead, OneField
  <1>3. \A b : OldFileOf(Magic, y, z, u, v, b) = begin \o b
    BY OldFileIsAhead
  <1>2. EncodeFileV1(tree) = file
    <2>1. EncodeFileV1(tree) = OldFileOf(Magic, y, z, u, v, body)
      BY OldFileIsWritten
    <2> HIDE DEF y, z, u, v, body, begin
    <2> QED
      BY <1>3, <2>1
  <1>4. \A b : IsFields(b) =>
           IsTheTree(DecodeFile(OldFileOf(Magic, y, z, u, v, b), blobs), tree)
    BY OldBodyIsAnother
  <1> HIDE DEF y, z, u, v, body, begin
  <1>6. IsFields(file) /\ IsFields(body \o one)
    BY <1>1, JoinedFields
  <1>7. Append(file, x) = file \o one
    <2> HIDE DEF file
    <2>1. PICK T : file \in Seq(T)
      BY <1>6 DEF IsFields
    <2>2. file \in Seq(T \cup {x}) /\ x \in T \cup {x}
      BY <2>1, SeqMonotonic
    <2> QED
      BY <2>2
  <1> HIDE DEF one
  <1>8. file \o one = begin \o (body \o one)
    BY <1>1, JoinedThrice
  <1> DEFINE longer == body \o one
  <1>9. IsFields(longer) /\ Append(file, x) = begin \o longer
    BY <1>6, <1>7, <1>8
  <1> HIDE DEF longer, file
  <1>10. Append(EncodeFileV1(tree), x) = OldFileOf(Magic, y, z, u, v, longer)
    BY <1>2, <1>3, <1>9
  <1> QED
    BY <1>4, <1>9, <1>10

\* Whatever the time says, and the length or the sum if it is another.
LEMMA OldSumIsAnother ==
    ASSUME NEW z, NEW u, NEW v, NEW body, IsFields(body), NEW blobs, NEW tree,
           u.is # Len(body) \/ v.is # body
    PROVE  IsTheTree(DecodeFile(OldFileOf(Magic, OldVersion, z, u, v, body), blobs), tree)
  <1>1. OldVersion.is = BeforeOrigin
    BY DEF OldVersion
  <1>2. ~ Runs(DecodeFile(OldFileOf(Magic, OldVersion, z, u, v, body), blobs))
    BY <1>1, OldFileIsOpened
  <1> QED
    BY <1>2 DEF IsTheTree

LEMMA OldChangeIsNoticed ==
    ASSUME NEW tree, IsTree(tree), NEW blobs, NEW by \in {-1, 1}, NEW other,
           NEW f, IsAltered(f, EncodeFileV1(tree), by, other)
    PROVE  IsTheTree(DecodeFile(f, blobs), tree)
  <1> DEFINE y == OldVersion
             z == OldTime(tree)
             u == OldLength(tree)
             v == OldSum(tree)
             a == <<u>>
             b == <<v>>
             header == a \o b
             body == OldBody(tree)
             read == DecodeFile(f, blobs)
  <1>1. IsFields(body) /\ Len(body) \in Nat /\ Len(body) >= 2
    BY OldBodyIsFields
  <1>2. IsFields(a) /\ IsFields(b)
    BY OneField
  <1>3. IsFields(header)
    <2> HIDE DEF a, b
    <2> QED
      BY <1>2, JoinedFields
  <1>4. EncodeFileV1(tree) = (((<<Magic>> \o <<y>>) \o <<z>>) \o header) \o body
    BY OldFileIsWritten DEF OldFileOf
  <1>5. \A p, q, r, s, t, c : OldFileOf(p, q, r, s, t, c) =
              (((<<p>> \o <<q>>) \o <<r>>) \o (<<s>> \o <<t>>)) \o c
    BY DEF OldFileOf
  <1>6. \/ \E g : IsAltered(g, body, by, other)
                  /\ f = (((<<Magic>> \o <<y>>) \o <<z>>) \o header) \o g
        \/ \E g : IsAltered(g, header, by, other)
                  /\ f = (((<<Magic>> \o <<y>>) \o <<z>>) \o g) \o body
        \/ f = (((<<Magic>> \o <<y>>) \o <<Altered(z, by, other)>>) \o header) \o body
        \/ f = (((<<Magic>> \o <<Altered(y, by, other)>>) \o <<z>>) \o header) \o body
        \/ f = (((<<Altered(Magic, by, other)>> \o <<y>>) \o <<z>>) \o header) \o body
    <2>1. IsAltered(f, (((<<Magic>> \o <<y>>) \o <<z>>) \o header) \o body, by, other)
      BY <1>4
    <2> HIDE DEF header, body, y, z
    <2> QED
      BY <1>1, <1>3, <2>1, AlteredSomewhere
  <1>7. CASE \E g : IsAltered(g, body, by, other)
                    /\ f = (((<<Magic>> \o <<y>>) \o <<z>>) \o header) \o g
    <2>1. PICK g : IsAltered(g, body, by, other)
                   /\ f = (((<<Magic>> \o <<y>>) \o <<z>>) \o header) \o g
      BY <1>7
    <2>2. IsFields(g)
      <3> HIDE DEF body
      <3> QED
        BY <1>1, <2>1, AlteredIsLong
    <2>3. f = OldFileOf(Magic, y, z, u, v, g)
      BY <1>5, <2>1
    <2> QED
      BY <2>2, <2>3, OldBodyIsAnother
  <1>8. CASE \E g : IsAltered(g, header, by, other)
                    /\ f = (((<<Magic>> \o <<y>>) \o <<z>>) \o g) \o body
    <2>1. PICK g : IsAltered(g, header, by, other)
                   /\ f = (((<<Magic>> \o <<y>>) \o <<z>>) \o g) \o body
      BY <1>8
    <2>2. \/ g = <<Altered(u, by, other)>> \o <<v>>
          \/ g = <<u>> \o <<Altered(v, by, other)>>
      <3>1. \/ \E h : IsAltered(h, a, by, other) /\ g = h \o b
            \/ \E h : IsAltered(h, b, by, other) /\ g = a \o h
        <4>1. IsAltered(g, a \o b, by, other)
          BY <2>1
        <4> HIDE DEF a, b, header
        <4> QED
          BY <1>2, <4>1, AlteredIsOfOne
      <3> HIDE DEF u, v
      <3>2. \A h : /\ IsAltered(h, a, by, other) => h = <<Altered(u, by, other)>>
                   /\ IsAltered(h, b, by, other) => h = <<Altered(v, by, other)>>
        BY AlteredAlone
      <3> QED
        BY <3>1, <3>2
    <2>3. CASE g = <<Altered(u, by, other)>> \o <<v>>
      <3> DEFINE w == Altered(u, by, other)
                 n == Len(body)
      <3>1. w = [as |-> "u64", is |-> n + by]
        <4>1. w = [as |-> "u64", is |-> Max({0, n + by})]
          BY AlteredNumber DEF OldLength
        <4> DEFINE m == n + by
        <4>2. m \in Int /\ ~ m < 0
          BY <1>1
        <4> HIDE DEF m, w
        <4>3. Max({0, m}) = m
          BY <4>2, MaxOfTwo
        <4> QED
          BY <4>1, <4>3 DEF m
      <3>2. w.is # n
        <4>1. w.is = n + by
          BY <3>1
        <4> HIDE DEF w, n
        <4>2. n + by # n
          BY <1>1 DEF n
        <4> QED
          BY <4>1, <4>2
      <3>3. f = OldFileOf(Magic, y, z, w, v, body)
        BY <1>5, <2>1, <2>3
      <3> HIDE DEF w, v, z, body
      <3> QED
        BY <1>1, <3>2, <3>3, OldSumIsAnother
    <2>4. CASE g = <<u>> \o <<Altered(v, by, other)>>
      <3> DEFINE w == Altered(v, by, other)
                 none == <<>>
      <3>1. w = [as |-> "sum", is |-> none]
        BY AlteredSum DEF OldSum
      <3>2. Len(none) = 0
        OBVIOUS
      <3> HIDE DEF none
      <3>3. w.is = none
        BY <3>1
      <3>4. none # body
        BY <1>1, <3>2
      <3>5. f = OldFileOf(Magic, y, z, u, w, body)
        BY <1>5, <2>1, <2>4
      <3>6. w.is # body
        BY <3>3, <3>4
      <3> HIDE DEF w, u, z, body
      <3> QED
        BY <1>1, <3>5, <3>6, OldSumIsAnother
    <2> QED
      BY <2>2, <2>3, <2>4
  <1>9. CASE f = (((<<Magic>> \o <<y>>) \o <<Altered(z, by, other)>>) \o header) \o body
    <2>1. f = OldFileOf(Magic, y, Altered(z, by, other), u, v, body)
      BY <1>5, <1>9
    <2> QED
      BY <1>1, <2>1, OldBodyIsAnother
  <1>10. CASE f = (((<<Magic>> \o <<Altered(y, by, other)>>) \o <<z>>) \o header) \o body
    <2> DEFINE w == Altered(y, by, other)
    <2>1. w = [as |-> "u32", is |-> BeforeOrigin + by]
      <3>1. <<w>> = U32(BeforeOrigin + by)
        <4>1. y = U32(BeforeOrigin)[1]
          BY DEF U32, OldVersion
        <4>2. BeforeOrigin \in Nat /\ BeforeOrigin >= 1
          BY DEF BeforeOrigin
        <4> HIDE DEF y
        <4> QED
          BY <4>1, <4>2, AlteredAhead
      <3> HIDE DEF w
      <3> QED
        BY <3>1 DEF U32
    <2>2. w.is = BeforeOrigin + by
      BY <2>1
    <2> HIDE DEF w
    <2>3. w.is = Current \/ w.is \notin {BeforeOrigin, Current}
      BY <2>2 DEF BeforeOrigin, Current
    <2>4. f = (((<<Magic>> \o <<w>>) \o <<z>>) \o header) \o body
      BY <1>10 DEF w
    <2>5. f = OldFileOf(Magic, w, z, u, v, body)
      BY <1>5, <2>4
    <2>6. z.is \in Int /\ u.as # "u8"
      BY DEF IsTree, OldTime, OldLength
    <2> HIDE DEF z, header, body, u, v
    <2>7. ~ Runs(read)
      <3>1. CASE w.is = Current
        BY <1>1, <2>5, <2>6, <3>1, VersionIsNew
      <3>2. CASE w.is \notin {BeforeOrigin, Current}
        BY <1>1, <1>3, <2>4, <3>2, VersionIsUnknown
      <3> QED
        BY <2>3, <3>1, <3>2
    <2> QED
      BY <2>7 DEF IsTheTree
  <1>11. CASE f = (((<<Altered(Magic, by, other)>> \o <<y>>) \o <<z>>) \o header) \o body
    <2> DEFINE w == Altered(Magic, by, other)
    <2>1. CASE w = Magic
      <3>1. f = OldFileOf(Magic, y, z, u, v, body)
        BY <1>5, <1>11, <2>1
      <3> QED
        BY <1>1, <3>1, OldBodyIsAnother
    <2>2. CASE w # Magic
      <3>1. ~ Runs(read)
        <4> HIDE DEF w, y, z, header, body
        <4> QED
          BY <1>1, <1>3, <1>11, <2>2, MagicIsAnother DEF w
      <3> QED
        BY <3>1 DEF IsTheTree
    <2> QED
      BY <2>1, <2>2
  <1> QED
    BY <1>6, <1>7, <1>8, <1>9, <1>10, <1>11

\* What a disk does to a file of the format before does not pass for another
\* tree either (header.rs, codec.rs): of a file that was cut short, that goes
\* on, or one field of which was changed, nothing is read or the very sessions,
\* windows and panes that were written, under a time that no checksum covers.
THEOREM OldDamageIsNoticed ==
    ASSUME NEW tree, IsTree(tree), NEW blobs, NEW other,
           NEW f, IsDamaged(f, EncodeFileV1(tree), other)
    PROVE  LET read == DecodeFile(f, blobs)
           IN  Runs(read) => IsTreeOf(tree, read.value) /\ read.value.origin = None
  <1>1. IsTheTree(DecodeFile(f, blobs), tree)
    BY OldCutIsNoticed, OldTailIsNoticed, OldChangeIsNoticed DEF IsDamaged
  <1> QED
    BY <1>1 DEF IsTheTree
=============================================================================
