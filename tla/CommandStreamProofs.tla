------------------------ MODULE CommandStreamProofs ------------------------
(* What the device reads is what was asked for, in order and on time, for     *)
(* every size of the blocks, choice of chips, length of _buf and sequence of  *)
(* calls. The words are a language: reading is compositional (Joined), so is  *)
(* being spelled (Tells, Even), and padding, cutting into blocks and giving   *)
(* up a flush preserve both. Reading is a recursion along the words; what it  *)
(* does for streams of every length is shown by looking at the shortest that  *)
(* would be read otherwise (Upwards, UpTo).                                   *)
EXTENDS CommandStream, SequenceTheorems, WellFoundedInduction, TLAPS

Gaps == 0 .. MIN_CYCLES
Plain == Words \ {FILLER}
Block == [1 .. BlockWords -> Words]
Commands == Seq(Nat)

\* The device reads the commands x in the words w, and is in no escape then.
Tells(w, x) ==
    /\ w \in Seq(Words)
    /\ \A g \in Gaps : ~Read(FALSE, g, w).open /\ Read(FALSE, g, w).items = x

\* No write comes too early, and the next may come at once.
Even(w) == ~Read(FALSE, MIN_CYCLES, w).early /\ Read(FALSE, MIN_CYCLES, w).gap = MIN_CYCLES

AllClosed(blocks) == blocks \in Seq(Block) /\ \A k \in DOMAIN blocks : Closed(blocks[k])

\* Read after a gap of g, the blocks hold no write that comes too early, and
\* the next may come at once: after the last, and where the rest may be dropped.
OnTime(g, blocks) ==
    /\ ~Read(FALSE, g, FlattenSeq(blocks)).early
    /\ Read(FALSE, g, FlattenSeq(blocks)).gap = MIN_CYCLES
    /\ Settled(g, blocks)

\* What the promise of --chips lets through.
Promised ==
    {x \in Commands : Len(x) = 3 /\ x[1] \notin Enabled => x \in {<<0, 30, 0>>, <<0, 0, 0>>}}

BufOK == /\ _buf \in Seq(Plain) /\ Tells(_buf, held)
         /\ _wave \in [Enabled -> Waves]

RingOK == AllClosed(ring) /\ owed = Items(ring) /\ open = FALSE /\ gap \in Gaps

TimeOK == bare \in BOOLEAN /\ (bare \/ (Even(_buf) /\ OnTime(gap, ring)))

KnockOK == CapturesKeep => owed \in Seq(Promised) /\ held \in Seq(Promised)

\* _buf holds no escape and tells what was asked for; each block in the ring
\* can be read by itself; and unless a write was left without its delay, _buf
\* and the ring can be read one behind the other without waiting.
IInv == BufOK /\ RingOK /\ TimeOK /\ KnockOK

-----------------------------------------------------------------------------
(* Induction: the least counterexample *)

\* A set of numbers that has zero, and the successor of each of its members,
\* has them all.
LEMMA Upwards ==
    ASSUME NEW I, 0 \in I, \A k \in Nat : k \in I => k + 1 \in I
    PROVE  \A k \in Nat : k \in I
  <1> DEFINE T == {k \in Nat : k \notin I}
  <1>1. SUFFICES ASSUME T # {} PROVE FALSE
    OBVIOUS
  <1>2. T \subseteq Nat
    OBVIOUS
  <1> HIDE DEF T
  <1>3. PICK x \in T : \A y \in T : ~(<<y, x>> \in OpToRel(<, Nat))
    BY <1>1, <1>2, NatLessThanWellFounded, WFMin
  <1>4. x \in Nat /\ x \notin I /\ x # 0
    BY <1>3 DEF T
  <1>5. x - 1 \in T
    <2>1. x - 1 \in Nat
      BY <1>4
    <2>2. CASE x - 1 \in I
      BY <1>4, <2>1, <2>2
    <2> QED
      BY <2>1, <2>2 DEF T
  <1>6. <<x - 1, x>> \in Nat \X Nat /\ <<x - 1, x>>[1] < <<x - 1, x>>[2]
    BY <1>4
  <1>7. <<x - 1, x>> \in OpToRel(<, Nat)
    BY <1>6 DEF OpToRel
  <1> QED
    BY <1>3, <1>5, <1>7

\* The same up to n.
LEMMA UpTo ==
    ASSUME NEW n \in Nat, NEW I, 0 \in I, \A k \in 1 .. n : k - 1 \in I => k \in I
    PROVE  \A k \in 0 .. n : k \in I
  <1> DEFINE J == {k \in Nat : k <= n => k \in I}
  <1>1. 0 \in J
    OBVIOUS
  <1>2. ASSUME NEW k \in Nat, k \in J PROVE k + 1 \in J
    <2>1. CASE k + 1 <= n
      <3>1. k + 1 \in 1 .. n /\ k \in I /\ (k + 1) - 1 = k
        BY <1>2, <2>1
      <3> QED
        BY <3>1
    <2>2. CASE ~(k + 1 <= n)
      BY <2>2
    <2> QED
      BY <2>1, <2>2
  <1> HIDE DEF J
  <1>3. \A k \in Nat : k \in J
    BY <1>1, <1>2, Upwards
  <1> QED
    BY <1>3 DEF J

\* The states of a machine that starts in s and takes a step for each of w.
HasRun(S, step, s, w) ==
    \E f \in [0 .. Len(w) -> S] :
        f[0] = s /\ \A k \in 1 .. Len(w) : f[k] = step[<<f[k - 1], w[k]>>]

\* A recursion along a sequence has a solution.
LEMMA Recursion ==
    ASSUME NEW S, NEW W, NEW step \in [S \X W -> S], NEW s \in S, NEW w \in Seq(W)
    PROVE  HasRun(S, step, s, w)
  <1> DEFINE Sol(n, f) == f[0] = s /\ \A k \in 1 .. n : f[k] = step[<<f[k - 1], w[k]>>]
             I == {n \in Nat : \E f \in [0 .. n -> S] : Sol(n, f)}
  <1>0. Len(w) \in Nat /\ \A k \in 1 .. Len(w) : w[k] \in W
    OBVIOUS
  <1>1. 0 \in I
    <2>1. [k \in 0 .. 0 |-> s] \in [0 .. 0 -> S] /\ Sol(0, [k \in 0 .. 0 |-> s])
      OBVIOUS
    <2> QED
      BY <2>1
  <1>2. ASSUME NEW n \in 1 .. Len(w), n - 1 \in I PROVE n \in I
    <2>1. PICK f \in [0 .. n - 1 -> S] : Sol(n - 1, f)
      BY <1>2
    <2> DEFINE x == step[<<f[n - 1], w[n]>>]
               g == [k \in 0 .. n |-> IF k <= n - 1 THEN f[k] ELSE x]
    <2>2. n \in Nat /\ n - 1 \in 0 .. n - 1
      OBVIOUS
    <2>3. x \in S
      <3>1. f[n - 1] \in S /\ w[n] \in W
        BY <1>0, <2>1, <2>2
      <3>2. <<f[n - 1], w[n]>> \in S \X W
        BY <3>1
      <3> QED
        BY <3>2
    <2>4. g \in [0 .. n -> S]
      <3> HIDE DEF x
      <3> QED
        BY <2>1, <2>3
    <2>5. g[0] = s
      BY <2>1, <2>2
    <2>6. ASSUME NEW k \in 1 .. n PROVE g[k] = step[<<g[k - 1], w[k]>>]
      <3>1. g[k - 1] = f[k - 1]
        <4> k - 1 \in 0 .. n /\ k - 1 <= n - 1
          BY <2>6
        <4> QED
          OBVIOUS
      <3>2. CASE k <= n - 1
        <4>1. k \in 1 .. n - 1
          BY <2>6, <3>2
        <4>2. g[k] = f[k]
          BY <3>2
        <4> QED
          BY <2>1, <3>1, <4>1, <4>2
      <3>3. CASE k = n
        <4>1. g[k] = x
          BY <2>2, <3>3
        <4> QED
          BY <3>1, <3>3, <4>1
      <3> QED
        BY <3>2, <3>3
    <2> HIDE DEF g
    <2>7. Sol(n, g)
      BY <2>5, <2>6
    <2> QED
      BY <2>2, <2>4, <2>7
  <1> HIDE DEF I
  <1>3. \A n \in 0 .. Len(w) : n \in I
    BY <1>0, <1>1, <1>2, UpTo
  <1>4. Len(w) \in I
    BY <1>0, <1>3
  <1> QED
    BY <1>4 DEF I, HasRun

-----------------------------------------------------------------------------
(* Reading, word by word *)

Readers == [open : BOOLEAN, gap : 0 .. MIN_CYCLES, items : Seq(Commands), early : BOOLEAN]

\* What each kind of word does to a reader.
LEMMA ReadEscaped ==
    ASSUME NEW r, NEW w, r.open
    PROVE  ReadWord(r, w) = Escaped(r, w)
  BY Zenon DEF ReadWord

\* Reading, one word at a time: the escape itself.
LEMMA ReadEscape ==
    ASSUME NEW r, ~r.open
    PROVE  ReadWord(r, FILLER) = [r EXCEPT !.open = TRUE]
  BY Zenon DEF ReadWord

\* The two halves of a word are bytes.
LEMMA WordParts ==
    ASSUME NEW w \in Words
    PROVE  w[1] \in Nat /\ w[2] \in Nat /\ w[1] \in Bytes /\ w[2] \in Bytes
  BY DEF Words, Bytes

\* The time a delay takes.
Span(w) == IF w[1] = 238 THEN w[2] ELSE 256 * w[2]

\* A delay.
LEMMA ReadDelay ==
    ASSUME NEW r, NEW w \in Words, w[1] = 238 \/ w[1] = 239, ~r.open
    PROVE  Span(w) \in Nat /\ ReadWord(r, w) = Passed(r, Span(w))
  <1>1. w # FILLER /\ (w[1] = 239 => w[1] # 238)
    BY DEF FILLER
  <1>2. ReadWord(r, w) = Passed(r, Span(w))
    <2>1. CASE w[1] = 238
      BY <1>1, <2>1, Zenon DEF ReadWord, Span
    <2>2. CASE w[1] = 239
      BY <1>1, <2>2, Zenon DEF ReadWord, Span
    <2> QED
      BY <2>1, <2>2
  <1>3. Span(w) \in Nat
    <2>1. w[2] \in Nat /\ 256 * w[2] \in Nat
      BY WordParts
    <2> QED
      BY <2>1, Zenon DEF Span
  <1> QED
    BY <1>2, <1>3

\* A register write.
LEMMA ReadWritten ==
    ASSUME NEW r, NEW w \in Words, w[1] < 128, ~r.open
    PROVE  ReadWord(r, w) = Written(r, w)
  <1>1. w # FILLER /\ w[1] # 238 /\ w[1] # 239
    BY DEF FILLER
  <1> QED
    BY <1>1, Zenon DEF ReadWord

\* A command the device does not know.
LEMMA ReadOther ==
    ASSUME NEW r, NEW w, ~r.open, w # FILLER, w[1] # 238, w[1] # 239, ~(w[1] < 128)
    PROVE  ReadWord(r, w) = r
  BY Zenon DEF ReadWord

\* What reads is a reader still, whatever it reads.
LEMMA PassedType ==
    ASSUME NEW r \in Readers, NEW n \in Nat
    PROVE  Passed(r, n) \in Readers
  <1> DEFINE g == IF r.gap + n > MIN_CYCLES THEN MIN_CYCLES ELSE r.gap + n
  <1>1. g \in 0 .. MIN_CYCLES
    BY DEF MIN_CYCLES, Readers
  <1>2. Passed(r, n) = [r EXCEPT !.gap = g]
    BY DEF Passed
  <1> HIDE DEF g
  <1> QED
    BY <1>1, <1>2 DEF Readers

\* After a write.
LEMMA WrittenType ==
    ASSUME NEW r \in Readers, NEW w \in Words
    PROVE  Written(r, w) \in Readers
  <1> DEFINE t == <<w[1] \div 32, w[1] % 32, w[2]>>
             i == Append(r.items, t)
             e == r.early \/ r.gap < MIN_CYCLES
  <1>1. t \in Commands
    <2> DEFINE c == w[1]
               d == w[2]
    <2>1. c \in Nat /\ d \in Nat
      BY WordParts
    <2> HIDE DEF c, d
    <2>2. c \div 32 \in Nat /\ c % 32 \in Nat
      BY <2>1
    <2>3. <<c \div 32, c % 32, d>> \in Commands
      BY <2>1, <2>2 DEF Commands
    <2> QED
      BY <2>3 DEF c, d
  <1>2. Written(r, w) = [r EXCEPT !.items = i, !.early = e, !.gap = 0]
    BY DEF Written
  <1> HIDE DEF t
  <1>3. i \in Seq(Commands)
    BY <1>1 DEF Readers
  <1>4. e \in BOOLEAN
    OBVIOUS
  <1> HIDE DEF i, e
  <1>5. 0 \in 0 .. MIN_CYCLES
    BY DEF MIN_CYCLES
  <1> QED
    BY <1>2, <1>3, <1>4, <1>5 DEF Readers

\* After the payload of an escape.
LEMMA EscapedType ==
    ASSUME NEW r \in Readers, NEW w \in Words
    PROVE  Escaped(r, w) \in Readers
  <1> DEFINE i == IF w[1] = 0 THEN Append(r.items, <<w[2]>>) ELSE r.items
  <1>1. <<w[2]>> \in Commands
    <2> DEFINE d == w[2]
    <2>1. d \in Nat
      BY WordParts
    <2> HIDE DEF d
    <2>2. <<d>> \in Commands
      BY <2>1 DEF Commands
    <2> QED
      BY <2>2 DEF d
  <1>2. i \in Seq(Commands)
    BY <1>1 DEF Readers
  <1>3. Escaped(r, w) = [r EXCEPT !.open = FALSE, !.items = i]
    BY DEF Escaped
  <1> HIDE DEF i
  <1> QED
    BY <1>2, <1>3 DEF Readers

\* After any word.
LEMMA ReadWordType ==
    ASSUME NEW r \in Readers, NEW w \in Words
    PROVE  ReadWord(r, w) \in Readers
  <1>1. CASE r.open
    BY <1>1, ReadEscaped, EscapedType
  <1>2. CASE ~r.open /\ w = FILLER
    <2>1. ReadWord(r, w) = [r EXCEPT !.open = TRUE]
      BY <1>2, ReadEscape
    <2> QED
      BY <2>1 DEF Readers
  <1>3. CASE ~r.open /\ (w[1] = 238 \/ w[1] = 239)
    <2>1. Span(w) \in Nat /\ ReadWord(r, w) = Passed(r, Span(w))
      BY <1>3, ReadDelay, Zenon
    <2> QED
      BY <2>1, PassedType, Zenon
  <1>4. CASE ~r.open /\ w[1] < 128
    BY <1>4, ReadWritten, WrittenType
  <1>5. CASE ~r.open /\ w # FILLER /\ w[1] # 238 /\ w[1] # 239 /\ ~(w[1] < 128)
    BY <1>5, ReadOther
  <1> QED
    BY <1>1, <1>2, <1>3, <1>4, <1>5, Zenon

\* Reading is what its definition says.
LEMMA ReadingSteps ==
    ASSUME NEW r \in Readers, NEW w \in Seq(Words)
    PROVE  /\ Reading(r, w) \in [0 .. Len(w) -> Readers]
           /\ Reading(r, w)[0] = r
           /\ \A k \in 1 .. Len(w) : Reading(r, w)[k] = ReadWord(Reading(r, w)[k - 1], w[k])
  <1> DEFINE step == [x \in Readers \X Words |-> ReadWord(x[1], x[2])]
             F(f) == [k \in 0 .. Len(w) |-> IF k = 0 THEN r ELSE ReadWord(f[k - 1], w[k])]
             G(f) == [k \in 0 .. Len(w) |-> IF k = 0 THEN r
                        ELSE CHOOSE s \in {ReadWord(q, w[k]) : q \in {f[k - 1]}} : TRUE]
  <1>0. Len(w) \in Nat /\ \A k \in 1 .. Len(w) : w[k] \in Words
    OBVIOUS
  <1>1. step \in [Readers \X Words -> Readers]
    BY ReadWordType
  <1>1a. \A x \in Readers, y \in Words : step[<<x, y>>] = ReadWord(x, y)
    OBVIOUS
  <1> HIDE DEF step
  <1>2. PICK f \in [0 .. Len(w) -> Readers] :
            f[0] = r /\ \A k \in 1 .. Len(w) : f[k] = step[<<f[k - 1], w[k]>>]
    <2>1. HasRun(Readers, step, r, w)
      BY <1>1, Recursion
    <2> QED
      BY <2>1 DEF HasRun
  <1>3. \A k \in 1 .. Len(w) : f[k] = ReadWord(f[k - 1], w[k])
    <2> TAKE k \in 1 .. Len(w)
    <2>1. f[k - 1] \in Readers /\ w[k] \in Words
      BY <1>0, <1>2
    <2> QED
      BY <1>1a, <1>2, <2>1
  <1>4. f = F(f)
    BY <1>0, <1>2, <1>3
  <1>5. Reading(r, w) = CHOOSE g : g = F(g)
    <2>1. Reading(r, w) = CHOOSE g : g = G(g)
      BY DEF Reading
    <2>2. ASSUME NEW g PROVE G(g) = F(g)
      <3> DEFINE a(k) == CHOOSE s \in {ReadWord(q, w[k]) : q \in {g[k - 1]}} : TRUE
      <3>1. ASSUME NEW k PROVE a(k) = ReadWord(g[k - 1], w[k])
        OBVIOUS
      <3> HIDE DEF a
      <3>2. F(g) = [k \in 0 .. Len(w) |-> IF k = 0 THEN r ELSE a(k)]
        BY <3>1
      <3> QED
        BY <3>2 DEF a
    <2> HIDE DEF F, G
    <2> QED
      BY <2>1, <2>2
  <1>6. Reading(r, w) = F(Reading(r, w))
    <2> HIDE DEF F
    <2> QED
      BY <1>4, <1>5
  <1> DEFINE R == Reading(r, w)
             I == {k \in Nat : k <= Len(w) => R[k] = f[k]}
  <1> HIDE DEF R
  <1>7. R = F(R)
    BY <1>6 DEF R
  <1>8. R[0] = r /\ \A k \in 1 .. Len(w) : R[k] = ReadWord(R[k - 1], w[k])
    BY <1>0, <1>7
  <1>9. 0 \in I
    BY <1>2, <1>8
  <1>10. ASSUME NEW k \in 1 .. Len(w), k - 1 \in I PROVE k \in I
    BY <1>3, <1>8, <1>10
  <1> HIDE DEF I
  <1>11. \A k \in 0 .. Len(w) : k \in I
    BY <1>0, <1>9, <1>10, UpTo
  <1>12. \A k \in 0 .. Len(w) : R[k] = f[k]
    BY <1>11 DEF I
  <1>13. R \in [0 .. Len(w) -> Readers]
    <2>1. \A k \in 0 .. Len(w) : R[k] \in Readers
      BY <1>2, <1>12
    <2>2. R = [k \in 0 .. Len(w) |-> R[k]]
      BY <1>7
    <2> QED
      BY <2>1, <2>2
  <1> QED
    BY <1>8, <1>13 DEF R

\* After any words.
LEMMA ReadFromType ==
    ASSUME NEW r \in Readers, NEW w \in Seq(Words)
    PROVE  ReadFrom(r, w) \in Readers
  BY ReadingSteps DEF ReadFrom

\* No words, one word.
LEMMA ReadNothing ==
    ASSUME NEW r \in Readers
    PROVE  ReadFrom(r, <<>>) = r
  <1>1. <<>> \in Seq(Words) /\ Len(<<>>) = 0
    OBVIOUS
  <1> QED
    BY <1>1, ReadingSteps DEF ReadFrom

\* One word is read as ReadWord says.
LEMMA ReadOne ==
    ASSUME NEW r \in Readers, NEW x \in Words
    PROVE  ReadFrom(r, <<x>>) = ReadWord(r, x)
  <1>1. <<x>> \in Seq(Words) /\ Len(<<x>>) = 1 /\ <<x>>[1] = x /\ 1 \in 1 .. 1 /\ 1 - 1 = 0
    OBVIOUS
  <1>2. Reading(r, <<x>>)[1] = ReadWord(Reading(r, <<x>>)[1 - 1], <<x>>[1])
    BY <1>1, ReadingSteps
  <1>3. Reading(r, <<x>>)[0] = r
    BY <1>1, ReadingSteps
  <1> QED
    BY <1>1, <1>2, <1>3 DEF ReadFrom

\* What follows is read from where the reader has come to.
LEMMA ReadConcat ==
    ASSUME NEW r \in Readers, NEW a \in Seq(Words), NEW b \in Seq(Words)
    PROVE  ReadFrom(r, a \o b) = ReadFrom(ReadFrom(r, a), b)
  <1> DEFINE c == a \o b
             m == ReadFrom(r, a)
             A == Reading(r, a)
             B == Reading(m, b)
             C == Reading(r, c)
  <1>1. /\ c \in Seq(Words) /\ Len(c) = Len(a) + Len(b) /\ Len(a) \in Nat /\ Len(b) \in Nat
        /\ \A k \in 1 .. Len(a) : c[k] = a[k]
        /\ \A k \in 1 .. Len(b) : c[Len(a) + k] = b[k]
    BY ConcatProperties
  <1> HIDE DEF c
  <1>2. /\ A[0] = r /\ m = A[Len(a)]
        /\ \A k \in 1 .. Len(a) : A[k] = ReadWord(A[k - 1], a[k])
    BY ReadingSteps DEF ReadFrom
  <1>3. C[0] = r /\ \A k \in 1 .. Len(c) : C[k] = ReadWord(C[k - 1], c[k])
    BY <1>1, ReadingSteps
  <1>4. m \in Readers
    BY ReadFromType
  <1> HIDE DEF m
  <1>5. B[0] = m /\ \A k \in 1 .. Len(b) : B[k] = ReadWord(B[k - 1], b[k])
    BY <1>4, ReadingSteps
  <1> HIDE DEF A, B, C
  <1>6. C[Len(a)] = m
    <2> DEFINE I == {k \in 0 .. Len(a) : C[k] = A[k]}
    <2>1. 0 \in I
      BY <1>1, <1>2, <1>3
    <2>2. ASSUME NEW k \in 1 .. Len(a), k - 1 \in I PROVE k \in I
      <3>1. k \in 1 .. Len(c) /\ c[k] = a[k]
        BY <1>1
      <3> QED
        BY <1>2, <1>3, <2>2, <3>1
    <2> HIDE DEF I
    <2>3. \A k \in 0 .. Len(a) : k \in I
      BY <1>1, <2>1, <2>2, UpTo
    <2>4. Len(a) \in I
      BY <1>1, <2>3
    <2> QED
      BY <1>2, <2>4 DEF I
  <1>7. C[Len(a) + Len(b)] = B[Len(b)]
    <2> DEFINE I == {k \in 0 .. Len(b) : C[Len(a) + k] = B[k]}
    <2>1. 0 \in I
      BY <1>1, <1>5, <1>6
    <2>2. ASSUME NEW k \in 1 .. Len(b), k - 1 \in I PROVE k \in I
      <3>1. /\ Len(a) + k \in 1 .. Len(c) /\ c[Len(a) + k] = b[k]
            /\ (Len(a) + k) - 1 = Len(a) + (k - 1)
        BY <1>1
      <3>2. C[Len(a) + k] = ReadWord(C[Len(a) + (k - 1)], b[k])
        BY <1>3, <3>1
      <3>3. C[Len(a) + (k - 1)] = B[k - 1]
        BY <2>2
      <3> QED
        BY <1>5, <3>2, <3>3
    <2> HIDE DEF I
    <2>3. \A k \in 0 .. Len(b) : k \in I
      BY <1>1, <2>1, <2>2, UpTo
    <2>4. Len(b) \in I
      BY <1>1, <2>3
    <2> QED
      BY <2>4 DEF I
  <1> QED
    BY <1>1, <1>7 DEF ReadFrom, c, m, B, C

\* What a word adds to the commands read, and whether it comes too early.
Adds(o, w) ==
    IF o THEN IF w[1] = 0 THEN <<<<w[2]>>>> ELSE <<>>
    ELSE IF w[1] < 128 THEN <<<<w[1] \div 32, w[1] % 32, w[2]>>>> ELSE <<>>

Early(o, g, w) == ~o /\ w[1] < 128 /\ g < MIN_CYCLES

\* What a word adds is commands.
LEMMA AddsType ==
    ASSUME NEW o \in BOOLEAN, NEW w \in Words
    PROVE  Adds(o, w) \in Seq(Commands)
  <1> DEFINE c == w[1]
             d == w[2]
  <1>1. c \in Nat /\ d \in Nat
    BY WordParts
  <1>2. Adds(o, w) = IF o THEN IF c = 0 THEN <<<<d>>>> ELSE <<>>
                     ELSE IF c < 128 THEN <<<<c \div 32, c % 32, d>>>> ELSE <<>>
    BY DEF Adds
  <1> HIDE DEF c, d
  <1>3. c \div 32 \in Nat /\ c % 32 \in Nat
    BY <1>1
  <1>4. <<d>> \in Commands /\ <<c \div 32, c % 32, d>> \in Commands
    BY <1>1, <1>3 DEF Commands
  <1>5. /\ <<<<d>>>> \in Seq(Commands) /\ <<<<c \div 32, c % 32, d>>>> \in Seq(Commands)
        /\ <<>> \in Seq(Commands)
    BY <1>4
  <1> QED
    BY <1>2, <1>5, Zenon

\* Append, as a concatenation.
LEMMA AppendsOne ==
    ASSUME NEW s \in Seq(Commands), NEW x \in Commands
    PROVE  Append(s, x) = s \o <<x>>
  BY AppendIsConcat

\* A word read, field by field.
LEMMA WordFields ==
    ASSUME NEW r \in Readers, NEW w \in Words
    PROVE  /\ ReadWord(r, w).open <=> ~r.open /\ w = FILLER
           /\ ReadWord(r, w).items = r.items \o Adds(r.open, w)
           /\ ReadWord(r, w).early <=> r.early \/ Early(r.open, r.gap, w)
           /\ r.open \/ w = FILLER => ReadWord(r, w).gap = r.gap
  <1>0. /\ r.items \in Seq(Commands) /\ r.items \o <<>> = r.items
        /\ r.open \in BOOLEAN /\ r.early \in BOOLEAN
    BY DEF Readers
  <1>1. CASE r.open
    <2>1. /\ ReadWord(r, w) = Escaped(r, w) /\ Escaped(r, w).gap = r.gap
          /\ Escaped(r, w).open = FALSE /\ Escaped(r, w).early = r.early
          /\ Escaped(r, w).items = IF w[1] = 0 THEN Append(r.items, <<w[2]>>) ELSE r.items
      BY <1>1, ReadEscaped DEF Escaped, Readers
    <2>2. <<w[2]>> \in Commands
      <3> DEFINE d == w[2]
      <3>1. d \in Nat
        BY WordParts
      <3> HIDE DEF d
      <3>2. <<d>> \in Commands
        BY <3>1 DEF Commands
      <3> QED
        BY <3>2 DEF d
    <2>3. Append(r.items, <<w[2]>>) = r.items \o <<<<w[2]>>>>
      BY <1>0, <2>2, AppendsOne
    <2> QED
      BY <1>0, <1>1, <2>1, <2>3, Zenon DEF Adds, Early
  <1>2. CASE ~r.open /\ w = FILLER
    <2>1. /\ ReadWord(r, w) = [r EXCEPT !.open = TRUE]
          /\ ~(w[1] < 128)
      BY <1>2, ReadEscape DEF FILLER
    <2>2. /\ ReadWord(r, w).open = TRUE /\ ReadWord(r, w).items = r.items
          /\ ReadWord(r, w).gap = r.gap /\ ReadWord(r, w).early = r.early
      BY <2>1 DEF Readers
    <2> QED
      BY <1>0, <1>2, <2>1, <2>2, Zenon DEF Adds, Early
  <1>3. CASE ~r.open /\ (w[1] = 238 \/ w[1] = 239)
    <2>1. ReadWord(r, w) = Passed(r, Span(w)) /\ w # FILLER
      BY <1>3, ReadDelay DEF FILLER
    <2>2. /\ Passed(r, Span(w)).open = r.open /\ Passed(r, Span(w)).items = r.items
          /\ Passed(r, Span(w)).early = r.early
      BY DEF Passed, Readers
    <2>3. ~(w[1] < 128)
      BY <1>3
    <2> QED
      BY <1>0, <1>3, <2>1, <2>2, <2>3, Zenon DEF Adds, Early
  <1>4. CASE ~r.open /\ w[1] < 128
    <2> DEFINE t == <<w[1] \div 32, w[1] % 32, w[2]>>
    <2>1. ReadWord(r, w) = Written(r, w) /\ w # FILLER
      BY <1>4, ReadWritten DEF FILLER
    <2>2. /\ Written(r, w).open = r.open
          /\ Written(r, w).items = Append(r.items, t)
          /\ Written(r, w).early <=> (r.early \/ r.gap < MIN_CYCLES)
      BY Zenon DEF Written, Readers
    <2>3. Adds(r.open, w) = <<t>>
      BY <1>4, Zenon DEF Adds
    <2>4. t \in Commands
      <3> DEFINE c == w[1]
                 d == w[2]
      <3>1. c \in Nat /\ d \in Nat
        BY WordParts
      <3>2. t = <<c \div 32, c % 32, d>>
        OBVIOUS
      <3> HIDE DEF c, d, t
      <3>3. c \div 32 \in Nat /\ c % 32 \in Nat
        BY <3>1
      <3> QED
        BY <3>1, <3>2, <3>3 DEF Commands
    <2> HIDE DEF t
    <2>5. Append(r.items, t) = r.items \o <<t>>
      BY <1>0, <2>4, AppendsOne
    <2> QED
      BY <1>0, <1>4, <2>1, <2>2, <2>3, <2>5, Zenon DEF Early
  <1>5. CASE ~r.open /\ w # FILLER /\ w[1] # 238 /\ w[1] # 239 /\ ~(w[1] < 128)
    <2>1. ReadWord(r, w) = r
      BY <1>5, ReadOther
    <2>2. Adds(r.open, w) = <<>>
      BY <1>5, Zenon DEF Adds
    <2>3. ~Early(r.open, r.gap, w)
      BY <1>5, Zenon DEF Early
    <2>4. r.items = r.items \o Adds(r.open, w)
      BY <1>0, <2>2
    <2>5. ~ReadWord(r, w).open
      BY <1>5, <2>1, Zenon
    <2>6. ReadWord(r, w).items = r.items \o Adds(r.open, w)
      BY <2>1, <2>4, Zenon
    <2>7. ReadWord(r, w).early <=> r.early \/ Early(r.open, r.gap, w)
      BY <2>1, <2>3, Zenon
    <2> QED
      BY <1>5, <2>5, <2>6, <2>7, Zenon
  <1> QED
    BY <1>1, <1>2, <1>3, <1>4, <1>5, Zenon

\* The time a word leaves depends on the time before it.
LEMMA WordGap ==
    ASSUME NEW r \in Readers, NEW s \in Readers, NEW w \in Words,
           r.open <=> s.open, r.gap = s.gap
    PROVE  ReadWord(r, w).gap = ReadWord(s, w).gap
  <1>1. CASE r.open \/ w = FILLER
    BY <1>1, WordFields, Zenon
  <1>2. CASE ~r.open /\ (w[1] = 238 \/ w[1] = 239)
    <2>1. Passed(r, Span(w)).gap = Passed(s, Span(w)).gap
      BY DEF Passed, Readers
    <2>2. ~s.open
      BY <1>2
    <2>3. ReadWord(r, w) = Passed(r, Span(w)) /\ ReadWord(s, w) = Passed(s, Span(w))
      BY <1>2, <2>2, ReadDelay, Zenon
    <2> QED
      BY <2>1, <2>3
  <1>3. CASE ~r.open /\ w[1] < 128
    <2>1. Written(r, w).gap = 0 /\ Written(s, w).gap = 0
      BY Zenon DEF Written, Readers
    <2> QED
      BY <1>3, <2>1, ReadWritten, Zenon
  <1>4. CASE ~r.open /\ w # FILLER /\ w[1] # 238 /\ w[1] # 239 /\ ~(w[1] < 128)
    <2>1. ReadWord(r, w) = r
      BY <1>4, ReadOther
    <2>2. ReadWord(s, w) = s
      <3>1. ~s.open
        BY <1>4
      <3> QED
        BY <1>4, <3>1, ReadOther
    <2> QED
      BY <2>1, <2>2
  <1> QED
    BY <1>1, <1>2, <1>3, <1>4, Zenon

-----------------------------------------------------------------------------
(* Reading on from any reader *)

\* What was read before does not change what is read.
LEMMA SameItems ==
    ASSUME NEW r \in Readers, NEW s \in Readers, NEW w \in Seq(Words),
           NEW i \in Seq(Commands), r.open <=> s.open, r.items = i \o s.items
    PROVE  /\ ReadFrom(r, w).open <=> ReadFrom(s, w).open
           /\ ReadFrom(r, w).items = i \o ReadFrom(s, w).items
  <1> DEFINE R == Reading(r, w)
             S == Reading(s, w)
             I == {k \in 0 .. Len(w) : /\ R[k].open <=> S[k].open
                                       /\ R[k].items = i \o S[k].items}
  <1>1. /\ R \in [0 .. Len(w) -> Readers] /\ R[0] = r
        /\ \A k \in 1 .. Len(w) : R[k] = ReadWord(R[k - 1], w[k])
    BY ReadingSteps
  <1>2. /\ S \in [0 .. Len(w) -> Readers] /\ S[0] = s
        /\ \A k \in 1 .. Len(w) : S[k] = ReadWord(S[k - 1], w[k])
    BY ReadingSteps
  <1>3. Len(w) \in Nat /\ \A k \in 1 .. Len(w) : w[k] \in Words
    OBVIOUS
  <1> HIDE DEF R, S
  <1>4. 0 \in I
    BY <1>1, <1>2, <1>3
  <1>5. ASSUME NEW k \in 1 .. Len(w), k - 1 \in I PROVE k \in I
    <2>1. k - 1 \in 0 .. Len(w) /\ k \in 0 .. Len(w)
      BY <1>3
    <2> DEFINE x == R[k - 1]
               y == S[k - 1]
               v == w[k]
    <2>2. x \in Readers /\ y \in Readers /\ v \in Words
      BY <1>1, <1>2, <1>3, <2>1
    <2>3. (x.open <=> y.open) /\ x.items = i \o y.items
      BY <1>5
    <2>4. R[k] = ReadWord(x, v) /\ S[k] = ReadWord(y, v)
      BY <1>1, <1>2
    <2> HIDE DEF x, y, v
    <2>5. y.open \in BOOLEAN /\ x.open \in BOOLEAN /\ y.items \in Seq(Commands)
      BY <2>2 DEF Readers
    <2>6. x.open = y.open
      BY <2>3, <2>5
    <2>7. Adds(x.open, v) = Adds(y.open, v) /\ Adds(y.open, v) \in Seq(Commands)
      BY <2>2, <2>5, <2>6, AddsType
    <2>8. ReadWord(x, v).items = i \o ReadWord(y, v).items
      <3>1. /\ ReadWord(x, v).items = x.items \o Adds(x.open, v)
            /\ ReadWord(y, v).items = y.items \o Adds(y.open, v)
        BY <2>2, WordFields, Zenon
      <3>2. (i \o y.items) \o Adds(y.open, v) = i \o (y.items \o Adds(y.open, v))
        <4> DEFINE u == y.items
                   z == Adds(y.open, v)
        <4>1. u \in Seq(Commands) /\ z \in Seq(Commands)
          BY <2>5, <2>7
        <4> HIDE DEF u, z
        <4>2. (i \o u) \o z = i \o (u \o z)
          BY <4>1, ConcatAssociative, SMTT(20)
        <4> QED
          BY <4>2 DEF u, z
      <3> QED
        BY <2>3, <2>7, <3>1, <3>2
    <2>9. ReadWord(x, v).open <=> ReadWord(y, v).open
      BY <2>2, <2>6, WordFields, Zenon
    <2> QED
      BY <2>1, <2>4, <2>8, <2>9
  <1> HIDE DEF I
  <1>6. \A k \in 0 .. Len(w) : k \in I
    BY <1>3, <1>4, <1>5, UpTo
  <1>7. Len(w) \in I
    BY <1>3, <1>6
  <1> QED
    BY <1>7 DEF I, R, S, ReadFrom

\* Nor does it change the time between the writes.
LEMMA SameTimes ==
    ASSUME NEW r \in Readers, NEW s \in Readers, NEW w \in Seq(Words),
           NEW e \in BOOLEAN, r.open <=> s.open, r.gap = s.gap, r.early <=> e \/ s.early
    PROVE  /\ ReadFrom(r, w).gap = ReadFrom(s, w).gap
           /\ ReadFrom(r, w).early <=> e \/ ReadFrom(s, w).early
  <1> DEFINE R == Reading(r, w)
             S == Reading(s, w)
             I == {k \in 0 .. Len(w) : /\ R[k].open <=> S[k].open
                                       /\ R[k].gap = S[k].gap
                                       /\ R[k].early <=> e \/ S[k].early}
  <1>1. /\ R \in [0 .. Len(w) -> Readers] /\ R[0] = r
        /\ \A k \in 1 .. Len(w) : R[k] = ReadWord(R[k - 1], w[k])
    BY ReadingSteps
  <1>2. /\ S \in [0 .. Len(w) -> Readers] /\ S[0] = s
        /\ \A k \in 1 .. Len(w) : S[k] = ReadWord(S[k - 1], w[k])
    BY ReadingSteps
  <1>3. Len(w) \in Nat /\ \A k \in 1 .. Len(w) : w[k] \in Words
    OBVIOUS
  <1> HIDE DEF R, S
  <1>4. 0 \in I
    BY <1>1, <1>2, <1>3
  <1>5. ASSUME NEW k \in 1 .. Len(w), k - 1 \in I PROVE k \in I
    <2>1. k - 1 \in 0 .. Len(w) /\ k \in 0 .. Len(w)
      BY <1>3
    <2> DEFINE x == R[k - 1]
               y == S[k - 1]
               v == w[k]
    <2>2. x \in Readers /\ y \in Readers /\ v \in Words
      BY <1>1, <1>2, <1>3, <2>1
    <2>3. (x.open <=> y.open) /\ x.gap = y.gap /\ (x.early <=> e \/ y.early)
      BY <1>5
    <2>4. R[k] = ReadWord(x, v) /\ S[k] = ReadWord(y, v)
      BY <1>1, <1>2
    <2> HIDE DEF x, y, v
    <2>5. ReadWord(x, v).gap = ReadWord(y, v).gap
      BY <2>2, <2>3, WordGap, Zenon
    <2>6. ReadWord(x, v).open <=> ReadWord(y, v).open
      BY <2>2, <2>3, WordFields, Zenon
    <2>7. ReadWord(x, v).early <=> e \/ ReadWord(y, v).early
      BY <2>2, <2>3, WordFields, Zenon DEF Early
    <2> QED
      BY <2>1, <2>4, <2>5, <2>6, <2>7, Zenon
  <1> HIDE DEF I
  <1>6. \A k \in 0 .. Len(w) : k \in I
    BY <1>3, <1>4, <1>5, UpTo
  <1>7. Len(w) \in I
    BY <1>3, <1>6
  <1> QED
    BY <1>7 DEF I, R, S, ReadFrom

\* The reader there is at first.
LEMMA StartType ==
    ASSUME NEW o \in BOOLEAN, NEW g \in Gaps
    PROVE  /\ Start(o, g) \in Readers
           /\ Start(o, g).open = o /\ Start(o, g).gap = g
           /\ Start(o, g).items = <<>> /\ ~Start(o, g).early
  BY DEF Start, Readers, Gaps

\* What is read, by its fields.
LEMMA ReadType ==
    ASSUME NEW o \in BOOLEAN, NEW g \in Gaps, NEW w \in Seq(Words)
    PROVE  /\ Read(o, g, w) \in Readers
           /\ Read(o, g, w).open \in BOOLEAN /\ Read(o, g, w).early \in BOOLEAN
           /\ Read(o, g, w).gap \in Gaps /\ Read(o, g, w).items \in Seq(Commands)
  <1>1. Read(o, g, w) \in Readers
    BY StartType, ReadFromType DEF Read
  <1> QED
    BY <1>1 DEF Readers, Gaps

\* What is read does not depend on the time since the last write.
LEMMA AnyGap ==
    ASSUME NEW g \in Gaps, NEW h \in Gaps, NEW w \in Seq(Words)
    PROVE  /\ Read(FALSE, g, w).open <=> Read(FALSE, h, w).open
           /\ Read(FALSE, g, w).items = Read(FALSE, h, w).items
  <1> DEFINE r == Start(FALSE, g)
             s == Start(FALSE, h)
  <1>1. /\ r \in Readers /\ s \in Readers /\ (r.open <=> s.open)
        /\ r.items = <<>> /\ s.items = <<>>
    BY StartType, Zenon
  <1> HIDE DEF r, s
  <1>2. <<>> \in Seq(Commands) /\ r.items = <<>> \o s.items
    BY <1>1
  <1>3. ReadFrom(s, w).items \in Seq(Commands)
    BY <1>1, ReadFromType DEF Readers
  <1>4. /\ ReadFrom(r, w).open <=> ReadFrom(s, w).open
        /\ ReadFrom(r, w).items = <<>> \o ReadFrom(s, w).items
    <2> DEFINE e == <<>>
    <2>1. e \in Seq(Commands) /\ r.items = e \o s.items
      BY <1>2
    <2> HIDE DEF e
    <2>2. /\ ReadFrom(r, w).open <=> ReadFrom(s, w).open
          /\ ReadFrom(r, w).items = e \o ReadFrom(s, w).items
      BY <1>1, <2>1, SameItems
    <2> QED
      BY <2>2 DEF e
  <1>5. ReadFrom(r, w).items = ReadFrom(s, w).items
    BY <1>3, <1>4, ConcatEmptySeq
  <1> QED
    BY <1>4, <1>5 DEF Read, r, s

\* Two streams in sequence, the first of which leaves no escape open.
LEMMA Joined ==
    ASSUME NEW g \in Gaps, NEW a \in Seq(Words), NEW b \in Seq(Words),
           ~Read(FALSE, g, a).open
    PROVE  LET m == Read(FALSE, g, a)
               n == Read(FALSE, m.gap, b)
               c == Read(FALSE, g, a \o b)
           IN  /\ c.open <=> n.open
               /\ c.items = m.items \o n.items
               /\ c.gap = n.gap
               /\ c.early <=> m.early \/ n.early
  <1> DEFINE m == Read(FALSE, g, a)
             z == Start(FALSE, m.gap)
             c == Read(FALSE, g, a \o b)
  <1>1. c = ReadFrom(m, b)
    BY StartType, ReadConcat DEF Read
  <1>2. /\ m \in Readers /\ m.gap \in Gaps /\ m.items \in Seq(Commands)
        /\ m.early \in BOOLEAN /\ ~m.open
    BY ReadType
  <1>3. /\ z \in Readers /\ ~z.open /\ z.gap = m.gap /\ z.items = <<>> /\ ~z.early
    BY <1>2, StartType
  <1>4. Read(FALSE, m.gap, b) = ReadFrom(z, b)
    BY DEF Read
  <1> HIDE DEF m, z, c
  <1>5. m.items = m.items \o z.items
    BY <1>2, <1>3, ConcatEmptySeq
  <1>6. /\ ReadFrom(m, b).open <=> ReadFrom(z, b).open
        /\ ReadFrom(m, b).items = m.items \o ReadFrom(z, b).items
    BY <1>2, <1>3, <1>5, SameItems
  <1>7. /\ ReadFrom(m, b).gap = ReadFrom(z, b).gap
        /\ ReadFrom(m, b).early <=> m.early \/ ReadFrom(z, b).early
    BY <1>2, <1>3, SameTimes
  <1> QED
    BY <1>1, <1>4, <1>6, <1>7 DEF m, c

-----------------------------------------------------------------------------
(* Words *)

\* A word that is not the escape command is not the escape.
LEMMA WordPlain ==
    ASSUME NEW c \in 0 .. 254, NEW d \in Nat
    PROVE  word(c, d) \in Plain
  BY DEF word, Plain, Words, Bytes, FILLER

\* Only the last word can leave an escape open.
LEMMA LastCloses ==
    ASSUME NEW g \in Gaps, NEW w \in Seq(Words), w = <<>> \/ w[Len(w)] # FILLER
    PROVE  ~Read(FALSE, g, w).open
  <1> DEFINE r == Start(FALSE, g)
  <1>1. r \in Readers /\ ~r.open
    BY StartType
  <1> HIDE DEF r
  <1>2. Read(FALSE, g, w) = ReadFrom(r, w)
    BY DEF Read, r
  <1>3. CASE w = <<>>
    BY <1>1, <1>2, <1>3, ReadNothing
  <1>4. CASE w # <<>> /\ w[Len(w)] # FILLER
    <2> DEFINE n == Len(w)
               R == Reading(r, w)
    <2>1. n \in 1 .. n /\ n - 1 \in 0 .. n /\ w[n] \in Words
      BY <1>4
    <2>2. R[n - 1] \in Readers /\ R[n] = ReadWord(R[n - 1], w[n])
      BY <1>1, <2>1, ReadingSteps
    <2>3. w[n] # FILLER
      BY <1>4
    <2> HIDE DEF n, R
    <2>4. ~ReadWord(R[n - 1], w[n]).open
      BY <2>1, <2>2, <2>3, WordFields, Zenon
    <2> QED
      BY <1>2, <2>2, <2>4 DEF ReadFrom, n, R
  <1> QED
    BY <1>3, <1>4

\* encode_reg: the device reads the write that was asked for.
LEMMA EncodedReads ==
    ASSUME NEW x \in Writes
    PROVE  /\ Encoded(x) \in Plain /\ Encoded(x)[1] < 128
           /\ encode_reg(x[1], x[2], x[3]) = <<Encoded(x)>>
           /\ Adds(FALSE, Encoded(x)) = <<x>> /\ x \in Commands
  <1>1. PICK c \in 0 .. 3, a \in 0 .. 31, d \in 0 .. 255 : x = <<c, a, d>>
    <2>1. /\ x[1] \in 0 .. 3 /\ x[2] \in 0 .. 31 /\ x[3] \in 0 .. 255
          /\ x = <<x[1], x[2], x[3]>>
      BY DEF Writes, Bytes
    <2> QED
      BY <2>1
  <1> DEFINE b == ((c % 4) * 32) + (a % 32)
  <1>2. b \in 0 .. 127 /\ b % 256 = b /\ b \div 32 = c /\ b % 32 = a /\ d % 256 = d
    OBVIOUS
  <1>3. encode_reg(x[1], x[2], x[3]) = <<<<b % 256, d % 256>>>>
    BY <1>1 DEF encode_reg, word
  <1> HIDE DEF b
  <1>4. Encoded(x) = <<b, d>>
    BY <1>2, <1>3 DEF Encoded
  <1>5. b \in Nat /\ b < 128 /\ d \in Nat /\ b # 255 /\ <<b, d>>[1] = b /\ <<b, d>>[2] = d
    BY <1>2
  <1>6. <<b, d>> \in Plain
    BY <1>2 DEF Plain, Words, Bytes, FILLER
  <1>7. Adds(FALSE, <<b, d>>) = <<<<c, a, d>>>>
    BY <1>2, <1>5, Zenon DEF Adds
  <1>8. <<c, a, d>> \in Commands
    BY DEF Commands
  <1>9. encode_reg(x[1], x[2], x[3]) = <<Encoded(x)>>
    BY <1>2, <1>3, <1>4
  <1>10. Encoded(x) \in Plain /\ Encoded(x)[1] < 128
    BY <1>4, <1>5, <1>6
  <1>11. Adds(FALSE, Encoded(x)) = <<x>>
    BY <1>1, <1>4, <1>7, Zenon
  <1>12. x \in Commands
    BY <1>1, <1>8, Zenon
  <1> QED
    BY <1>9, <1>10, <1>11, <1>12

D8 == word(238, MIN_CYCLES)

\* The shortest delay, which follows every write that is spelled.
LEMMA D8Reads ==
    /\ D8 \in Plain /\ D8[1] = 238 /\ Span(D8) = MIN_CYCLES
    /\ Adds(FALSE, D8) = <<>>
  <1>1. D8 = <<238, 8>>
    BY DEF D8, word, MIN_CYCLES
  <1>2. <<238, 8>> \in Plain /\ <<238, 8>>[1] = 238 /\ <<238, 8>>[2] = 8
    BY DEF Plain, Words, Bytes, FILLER
  <1> QED
    BY <1>1, <1>2 DEF Span, MIN_CYCLES, Adds

\* Time only passes, and eight cycles are enough.
LEMMA PassedGap ==
    ASSUME NEW r \in Readers, NEW n \in Nat
    PROVE  /\ Passed(r, n).gap \in Gaps /\ Passed(r, n).gap >= r.gap
           /\ n >= MIN_CYCLES => Passed(r, n).gap = MIN_CYCLES
  <1> DEFINE g == IF r.gap + n > MIN_CYCLES THEN MIN_CYCLES ELSE r.gap + n
  <1>1. r.gap \in 0 .. MIN_CYCLES
    BY DEF Readers
  <1>2. Passed(r, n) = [r EXCEPT !.gap = g]
    BY DEF Passed
  <1>3. Passed(r, n).gap = g
    <2> HIDE DEF g
    <2> QED
      BY <1>2 DEF Readers
  <1>4. g \in 0 .. 8 /\ g >= r.gap /\ (n >= 8 => g = 8)
    BY <1>1 DEF MIN_CYCLES
  <1> HIDE DEF g
  <1> QED
    BY <1>3, <1>4 DEF Gaps, MIN_CYCLES

\* Words that only take time.
Idle(w) == w \in Seq(Words) /\ \A i \in 1 .. Len(w) : w[i][1] = 238 \/ w[i][1] = 239

\* Words that only take time are no commands, and no write in them is early.
LEMMA IdleReads ==
    ASSUME NEW w, Idle(w), NEW g \in Gaps
    PROVE  /\ ~Read(FALSE, g, w).open /\ Read(FALSE, g, w).items = <<>>
           /\ ~Read(FALSE, g, w).early /\ Read(FALSE, g, w).gap >= g
           /\ (\E i \in 1 .. Len(w) : Span(w[i]) >= MIN_CYCLES)
                 => Read(FALSE, g, w).gap = MIN_CYCLES
  <1> DEFINE r == Start(FALSE, g)
             R == Reading(r, w)
             I == {k \in 0 .. Len(w) :
                      /\ ~R[k].open /\ R[k].items = <<>> /\ ~R[k].early /\ R[k].gap >= g
                      /\ (\E i \in 1 .. k : Span(w[i]) >= MIN_CYCLES)
                            => R[k].gap = MIN_CYCLES}
  <1>0. w \in Seq(Words)
    BY DEF Idle
  <1>1. r \in Readers /\ ~r.open /\ r.gap = g /\ r.items = <<>> /\ ~r.early
    BY StartType
  <1>2. Read(FALSE, g, w) = R[Len(w)]
    BY DEF Read, ReadFrom
  <1> HIDE DEF r
  <1>3. /\ R \in [0 .. Len(w) -> Readers] /\ R[0] = r
        /\ \A k \in 1 .. Len(w) : R[k] = ReadWord(R[k - 1], w[k])
    BY <1>0, <1>1, ReadingSteps
  <1>4. Len(w) \in Nat /\ \A k \in 1 .. Len(w) : w[k] \in Words
    BY <1>0
  <1> HIDE DEF R
  <1>5. 0 \in I
    BY <1>1, <1>3, <1>4 DEF Gaps
  <1>6. ASSUME NEW k \in 1 .. Len(w), k - 1 \in I PROVE k \in I
    <2>1. k - 1 \in 0 .. Len(w) /\ k \in 0 .. Len(w)
      BY <1>4
    <2> DEFINE x == R[k - 1]
               v == w[k]
    <2>2. x \in Readers /\ v \in Words /\ R[k] = ReadWord(x, v)
      BY <1>3, <1>4, <2>1
    <2>3. ~x.open /\ x.items = <<>> /\ ~x.early /\ x.gap >= g
      BY <1>6
    <2>4. (\E i \in 1 .. k - 1 : Span(w[i]) >= MIN_CYCLES) => x.gap = MIN_CYCLES
      BY <1>6
    <2>5. (v[1] = 238 \/ v[1] = 239)
      BY DEF Idle
    <2> HIDE DEF x, v
    <2>6. Span(v) \in Nat /\ R[k] = Passed(x, Span(v))
      <3>1. ~x.open
        BY <2>3
      <3>2. Span(v) \in Nat /\ ReadWord(x, v) = Passed(x, Span(v))
        BY <2>2, <2>5, <3>1, ReadDelay
      <3> QED
        BY <2>2, <3>2
    <2> DEFINE y == Passed(x, Span(v))
    <2>7. y.open = x.open /\ y.items = x.items /\ y.early = x.early
      BY <2>2 DEF Passed, Readers
    <2>8. /\ y.gap \in 0 .. 8 /\ y.gap >= x.gap
          /\ Span(v) >= MIN_CYCLES => y.gap = MIN_CYCLES
      BY <2>2, <2>6, PassedGap DEF Gaps, MIN_CYCLES
    <2> HIDE DEF y
    <2>9. x.gap \in 0 .. 8 /\ g \in 0 .. 8
      BY <2>2 DEF Readers, Gaps, MIN_CYCLES
    <2>10. y.gap >= g
      BY <2>3, <2>8, <2>9
    <2>11. ASSUME \E i \in 1 .. k : Span(w[i]) >= MIN_CYCLES PROVE y.gap = MIN_CYCLES
      <3>1. PICK i \in 1 .. k : Span(w[i]) >= MIN_CYCLES
        BY <2>11
      <3>2. CASE i = k
        BY <2>8, <3>1, <3>2 DEF v
      <3>3. CASE i # k
        <4>1. i \in 1 .. k - 1
          BY <1>4, <3>3
        <4>2. x.gap = 8
          BY <2>4, <3>1, <4>1 DEF MIN_CYCLES
        <4> QED
          BY <2>8, <4>2 DEF MIN_CYCLES
      <3> QED
        BY <3>2, <3>3
    <2>12. R[k] = y
      BY <2>6 DEF y
    <2> QED
      BY <2>1, <2>3, <2>7, <2>10, <2>11, <2>12
  <1> HIDE DEF I
  <1>7. \A k \in 0 .. Len(w) : k \in I
    BY <1>4, <1>5, <1>6, UpTo
  <1>8. Len(w) \in I
    BY <1>4, <1>7
  <1> QED
    BY <1>2, <1>8 DEF I

-----------------------------------------------------------------------------
(* What words tell, and when *)

\* No write comes too early, whatever was read before.
Prompt(w) == \A g \in Gaps : ~Read(FALSE, g, w).early

\* The gaps that are named.
LEMMA FullGap == MIN_CYCLES \in Gaps /\ 0 \in Gaps /\ MIN_CYCLES = 8
  BY DEF Gaps, MIN_CYCLES

\* Nothing says nothing.
LEMMA NothingReads == Tells(<<>>, <<>>) /\ Even(<<>>) /\ Prompt(<<>>)
  <1>1. ASSUME NEW g \in Gaps
        PROVE  /\ Read(FALSE, g, <<>>).items = <<>> /\ ~Read(FALSE, g, <<>>).open
               /\ ~Read(FALSE, g, <<>>).early /\ Read(FALSE, g, <<>>).gap = g
    <2> DEFINE r == Start(FALSE, g)
    <2>1. /\ r \in Readers /\ r.items = <<>> /\ ~r.open /\ ~r.early /\ r.gap = g
      BY StartType
    <2>2. Read(FALSE, g, <<>>) = ReadFrom(r, <<>>)
      BY DEF Read
    <2> HIDE DEF r
    <2>3. Read(FALSE, g, <<>>) = r
      BY <2>1, <2>2, ReadNothing
    <2> QED
      BY <2>1, <2>3
  <1>2. <<>> \in Seq(Words)
    OBVIOUS
  <1> QED
    BY <1>1, <1>2, FullGap, Zenon DEF Tells, Even, Prompt

\* What is told adds up.
LEMMA TellsConcat ==
    ASSUME NEW a, NEW x, Tells(a, x), NEW b, NEW y, Tells(b, y)
    PROVE  Tells(a \o b, x \o y)
  <1>1. a \in Seq(Words) /\ b \in Seq(Words) /\ a \o b \in Seq(Words)
    BY ConcatProperties DEF Tells
  <1>2. ASSUME NEW g \in Gaps
        PROVE  ~Read(FALSE, g, a \o b).open /\ Read(FALSE, g, a \o b).items = x \o y
    <2> DEFINE m == Read(FALSE, g, a)
               n == Read(FALSE, m.gap, b)
               c == Read(FALSE, g, a \o b)
    <2>1. ~m.open /\ m.items = x
      BY DEF Tells
    <2>2. m.gap \in Gaps
      BY <1>1, ReadType
    <2>3. ~n.open /\ n.items = y
      <3> HIDE DEF m
      <3> QED
        BY <2>2 DEF Tells
    <2>4. (c.open <=> n.open) /\ c.items = m.items \o n.items
      BY <1>1, <2>1, Joined
    <2> QED
      BY <2>1, <2>3, <2>4
  <1> QED
    BY <1>1, <1>2 DEF Tells

\* Behind words after which the next may come at once, words keep their time.
LEMMA EvenConcat ==
    ASSUME NEW a, NEW x, Tells(a, x), NEW b, NEW y, Tells(b, y), Even(a)
    PROVE  /\ Even(b) => Even(a \o b)
           /\ Prompt(b) => ~Read(FALSE, MIN_CYCLES, a \o b).early
           /\ Read(FALSE, MIN_CYCLES, a \o b).gap = Read(FALSE, MIN_CYCLES, b).gap
           /\ Read(FALSE, MIN_CYCLES, a \o b).early <=> Read(FALSE, MIN_CYCLES, b).early
  <1> DEFINE g == MIN_CYCLES
             m == Read(FALSE, g, a)
             n == Read(FALSE, m.gap, b)
             c == Read(FALSE, g, a \o b)
  <1>1. a \in Seq(Words) /\ b \in Seq(Words) /\ g \in Gaps
    BY FullGap DEF Tells
  <1>2. ~m.open
    BY <1>1 DEF Tells
  <1>3. c.gap = n.gap /\ (c.early <=> m.early \/ n.early)
    BY <1>1, <1>2, Joined
  <1>4. m.gap = g /\ ~m.early
    BY DEF Even
  <1>5. c.gap = Read(FALSE, g, b).gap /\ (c.early <=> Read(FALSE, g, b).early)
    BY <1>3, <1>4
  <1> QED
    BY <1>1, <1>5, Zenon DEF Even, Prompt

\* Words that wait before they write can follow any others.
LEMMA PromptConcat ==
    ASSUME NEW a, NEW x, Tells(a, x), NEW b \in Seq(Words), Prompt(a), Prompt(b)
    PROVE  Prompt(a \o b)
  <1> SUFFICES ASSUME NEW g \in Gaps PROVE ~Read(FALSE, g, a \o b).early
    BY DEF Prompt
  <1> DEFINE m == Read(FALSE, g, a)
             n == Read(FALSE, m.gap, b)
  <1>1. a \in Seq(Words) /\ ~m.open
    BY DEF Tells
  <1>2. m.gap \in Gaps
    BY <1>1, ReadType
  <1>3. ~m.early /\ ~n.early
    <2> HIDE DEF m
    <2>1. ~n.early
      BY <1>2 DEF Prompt
    <2> QED
      BY <2>1 DEF Prompt, m
  <1> QED
    BY <1>1, <1>3, Joined

\* The words a delay is made of.
LEMMA DelayWord ==
    ASSUME NEW c \in {238, 239}, NEW d \in Nat
    PROVE  word(c, d) \in Plain /\ word(c, d)[1] = c /\ word(c, d)[2] = d % 256
  <1>1. c % 256 = c /\ c \in 0 .. 254
    OBVIOUS
  <1>2. word(c, d) = <<c, d % 256>>
    BY <1>1 DEF word
  <1> QED
    BY <1>1, <1>2, WordPlain

\* A delay says nothing, and one that is long enough takes MIN_CYCLES.
LEMMA DelayReads ==
    ASSUME NEW n \in Nat
    PROVE  /\ Idle(encode_delay(n)) /\ encode_delay(n) \in Seq(Plain)
           /\ Tells(encode_delay(n), <<>>) /\ Even(encode_delay(n)) /\ Prompt(encode_delay(n))
           /\ n >= MIN_CYCLES =>
                 \A g \in Gaps : Read(FALSE, g, encode_delay(n)).gap = MIN_CYCLES
  <1> DEFINE q == n \div 65535
             m == n % 65535
  <1>0. q \in Nat /\ m \in Nat /\ m < 256 * 256 /\ (n >= 8 => q >= 1 \/ m >= 8)
    <2>1. q \in Int /\ m \in Int /\ 0 <= m /\ m < 65535 /\ n = (65535 * q) + m
      OBVIOUS
    <2> HIDE DEF q, m
    <2> QED
      BY <2>1
  <1> HIDE DEF q, m
  <1> DEFINE full == [i \in 1 .. 2 * q |-> word(IF i % 2 = 1 THEN 239 ELSE 238, 255)]
             hi == IF m >= 256 THEN <<word(239, m \div 256)>> ELSE <<>>
             lo == IF m % 256 # 0 THEN <<word(238, m)>> ELSE <<>>
             Long(s) == \E i \in 1 .. Len(s) : Span(s[i]) >= MIN_CYCLES
  <1>1. /\ m \div 256 \in 0 .. 255 /\ m % 256 \in 0 .. 255
        /\ m < 256 => m % 256 = m
        /\ m >= 256 => m \div 256 >= 1
    <2> DEFINE h == m \div 256
               l == m % 256
    <2>1. h \in Int /\ l \in Int /\ 0 <= l /\ l < 256 /\ m = (256 * h) + l
      BY <1>0
    <2> HIDE DEF h, l
    <2>2. h \in 0 .. 255 /\ l \in 0 .. 255 /\ (m < 256 => h = 0) /\ (m >= 256 => h >= 1)
      BY <1>0, <2>1
    <2> QED
      BY <2>1, <2>2 DEF h, l
  <1>3. /\ full \in Seq(Plain)
        /\ \A i \in 1 .. Len(full) : full[i][1] = 238 \/ full[i][1] = 239
        /\ q >= 1 => Long(full)
    <2>1. 2 * q \in Nat
      BY <1>0
    <2>2. \A i \in 1 .. 2 * q : /\ full[i] \in Plain /\ full[i][2] = 255
                                /\ full[i][1] = IF i % 2 = 1 THEN 239 ELSE 238
      <3> TAKE i \in 1 .. 2 * q
      <3> DEFINE c == IF i % 2 = 1 THEN 239 ELSE 238
      <3>1. c \in {238, 239} /\ 255 \in Nat /\ 255 % 256 = 255
        OBVIOUS
      <3>2. full[i] = word(c, 255)
        OBVIOUS
      <3> HIDE DEF c, full
      <3> QED
        BY <3>1, <3>2, DelayWord DEF c
    <2>3. full \in Seq(Plain) /\ Len(full) = 2 * q
      BY <2>1, <2>2
    <2> HIDE DEF full
    <2>4. ASSUME q >= 1 PROVE Long(full)
      <3>1. 1 \in 1 .. 2 * q /\ 1 % 2 = 1
        BY <1>0, <2>4
      <3>2. full[1][1] # 238 /\ full[1][2] = 255
        BY <2>2, <3>1
      <3>3. Span(full[1]) = 256 * 255
        BY <3>2 DEF Span
      <3> QED
        BY <2>3, <3>1, <3>3 DEF MIN_CYCLES
    <2> QED
      BY <2>2, <2>3, <2>4
  <1>4. /\ hi \in Seq(Plain) /\ \A i \in 1 .. Len(hi) : hi[i][1] = 238 \/ hi[i][1] = 239
        /\ m >= 256 => Long(hi)
    <2>1. CASE m >= 256
      <3> DEFINE v == word(239, m \div 256)
      <3>1. v \in Plain /\ v[1] = 239 /\ v[2] = (m \div 256) % 256
        <4>1. m \div 256 \in Nat /\ 239 \in {238, 239}
          BY <1>1
        <4> QED
          BY <4>1, DelayWord
      <3>2. v[1] # 238 /\ 256 * v[2] >= 8
        BY <1>1, <2>1, <3>1
      <3> HIDE DEF v
      <3>3. Span(v) >= MIN_CYCLES
        BY <3>2 DEF Span, MIN_CYCLES
      <3>4. hi = <<v>>
        BY <2>1 DEF v
      <3> HIDE DEF hi
      <3>5. Len(hi) = 1 /\ hi[1] = v /\ hi \in Seq(Plain)
        BY <3>1, <3>4
      <3> QED
        BY <3>1, <3>3, <3>5
    <2>2. CASE ~(m >= 256)
      <3>1. hi = <<>>
        BY <2>2
      <3> QED
        BY <2>2, <3>1
    <2> QED
      BY <2>1, <2>2
  <1>5. /\ lo \in Seq(Plain) /\ \A i \in 1 .. Len(lo) : lo[i][1] = 238 \/ lo[i][1] = 239
        /\ m >= 8 /\ m < 256 => Long(lo)
    <2>1. CASE m % 256 # 0
      <3> DEFINE v == word(238, m)
      <3>1. v \in Plain /\ v[1] = 238 /\ v[2] = m % 256
        <4>1. m \in Nat /\ 238 \in {238, 239}
          BY <1>0
        <4> QED
          BY <4>1, DelayWord
      <3> HIDE DEF v
      <3>2. Span(v) = m % 256
        BY <3>1 DEF Span
      <3>4. lo = <<v>>
        BY <2>1 DEF v
      <3> HIDE DEF lo
      <3>5. Len(lo) = 1 /\ lo[1] = v /\ lo \in Seq(Plain)
        BY <3>1, <3>4
      <3>6. ASSUME m >= 8, m < 256 PROVE Long(lo)
        <4>1. Span(lo[1]) >= MIN_CYCLES
          BY <1>1, <3>2, <3>5, <3>6 DEF MIN_CYCLES
        <4> QED
          BY <3>5, <4>1
      <3> HIDE DEF Long
      <3> QED
        BY <3>1, <3>5, <3>6
    <2>2. CASE ~(m % 256 # 0)
      <3>1. lo = <<>>
        BY <2>2
      <3>2. ~(m >= 8 /\ m < 256)
        BY <1>1, <2>2
      <3>3. lo \in Seq(Plain) /\ Len(lo) = 0
        BY <3>1
      <3> HIDE DEF lo, Long
      <3> QED
        BY <3>2, <3>3
    <2> QED
      BY <2>1, <2>2
  <1> DEFINE w == encode_delay(n)
  <1>6. w = full \o (hi \o lo)
    BY DEF encode_delay, Chunk, q, m
  <1> HIDE DEF w, full, hi, lo
  <1>7. ASSUME NEW s \in Seq(Plain), NEW t \in Seq(Plain),
               \A i \in 1 .. Len(s) : s[i][1] = 238 \/ s[i][1] = 239,
               \A i \in 1 .. Len(t) : t[i][1] = 238 \/ t[i][1] = 239
        PROVE  /\ s \o t \in Seq(Plain)
               /\ \A i \in 1 .. Len(s \o t) : (s \o t)[i][1] = 238 \/ (s \o t)[i][1] = 239
               /\ Long(s) \/ Long(t) => Long(s \o t)
    <2> DEFINE u == s \o t
    <2>1. /\ u \in Seq(Plain) /\ Len(u) = Len(s) + Len(t)
          /\ \A i \in 1 .. Len(s) + Len(t) : u[i] = IF i <= Len(s) THEN s[i] ELSE t[i - Len(s)]
          /\ Len(s) \in Nat /\ Len(t) \in Nat
      BY ConcatProperties
    <2> HIDE DEF u
    <2>2. \A i \in 1 .. Len(u) : u[i][1] = 238 \/ u[i][1] = 239
      <3> TAKE i \in 1 .. Len(u)
      <3>1. CASE i <= Len(s)
        BY <1>7, <2>1, <3>1
      <3>2. CASE ~(i <= Len(s))
        <4>1. i - Len(s) \in 1 .. Len(t) /\ u[i] = t[i - Len(s)]
          BY <2>1, <3>2
        <4> QED
          BY <1>7, <4>1
      <3> QED
        BY <3>1, <3>2
    <2>3. ASSUME Long(s) PROVE Long(u)
      <3>1. PICK i \in 1 .. Len(s) : Span(s[i]) >= MIN_CYCLES
        BY <2>3
      <3>2. i \in 1 .. Len(u) /\ u[i] = s[i]
        BY <2>1
      <3> QED
        BY <3>1, <3>2
    <2>4. ASSUME Long(t) PROVE Long(u)
      <3>1. PICK i \in 1 .. Len(t) : Span(t[i]) >= MIN_CYCLES
        BY <2>4
      <3>2. Len(s) + i \in 1 .. Len(s) + Len(t) /\ ~(Len(s) + i <= Len(s))
        BY <2>1
      <3>3. u[Len(s) + i] = t[(Len(s) + i) - Len(s)] /\ (Len(s) + i) - Len(s) = i
        BY <2>1, <3>2
      <3> QED
        BY <2>1, <3>1, <3>2, <3>3
    <2> QED
      BY <2>1, <2>2, <2>3, <2>4 DEF u
  <1>8. /\ hi \o lo \in Seq(Plain)
        /\ \A i \in 1 .. Len(hi \o lo) : (hi \o lo)[i][1] = 238 \/ (hi \o lo)[i][1] = 239
        /\ Long(hi) \/ Long(lo) => Long(hi \o lo)
    <2> HIDE DEF Long
    <2> QED
      BY <1>4, <1>5, <1>7
  <1>9. /\ w \in Seq(Plain) /\ \A i \in 1 .. Len(w) : w[i][1] = 238 \/ w[i][1] = 239
        /\ Long(full) \/ Long(hi \o lo) => Long(w)
    <2> DEFINE t == hi \o lo
    <2>1. /\ t \in Seq(Plain) /\ \A i \in 1 .. Len(t) : t[i][1] = 238 \/ t[i][1] = 239
          /\ w = full \o t
      BY <1>6, <1>8
    <2> HIDE DEF Long, t
    <2>2. /\ full \o t \in Seq(Plain)
          /\ \A i \in 1 .. Len(full \o t) :
                (full \o t)[i][1] = 238 \/ (full \o t)[i][1] = 239
          /\ Long(full) \/ Long(t) => Long(full \o t)
      BY <1>3, <1>7, <2>1
    <2> QED
      BY <2>1, <2>2 DEF t
  <1>10. n >= 8 => Long(w)
    <2>1. n >= 8 => q >= 1 \/ m >= 256 \/ (m >= 8 /\ m < 256)
      <3>1. m >= 256 \/ m < 256
        BY <1>0
      <3> QED
        BY <1>0, <3>1
    <2> HIDE DEF Long
    <2> QED
      BY <1>3, <1>4, <1>5, <1>8, <1>9, <2>1
  <1>11. Idle(w)
    <2>1. w \in Seq(Words)
      BY <1>9 DEF Plain
    <2> QED
      BY <1>9, <2>1 DEF Idle
  <1>12. ASSUME NEW g \in Gaps
         PROVE  /\ ~Read(FALSE, g, w).open /\ Read(FALSE, g, w).items = <<>>
                /\ ~Read(FALSE, g, w).early /\ Read(FALSE, g, w).gap >= g
                /\ n >= 8 => Read(FALSE, g, w).gap = MIN_CYCLES
    BY <1>10, <1>11, IdleReads
  <1>13. Even(w)
    <2>1. w \in Seq(Words)
      BY <1>11 DEF Idle
    <2>2. Read(FALSE, MIN_CYCLES, w).gap \in 0 .. 8
      BY <2>1, FullGap, ReadType DEF Gaps
    <2>3. Read(FALSE, MIN_CYCLES, w).gap >= 8 /\ ~Read(FALSE, MIN_CYCLES, w).early
      BY <1>12, FullGap
    <2>4. Read(FALSE, MIN_CYCLES, w).gap = 8
      <3> DEFINE z == Read(FALSE, MIN_CYCLES, w).gap
      <3>1. z \in 0 .. 8 /\ z >= 8
        BY <2>2, <2>3
      <3> HIDE DEF z
      <3>2. z = 8
        BY <3>1
      <3> QED
        BY <3>2 DEF z
    <2> QED
      BY <2>3, <2>4, FullGap DEF Even
  <1>14. Tells(w, <<>>) /\ Prompt(w)
    BY <1>11, <1>12 DEF Tells, Prompt, Idle
  <1>15. n >= MIN_CYCLES => \A g \in Gaps : Read(FALSE, g, w).gap = MIN_CYCLES
    BY <1>12, FullGap, Zenon
  <1> QED
    BY <1>9, <1>11, <1>13, <1>14, <1>15, Zenon DEF w

-----------------------------------------------------------------------------
(* Concatenations *)

\* FlattenSeq is what its definition says.
LEMMA FlattenSteps ==
    ASSUME NEW W, NEW s \in Seq(Seq(W))
    PROVE  \E f \in [0 .. Len(s) -> Seq(W)] :
              /\ f[0] = <<>> /\ \A k \in 1 .. Len(s) : f[k] = f[k - 1] \o s[k]
              /\ FlattenSeq(s) = f[Len(s)]
  <1> DEFINE step == [x \in Seq(W) \X Seq(W) |-> x[1] \o x[2]]
             F(f) == [i \in 1 .. Len(s) |-> IF i = 1 THEN s[i] ELSE f[i - 1] \o s[i]]
  <1>0. Len(s) \in Nat /\ \A k \in 1 .. Len(s) : s[k] \in Seq(W)
    OBVIOUS
  <1>1. step \in [Seq(W) \X Seq(W) -> Seq(W)]
    <2>1. \A x \in Seq(W) \X Seq(W) : x[1] \in Seq(W) /\ x[2] \in Seq(W)
      OBVIOUS
    <2>2. \A x \in Seq(W) \X Seq(W) : x[1] \o x[2] \in Seq(W)
      BY <2>1, ConcatProperties
    <2> QED
      BY <2>2
  <1>1a. \A x \in Seq(W), y \in Seq(W) : step[<<x, y>>] = x \o y
    OBVIOUS
  <1> HIDE DEF step
  <1>1b. <<>> \in Seq(W)
    OBVIOUS
  <1>2. PICK f \in [0 .. Len(s) -> Seq(W)] :
            f[0] = <<>> /\ \A k \in 1 .. Len(s) : f[k] = step[<<f[k - 1], s[k]>>]
    <2>1. HasRun(Seq(W), step, <<>>, s)
      BY <1>1, <1>1b, Recursion
    <2> QED
      BY <2>1 DEF HasRun
  <1>3. \A k \in 1 .. Len(s) : f[k] = f[k - 1] \o s[k]
    <2> TAKE k \in 1 .. Len(s)
    <2>0. k - 1 \in 0 .. Len(s)
      BY <1>0
    <2>1. f[k - 1] \in Seq(W) /\ s[k] \in Seq(W)
      BY <1>0, <2>0
    <2> QED
      BY <1>1a, <1>2, <2>1
  <1>4. CASE s = <<>>
    <2>1. FlattenSeq(s) = <<>> /\ Len(s) = 0
      BY <1>4 DEF FlattenSeq
    <2> QED
      BY <1>2, <1>3, <2>1
  <1>5. CASE s # <<>>
    <2> DEFINE n == Len(s)
               g == [i \in 1 .. n |-> f[i]]
    <2>0. n \in 1 .. n /\ 1 \in 1 .. n
      BY <1>5
    <2>1. g = F(g)
      <3>1. \A i \in 1 .. n : g[i] = IF i = 1 THEN s[i] ELSE g[i - 1] \o s[i]
        <4> TAKE i \in 1 .. n
        <4>1. CASE i = 1
          <5>0. s[1] \in Seq(W) /\ f[1] = f[1 - 1] \o s[1]
            BY <1>0, <1>3, <2>0, Zenon
          <5>1. f[1] = f[0] \o s[1]
            BY <5>0
          <5>2. f[1] = s[1]
            BY <1>2, <5>0, <5>1, ConcatEmptySeq
          <5> QED
            BY <4>1, <5>2
        <4>2. CASE i # 1
          <5>1. i - 1 \in 1 .. n
            BY <1>0, <4>2
          <5> QED
            BY <1>3, <4>2, <5>1
        <4> QED
          BY <4>1, <4>2
      <3> QED
        BY <3>1
    <2>2. FlattenSeq(s) = (CHOOSE h : h = F(h))[n]
      <3>1. Len(s) # 0
        BY <1>5
      <3> QED
        BY <3>1, Zenon DEF FlattenSeq
    <2> DEFINE R == CHOOSE h : h = F(h)
    <2>3. R = F(R)
      <3> HIDE DEF F, g
      <3> QED
        BY <2>1
    <2> HIDE DEF R
    <2>4. \A i \in 1 .. n : R[i] = IF i = 1 THEN s[i] ELSE R[i - 1] \o s[i]
      BY <2>3
    <2> DEFINE I == {k \in 0 .. n : k >= 1 => R[k] = f[k]}
    <2>5. 0 \in I
      BY <1>0
    <2>6. ASSUME NEW k \in 1 .. n, k - 1 \in I PROVE k \in I
      <3>1. CASE k = 1
        <4>0. s[1] \in Seq(W) /\ f[1] = f[1 - 1] \o s[1]
          BY <1>0, <1>3, <2>0, Zenon
        <4>1. f[1] = f[0] \o s[1]
          BY <4>0
        <4>2. f[1] = s[1]
          BY <1>2, <4>0, <4>1, ConcatEmptySeq
        <4>3. R[1] = s[1]
          BY <2>0, <2>4
        <4> QED
          BY <1>0, <3>1, <4>2, <4>3
      <3>2. CASE k # 1
        <4>1. k - 1 >= 1 /\ k \in 0 .. n
          BY <1>0, <3>2
        <4>2. R[k - 1] = f[k - 1]
          BY <2>6, <4>1
        <4> QED
          BY <1>3, <2>4, <3>2, <4>1, <4>2
      <3> QED
        BY <3>1, <3>2
    <2> HIDE DEF I
    <2>7. \A k \in 0 .. n : k \in I
      BY <1>0, <2>5, <2>6, UpTo
    <2>8. R[n] = f[n]
      <3>1. n \in 0 .. n /\ n >= 1
        BY <1>0, <2>0
      <3> QED
        BY <2>7, <3>1 DEF I
    <2> QED
      BY <1>2, <1>3, <2>2, <2>8 DEF R
  <1> QED
    BY <1>4, <1>5

\* Concatenations: of none.
LEMMA FlattenNothing == FlattenSeq(<<>>) = <<>>
  BY DEF FlattenSeq

\* Of sequences over W.
LEMMA FlattenType ==
    ASSUME NEW W, NEW s \in Seq(Seq(W))
    PROVE  FlattenSeq(s) \in Seq(W)
  <1>1. PICK f \in [0 .. Len(s) -> Seq(W)] : FlattenSeq(s) = f[Len(s)]
    BY FlattenSteps
  <1>2. Len(s) \in 0 .. Len(s)
    OBVIOUS
  <1> QED
    BY <1>1, <1>2

\* Of one.
LEMMA FlattenOne ==
    ASSUME NEW W, NEW x \in Seq(W)
    PROVE  FlattenSeq(<<x>>) = x
  <1> DEFINE s == <<x>>
  <1>1. s \in Seq(Seq(W)) /\ Len(s) = 1 /\ s[1] = x
    OBVIOUS
  <1> HIDE DEF s
  <1>2. PICK f \in [0 .. Len(s) -> Seq(W)] :
              /\ f[0] = <<>> /\ \A k \in 1 .. Len(s) : f[k] = f[k - 1] \o s[k]
              /\ FlattenSeq(s) = f[Len(s)]
    BY <1>1, FlattenSteps
  <1>2a. 1 \in 1 .. Len(s)
    BY <1>1
  <1>2b. f[1] = f[1 - 1] \o s[1]
    BY <1>2, <1>2a, Zenon
  <1>3. f[1] = f[0] \o s[1]
    BY <1>2b
  <1>4. f[1] = x
    BY <1>1, <1>2, <1>3, ConcatEmptySeq
  <1> QED
    BY <1>1, <1>2, <1>4 DEF s

\* Concatenation associates.
LEMMA Regroup ==
    ASSUME NEW W, NEW u \in Seq(W)
    PROVE  \A x, y, p \in Seq(W) : p = u \o x => p \o y = u \o (x \o y)
  <1> SUFFICES ASSUME NEW x \in Seq(W), NEW y \in Seq(W)
               PROVE  (u \o x) \o y = u \o (x \o y)
    OBVIOUS
  <1> QED
    BY ConcatAssociative

\* Of two sequences of sequences, one behind the other.
LEMMA FlattenConcat ==
    ASSUME NEW W, NEW a \in Seq(Seq(W)), NEW b \in Seq(Seq(W))
    PROVE  FlattenSeq(a \o b) = FlattenSeq(a) \o FlattenSeq(b)
  <1> DEFINE c == a \o b
  <1>1. /\ c \in Seq(Seq(W)) /\ Len(c) = Len(a) + Len(b) /\ Len(a) \in Nat /\ Len(b) \in Nat
        /\ \A k \in 1 .. Len(a) : c[k] = a[k]
        /\ \A k \in 1 .. Len(b) : c[Len(a) + k] = b[k] /\ b[k] \in Seq(W)
    BY ConcatProperties
  <1> HIDE DEF c
  <1>2. PICK f :
              /\ f \in [0 .. Len(a) -> Seq(W)]
              /\ f[0] = <<>> /\ \A k \in 1 .. Len(a) : f[k] = f[k - 1] \o a[k]
              /\ FlattenSeq(a) = f[Len(a)]
    BY FlattenSteps
  <1>3. PICK g :
              /\ g \in [0 .. Len(b) -> Seq(W)]
              /\ g[0] = <<>> /\ \A k \in 1 .. Len(b) : g[k] = g[k - 1] \o b[k]
              /\ FlattenSeq(b) = g[Len(b)]
    BY FlattenSteps
  <1>4. PICK h :
              /\ h \in [0 .. Len(c) -> Seq(W)]
              /\ h[0] = <<>> /\ \A k \in 1 .. Len(c) : h[k] = h[k - 1] \o c[k]
              /\ FlattenSeq(c) = h[Len(c)]
    <2>1. c \in Seq(Seq(W))
      BY <1>1
    <2> QED
      BY <2>1, FlattenSteps
  <1>5. h[Len(a)] = f[Len(a)]
    <2> DEFINE I == {k \in 0 .. Len(a) : h[k] = f[k]}
    <2>1. 0 \in I
      BY <1>1, <1>2, <1>4
    <2>2. ASSUME NEW k \in 1 .. Len(a), k - 1 \in I PROVE k \in I
      <3>1. k \in 1 .. Len(c) /\ c[k] = a[k] /\ k \in 0 .. Len(a)
        BY <1>1
      <3>2. h[k - 1] = f[k - 1]
        BY <2>2
      <3> QED
        BY <1>2, <1>4, <3>1, <3>2
    <2> HIDE DEF I
    <2>3. \A k \in 0 .. Len(a) : k \in I
      BY <1>1, <2>1, <2>2, UpTo
    <2>4. Len(a) \in I
      BY <1>1, <2>3
    <2> QED
      BY <2>4 DEF I
  <1> DEFINE u == f[Len(a)]
  <1>6. u \in Seq(W)
    <2>1. Len(a) \in 0 .. Len(a)
      BY <1>1
    <2> QED
      BY <1>2, <2>1
  <1>7. h[Len(a) + Len(b)] = u \o g[Len(b)]
    <2> HIDE DEF u
    <2>0. \A x, y, p \in Seq(W) : p = u \o x => p \o y = u \o (x \o y)
      BY <1>6, Regroup
    <2> DEFINE I == {k \in 0 .. Len(b) : h[Len(a) + k] = u \o g[k]}
    <2>1. 0 \in I
      BY <1>1, <1>3, <1>5, <1>6, ConcatEmptySeq DEF u
    <2>2. ASSUME NEW k \in 1 .. Len(b), k - 1 \in I PROVE k \in I
      <3>1. /\ Len(a) + k \in 1 .. Len(c) /\ c[Len(a) + k] = b[k]
            /\ (Len(a) + k) - 1 = Len(a) + (k - 1)
            /\ k \in 0 .. Len(b) /\ k - 1 \in 0 .. Len(b) /\ b[k] \in Seq(W)
        <4>1. /\ Len(a) + k \in 1 .. Len(c) /\ (Len(a) + k) - 1 = Len(a) + (k - 1)
              /\ k \in 0 .. Len(b) /\ k - 1 \in 0 .. Len(b)
          BY <1>1
        <4>2. c[Len(a) + k] = b[k] /\ b[k] \in Seq(W)
          BY <1>1, Zenon
        <4> QED
          BY <4>1, <4>2
      <3>2. h[Len(a) + k] = h[Len(a) + (k - 1)] \o b[k]
        BY <1>4, <3>1
      <3>3. h[Len(a) + (k - 1)] = u \o g[k - 1]
        BY <2>2
      <3> DEFINE x == g[k - 1]
                 y == b[k]
                 p == h[Len(a) + (k - 1)]
                 q == g[k]
      <3>4. x \in Seq(W) /\ y \in Seq(W) /\ p \in Seq(W)
        <4>1. Len(a) + (k - 1) \in 0 .. Len(c)
          BY <1>1
        <4> QED
          BY <1>3, <1>4, <3>1, <4>1
      <3>5. p = u \o x /\ q = x \o y /\ h[Len(a) + k] = p \o y
        BY <1>3, <3>1, <3>2, <3>3
      <3>6. p \o y = u \o q
        <4> HIDE DEF x, y, p, q
        <4> QED
          BY <2>0, <3>4, <3>5
      <3> QED
        BY <3>1, <3>5, <3>6
    <2> HIDE DEF I
    <2>3. \A k \in 0 .. Len(b) : k \in I
      BY <1>1, <2>1, <2>2, UpTo
    <2>4. Len(b) \in I
      BY <1>1, <2>3
    <2> QED
      BY <2>4 DEF I
  <1>8. FlattenSeq(c) = u \o g[Len(b)]
    BY <1>1, <1>4, <1>7
  <1> QED
    BY <1>2, <1>3, <1>8 DEF c

-----------------------------------------------------------------------------
(* What is spelled *)

\* The commands that are read.
Told(w) == Read(FALSE, 0, w).items

\* A stream that leaves no escape open tells what is read in it.
LEMMA TellsTold ==
    ASSUME NEW w \in Seq(Words), ~Read(FALSE, 0, w).open
    PROVE  Tells(w, Told(w))
  <1>1. 0 \in Gaps
    BY FullGap
  <1>2. \A g \in Gaps : ~Read(FALSE, g, w).open /\ Read(FALSE, g, w).items = Read(FALSE, 0, w).items
    BY <1>1, AnyGap, Zenon
  <1> QED
    BY <1>2, Zenon DEF Tells, Told

\* And nothing else.
LEMMA ToldTells ==
    ASSUME NEW w, NEW x, Tells(w, x)
    PROVE  /\ w \in Seq(Words) /\ ~Read(FALSE, 0, w).open
           /\ x = Told(w) /\ x \in Seq(Commands)
  <1>1. w \in Seq(Words) /\ 0 \in Gaps
    BY FullGap DEF Tells
  <1>2. Told(w) \in Seq(Commands)
    BY <1>1, ReadType DEF Told
  <1> QED
    BY <1>1, <1>2 DEF Tells, Told

\* A write and its delay.
LEMMA PairReads ==
    ASSUME NEW r \in Readers, ~r.open, NEW x \in Writes
    PROVE  LET s == ReadWord(ReadWord(r, Encoded(x)), D8)
           IN  /\ s \in Readers /\ ~s.open /\ s.items = r.items \o <<x>>
               /\ s.gap = MIN_CYCLES /\ (s.early <=> r.early \/ r.gap < MIN_CYCLES)
  <1> DEFINE v == Encoded(x)
             m == ReadWord(r, v)
             s == ReadWord(m, D8)
  <1>1. v \in Words /\ v # FILLER /\ v[1] < 128 /\ Adds(FALSE, v) = <<x>> /\ <<x>> \in Seq(Commands)
    <2>1. v \in Plain /\ v[1] < 128 /\ Adds(FALSE, v) = <<x>> /\ x \in Commands
      BY EncodedReads
    <2> HIDE DEF v
    <2>2. v \in Words /\ v # FILLER
      BY <2>1 DEF Plain
    <2>3. <<x>> \in Seq(Commands)
      BY <2>1
    <2> QED
      BY <2>1, <2>2, <2>3
  <1>2. D8 \in Words /\ D8 # FILLER /\ D8[1] = 238 /\ Span(D8) = MIN_CYCLES /\ Adds(FALSE, D8) = <<>>
    BY D8Reads DEF Plain
  <1>3. ~(D8[1] < 128)
    BY <1>2
  <1> HIDE DEF v
  <1>4. m \in Readers
    BY <1>1, ReadWordType
  <1>5. r.open = FALSE
    BY DEF Readers
  <1>6. ~m.open /\ m.items = r.items \o <<x>> /\ (m.early <=> r.early \/ r.gap < MIN_CYCLES)
    BY <1>1, <1>5, WordFields, Zenon DEF Early
  <1> HIDE DEF m
  <1>7. m.open = FALSE /\ m.items \in Seq(Commands)
    BY <1>4, <1>6 DEF Readers
  <1>8. s \in Readers
    BY <1>2, <1>4, ReadWordType
  <1>9. ~s.open /\ s.items = m.items \o <<>> /\ (s.early <=> m.early)
    <2>1. ~s.open
      <3>1. D8 \in Words /\ ~(D8 = FILLER)
        BY <1>2
      <3>2. s.open <=> (~m.open /\ D8 = FILLER)
        BY <1>4, <3>1, WordFields
      <3> HIDE DEF s
      <3> QED
        BY <3>1, <3>2
    <2>2. s.items = m.items \o Adds(m.open, D8)
      BY <1>2, <1>4, WordFields, Zenon
    <2>3. s.early <=> m.early \/ Early(m.open, m.gap, D8)
      BY <1>2, <1>4, WordFields, Zenon
    <2>4. ~Early(m.open, m.gap, D8)
      BY <1>3, Zenon DEF Early
    <2>5. Adds(m.open, D8) = <<>>
      BY <1>2, <1>7
    <2> HIDE DEF s
    <2> QED
      BY <1>2, <2>1, <2>2, <2>3, <2>4, <2>5
  <1>10. s = Passed(m, MIN_CYCLES)
    <2>1. ReadWord(m, D8) = Passed(m, Span(D8))
      BY <1>2, <1>4, <1>6, ReadDelay
    <2> QED
      BY <1>2, <2>1
  <1>11. s.gap = MIN_CYCLES
    <2>1. MIN_CYCLES \in Nat /\ MIN_CYCLES >= MIN_CYCLES
      BY DEF MIN_CYCLES
    <2> HIDE DEF s
    <2> QED
      BY <1>4, <1>10, <2>1, PassedGap
  <1>12. m.items \o <<>> = m.items
    BY <1>7, ConcatEmptySeq
  <1> HIDE DEF s
  <1>13. /\ s.items = r.items \o <<x>> /\ (s.early <=> r.early \/ r.gap < MIN_CYCLES)
    BY <1>6, <1>9, <1>12, Zenon
  <1> QED
    BY <1>8, <1>9, <1>11, <1>13, Zenon DEF s, m, v

\* Spelled: the device reads the writes that are asked for, MIN_CYCLES apart.
LEMMA SpelledReads ==
    ASSUME NEW x \in Seq(Writes)
    PROVE  /\ Spelled(x) \in Seq(Plain) /\ Len(Spelled(x)) = 2 * Len(x)
           /\ Tells(Spelled(x), x) /\ Even(Spelled(x))
  <1> DEFINE w == Spelled(x)
             n == Len(x)
  <1>0. n \in Nat /\ \A k \in 1 .. n : x[k] \in Writes
    OBVIOUS
  <1> HIDE DEF n
  <1>1. w = [i \in 1 .. 2 * n |-> IF i % 2 = 1 THEN Encoded(x[(i + 1) \div 2]) ELSE D8]
    BY DEF Spelled, D8, n
  <1> HIDE DEF w
  <1>2. \A k \in 1 .. n : w[2 * k - 1] = Encoded(x[k]) /\ w[2 * k] = D8
    <2> TAKE k \in 1 .. n
    <2>1. /\ 2 * k - 1 \in 1 .. 2 * n /\ (2 * k - 1) % 2 = 1 /\ ((2 * k - 1) + 1) \div 2 = k
          /\ 2 * k \in 1 .. 2 * n /\ (2 * k) % 2 # 1
      BY <1>0
    <2> QED
      BY <1>1, <2>1
  <1>3. \A i \in 1 .. 2 * n : w[i] \in Plain
    <2> TAKE i \in 1 .. 2 * n
    <2>1. CASE i % 2 = 1
      <3>1. (i + 1) \div 2 \in 1 .. n
        BY <1>0, <2>1
      <3>2. Encoded(x[(i + 1) \div 2]) \in Plain
        BY <1>0, <3>1, EncodedReads
      <3> QED
        BY <1>1, <2>1, <3>2
    <2>2. CASE i % 2 # 1
      BY <1>1, <2>2, D8Reads
    <2> QED
      BY <2>1, <2>2
  <1>4. w \in Seq(Plain) /\ Len(w) = 2 * n
    <2>1. 2 * n \in Nat
      BY <1>0
    <2> QED
      BY <1>1, <1>3, <2>1
  <1>5. w \in Seq(Words)
    BY <1>4 DEF Plain
  <1>6. ASSUME NEW g \in Gaps
        PROVE  /\ ~Read(FALSE, g, w).open /\ Read(FALSE, g, w).items = x
               /\ g = MIN_CYCLES => /\ ~Read(FALSE, g, w).early
                                    /\ Read(FALSE, g, w).gap = MIN_CYCLES
    <2> DEFINE r == Start(FALSE, g)
               P == Reading(r, w)
               I == {k \in 0 .. n : /\ ~P[2 * k].open /\ P[2 * k].items = SubSeq(x, 1, k)
                                    /\ g = MIN_CYCLES => /\ ~P[2 * k].early
                                                         /\ P[2 * k].gap = MIN_CYCLES}
    <2>1. r \in Readers /\ ~r.open /\ r.gap = g /\ r.items = <<>> /\ ~r.early
      BY StartType
    <2>2. Read(FALSE, g, w) = P[2 * n]
      BY <1>4 DEF Read, ReadFrom
    <2> HIDE DEF r
    <2>3. /\ P \in [0 .. 2 * n -> Readers] /\ P[0] = r
          /\ \A k \in 1 .. 2 * n : P[k] = ReadWord(P[k - 1], w[k])
      <3>1. /\ P \in [0 .. Len(w) -> Readers] /\ P[0] = r
            /\ \A k \in 1 .. Len(w) : P[k] = ReadWord(P[k - 1], w[k])
        BY <1>5, <2>1, ReadingSteps
      <3> HIDE DEF P
      <3> QED
        BY <1>4, <3>1
    <2> HIDE DEF P
    <2>4. 0 \in I
      <3>1. SubSeq(x, 1, 0) = <<>>
        BY SubSeqEmpty
      <3>2. 2 * 0 = 0 /\ 0 \in 0 .. n
        BY <1>0
      <3>3. P[2 * 0] = r
        BY <2>3, <3>2
      <3> QED
        BY <2>1, <3>1, <3>2, <3>3
    <2>5. ASSUME NEW k \in 1 .. n, k - 1 \in I PROVE k \in I
      <3> DEFINE a == P[2 * (k - 1)]
                 c == P[2 * k]
                 v == x[k]
      <3>1. /\ 2 * (k - 1) \in 0 .. 2 * n /\ 2 * k - 1 \in 1 .. 2 * n /\ 2 * k \in 1 .. 2 * n
            /\ (2 * k - 1) - 1 = 2 * (k - 1) /\ v \in Writes
        BY <1>0
      <3>2. P[2 * k - 1] = ReadWord(a, Encoded(v))
        BY <1>2, <2>3, <3>1
      <3>3. c = ReadWord(P[2 * k - 1], D8)
        BY <1>2, <2>3, <3>1
      <3>4. /\ a \in Readers /\ ~a.open /\ a.items = SubSeq(x, 1, k - 1)
            /\ g = MIN_CYCLES => ~a.early /\ a.gap = MIN_CYCLES
        BY <2>3, <2>5, <3>1
      <3> DEFINE s == ReadWord(ReadWord(a, Encoded(v)), D8)
      <3>5. c = s
        BY <3>2, <3>3
      <3>6. /\ ~s.open /\ s.items = a.items \o <<v>>
            /\ s.gap = MIN_CYCLES /\ (s.early <=> a.early \/ a.gap < MIN_CYCLES)
        <4> HIDE DEF a, v
        <4>1. ~a.open
          BY <3>4
        <4> QED
          BY <3>1, <3>4, <4>1, PairReads
      <3>7. SubSeq(x, 1, k) = SubSeq(x, 1, k - 1) \o <<v>>
        <4>1. 1 \in 1 .. Len(x) /\ k \in 1 .. Len(x)
          BY <1>0 DEF n
        <4> HIDE DEF I
        <4> QED
          BY <4>1, SubSeqRecursiveSecond
      <3>8. ~(MIN_CYCLES < MIN_CYCLES)
        BY DEF MIN_CYCLES
      <3> HIDE DEF a, c, v, s
      <3>9. /\ ~c.open /\ c.items = SubSeq(x, 1, k)
            /\ g = MIN_CYCLES => ~c.early /\ c.gap = MIN_CYCLES
        BY <3>4, <3>5, <3>6, <3>7, <3>8, Zenon
      <3>10. k \in 0 .. n
        BY <1>0
      <3> QED
        BY <3>9, <3>10 DEF c
    <2> HIDE DEF I
    <2>6. \A k \in 0 .. n : k \in I
      BY <1>0, <2>4, <2>5, UpTo
    <2>7. n \in I
      BY <1>0, <2>6
    <2>8. SubSeq(x, 1, n) = x
      BY SubSeqFull DEF n
    <2> QED
      BY <2>2, <2>7, <2>8 DEF I
  <1>7. Tells(w, x)
    BY <1>5, <1>6, Zenon DEF Tells
  <1>8. Even(w)
    BY <1>6, FullGap, Zenon DEF Even
  <1> QED
    BY <1>4, <1>7, <1>8 DEF w, n

-----------------------------------------------------------------------------
(* Closed blocks *)

\* Blocks are sequences of words.
LEMMA BlockSeq ==
    /\ Block \subseteq Seq(Words) /\ Seq(Block) \subseteq Seq(Seq(Words))
    /\ \A b \in Block : Len(b) = BlockWords
  <1>1. BlockWords \in Nat
    BY WireAssumption
  <1>2. \A b \in Block : b \in Seq(Words) /\ Len(b) = BlockWords
    BY <1>1 DEF Block
  <1> HIDE DEF Block
  <1>3. Block \subseteq Seq(Words)
    BY <1>2
  <1> QED
    BY <1>2, <1>3, SeqMonotonic

\* A closed block tells what is read in it.
LEMMA ClosedTells ==
    ASSUME NEW b \in Seq(Words), Closed(b)
    PROVE  Tells(b, Told(b))
  BY TellsTold DEF Closed

\* Closed blocks, one by one.
LEMMA ClosedEach ==
    ASSUME NEW bs, AllClosed(bs)
    PROVE  /\ bs \in Seq(Block) /\ bs \in Seq(Seq(Words)) /\ Len(bs) \in Nat
           /\ \A k \in 1 .. Len(bs) : bs[k] \in Block /\ bs[k] \in Seq(Words) /\ Closed(bs[k])
  <1>1. bs \in Seq(Block) /\ DOMAIN bs = 1 .. Len(bs) /\ Len(bs) \in Nat
    BY LenProperties DEF AllClosed
  <1>2. \A k \in 1 .. Len(bs) : bs[k] \in Block /\ Closed(bs[k])
    BY <1>1, ElementOfSeq DEF AllClosed
  <1> QED
    BY <1>1, <1>2, BlockSeq

\* And together.
LEMMA EachClosed ==
    ASSUME NEW bs \in Seq(Block), \A k \in 1 .. Len(bs) : Closed(bs[k])
    PROVE  AllClosed(bs)
  BY LenProperties DEF AllClosed

\* Blocks that leave no escape open are read as they were one by one.
LEMMA FlattenTells ==
    ASSUME NEW bs, AllClosed(bs)
    PROVE  FlattenSeq(bs) \in Seq(Words) /\ Tells(FlattenSeq(bs), Items(bs))
  <1> DEFINE n == Len(bs)
             F(k) == FlattenSeq(SubSeq(bs, 1, k))
             I == {k \in 0 .. n : Tells(F(k), Told(F(k)))}
  <1>1. /\ bs \in Seq(Block) /\ bs \in Seq(Seq(Words)) /\ n \in Nat
        /\ \A k \in 1 .. n : bs[k] \in Block /\ bs[k] \in Seq(Words) /\ Closed(bs[k])
    BY ClosedEach
  <1>2. 0 \in I
    <2>1. F(0) = <<>>
      <3>1. SubSeq(bs, 1, 0) = <<>>
        BY SubSeqEmpty
      <3> QED
        BY <3>1, FlattenNothing
    <2>2. Tells(<<>>, Told(<<>>))
      BY NothingReads, ToldTells
    <2> QED
      BY <1>1, <2>1, <2>2
  <1>3. ASSUME NEW k \in 1 .. n, k - 1 \in I PROVE k \in I
    <2> DEFINE p == SubSeq(bs, 1, k - 1)
               b == bs[k]
    <2>1. b \in Seq(Words) /\ Closed(b) /\ 1 \in 1 .. n /\ k - 1 \in Nat /\ k \in 1 .. n
      BY <1>1
    <2>2. SubSeq(bs, 1, k) = p \o <<b>>
      <3> HIDE DEF I
      <3> QED
        BY <1>1, <2>1, SubSeqRecursiveSecond
    <2>3. p \in Seq(Seq(Words))
      <3>1. \A i \in 1 .. k - 1 : bs[i] \in Seq(Words)
        BY <1>1
      <3> QED
        BY <2>1, <3>1, SubSeqProperties
    <2>4. Tells(b, Told(b))
      BY <2>1, ClosedTells
    <2>5. Tells(FlattenSeq(p), Told(FlattenSeq(p)))
      BY <1>3
    <2> HIDE DEF I, p, b
    <2>6. <<b>> \in Seq(Seq(Words)) /\ FlattenSeq(<<b>>) = b
      BY <2>1, FlattenOne
    <2>7. FlattenSeq(p \o <<b>>) = FlattenSeq(p) \o b
      BY <2>3, <2>6, FlattenConcat
    <2> DEFINE x == FlattenSeq(p) \o b
    <2>8. Tells(x, Told(FlattenSeq(p)) \o Told(b))
      BY <2>4, <2>5, TellsConcat
    <2> HIDE DEF x
    <2>9. Tells(x, Told(x))
      BY <2>8, ToldTells
    <2>10. F(k) = x
      BY <2>2, <2>7 DEF x
    <2>11. k \in 0 .. n
      BY <1>1
    <2> HIDE DEF F
    <2> QED
      BY <2>9, <2>10, <2>11 DEF I
  <1> HIDE DEF I
  <1>4. \A k \in 0 .. n : k \in I
    BY <1>1, <1>2, <1>3, UpTo
  <1>5. n \in I
    BY <1>1, <1>4
  <1>6. SubSeq(bs, 1, n) = bs
    BY <1>1, SubSeqFull
  <1>7. Tells(FlattenSeq(bs), Told(FlattenSeq(bs)))
    BY <1>5, <1>6 DEF I
  <1> QED
    BY <1>7, ToldTells DEF Items, Told

\* Closed blocks behind closed blocks.
LEMMA ClosedConcat ==
    ASSUME NEW a, NEW b, AllClosed(a), AllClosed(b)
    PROVE  /\ AllClosed(a \o b) /\ FlattenSeq(a \o b) = FlattenSeq(a) \o FlattenSeq(b)
           /\ Items(a \o b) = Items(a) \o Items(b)
           /\ Items(a) \in Seq(Commands) /\ Items(b) \in Seq(Commands)
  <1> DEFINE c == a \o b
  <1>1. /\ a \in Seq(Block) /\ a \in Seq(Seq(Words)) /\ Len(a) \in Nat
        /\ \A k \in 1 .. Len(a) : Closed(a[k])
    BY ClosedEach
  <1>2. /\ b \in Seq(Block) /\ b \in Seq(Seq(Words)) /\ Len(b) \in Nat
        /\ \A k \in 1 .. Len(b) : Closed(b[k])
    BY ClosedEach
  <1>3. /\ c \in Seq(Block) /\ Len(c) = Len(a) + Len(b)
        /\ \A k \in 1 .. Len(a) + Len(b) : c[k] = IF k <= Len(a) THEN a[k] ELSE b[k - Len(a)]
    BY <1>1, <1>2, ConcatProperties
  <1>4. FlattenSeq(c) = FlattenSeq(a) \o FlattenSeq(b)
    BY <1>1, <1>2, FlattenConcat
  <1> HIDE DEF c
  <1>5. \A k \in 1 .. Len(c) : Closed(c[k])
    <2> TAKE k \in 1 .. Len(c)
    <2>1. CASE k <= Len(a)
      BY <1>1, <1>3, <2>1
    <2>2. CASE ~(k <= Len(a))
      <3>1. k - Len(a) \in 1 .. Len(b)
        BY <1>1, <1>2, <1>3, <2>2
      <3> QED
        BY <1>2, <1>3, <2>2, <3>1
    <2> QED
      BY <2>1, <2>2
  <1>6. AllClosed(c)
    BY <1>3, <1>5, EachClosed
  <1>7. Tells(FlattenSeq(c), Items(c))
    BY <1>6, FlattenTells
  <1>8. Tells(FlattenSeq(a), Items(a)) /\ Tells(FlattenSeq(b), Items(b))
    BY FlattenTells
  <1>9. Tells(FlattenSeq(c), Items(a) \o Items(b))
    BY <1>4, <1>8, TellsConcat
  <1>10. Items(c) = Items(a) \o Items(b)
    <2> DEFINE f == FlattenSeq(c)
               x == Items(c)
               y == Items(a) \o Items(b)
    <2>1. Tells(f, x) /\ Tells(f, y)
      BY <1>7, <1>9
    <2> HIDE DEF f, x, y
    <2>2. x = Told(f) /\ y = Told(f)
      BY <2>1, ToldTells
    <2> QED
      BY <2>2 DEF x, y
  <1>11. Items(a) \in Seq(Commands) /\ Items(b) \in Seq(Commands)
    BY <1>8, ToldTells
  <1> QED
    BY <1>4, <1>6, <1>10, <1>11 DEF c

\* Where a sequence of blocks is cut in two.
LEMMA ClosedCut ==
    ASSUME NEW a, AllClosed(a), NEW k \in 0 .. Len(a)
    PROVE  /\ AllClosed(SubSeq(a, 1, k)) /\ AllClosed(SubSeq(a, k + 1, Len(a)))
           /\ a = SubSeq(a, 1, k) \o SubSeq(a, k + 1, Len(a))
           /\ Len(SubSeq(a, 1, k)) = k
           /\ \A i \in 1 .. k : SubSeq(a, 1, k)[i] = a[i]
  <1> DEFINE x == SubSeq(a, 1, k)
             y == SubSeq(a, k + 1, Len(a))
             n == Len(a)
  <1>1. /\ a \in Seq(Block) /\ n \in Nat /\ \A i \in 1 .. n : a[i] \in Block /\ Closed(a[i])
    BY ClosedEach
  <1>2. k \in Nat /\ k <= n
    BY <1>1
  <1>3. x \in Seq(Block) /\ Len(x) = k /\ \A i \in 1 .. k : x[i] = a[i]
    <2>1. \A i \in 1 .. k : a[i] \in Block
      BY <1>1, <1>2
    <2> QED
      BY <1>2, <2>1, SubSeqProperties
  <1>4. y \in Seq(Block) /\ Len(y) = n - k /\ \A i \in 1 .. n - k : y[i] = a[k + i]
    <2>1. \A i \in k + 1 .. n : a[i] \in Block
      BY <1>1, <1>2
    <2>2. k + 1 \in Int /\ n \in Int
      BY <1>1, <1>2
    <2> DEFINE m == k + 1
    <2> HIDE DEF n
    <2>3. m \in Int /\ \A i \in m .. n : a[i] \in Block
      BY <2>1, <2>2
    <2> HIDE DEF m
    <2>4. /\ SubSeq(a, m, n) \in Seq(Block)
          /\ Len(SubSeq(a, m, n)) = IF m <= n THEN n - m + 1 ELSE 0
          /\ \A i \in 1 .. n - m + 1 : SubSeq(a, m, n)[i] = a[m + i - 1]
      BY <2>2, <2>3, SubSeqProperties
    <2>5. /\ n - m + 1 = n - k /\ (m <= n <=> k < n) /\ (~(k < n) => n - k = 0)
          /\ \A i \in 1 .. n - k : m + i - 1 = k + i
      BY <1>1, <1>2 DEF m
    <2>6. y = SubSeq(a, m, n)
      BY DEF m, n
    <2> HIDE DEF y
    <2> QED
      BY <1>1, <1>2, <2>4, <2>5, <2>6
  <1> HIDE DEF x, y, n
  <1>5. AllClosed(x)
    BY <1>1, <1>2, <1>3, EachClosed
  <1>6. AllClosed(y)
    <2>1. \A i \in 1 .. Len(y) : k + i \in 1 .. n
      BY <1>1, <1>2, <1>4
    <2>2. \A i \in 1 .. Len(y) : Closed(y[i])
      BY <1>1, <1>4, <2>1
    <2> QED
      BY <1>4, <2>2, EachClosed
  <1>7. a = x \o y
    <2> DEFINE c == x \o y
    <2>1. /\ c \in Seq(Block) /\ Len(c) = n
          /\ \A i \in 1 .. n : c[i] = IF i <= k THEN x[i] ELSE y[i - k]
      <3>1. /\ c \in Seq(Block) /\ Len(c) = Len(x) + Len(y)
            /\ \A i \in 1 .. Len(x) + Len(y) :
                  c[i] = IF i <= Len(x) THEN x[i] ELSE y[i - Len(x)]
        BY <1>3, <1>4, ConcatProperties
      <3>2. Len(x) + Len(y) = n /\ Len(x) = k
        BY <1>1, <1>2, <1>3, <1>4
      <3> HIDE DEF c
      <3> QED
        BY <3>1, <3>2
    <2> HIDE DEF c
    <2>2. \A i \in 1 .. n : c[i] = a[i]
      <3> TAKE i \in 1 .. n
      <3>1. CASE i <= k
        <4>1. i \in 1 .. k
          BY <1>1, <3>1
        <4> QED
          BY <1>3, <2>1, <3>1, <4>1
      <3>2. CASE ~(i <= k)
        <4>1. i - k \in 1 .. n - k /\ k + (i - k) = i
          BY <1>1, <1>2, <3>2
        <4>2. y[i - k] = a[k + (i - k)]
          BY <1>4, <4>1
        <4> QED
          BY <2>1, <3>2, <4>1, <4>2
      <3> QED
        BY <3>1, <3>2
    <2>3. Len(c) = Len(a)
      BY <2>1 DEF n
    <2> QED
      BY <1>1, <2>1, <2>2, <2>3, SeqEqual DEF n, c
  <1> QED
    BY <1>3, <1>5, <1>6, <1>7 DEF x, y, n

\* What is spelled without the escape changes no mode.
LEMMA NoModes ==
    ASSUME NEW w \in Seq(Plain), NEW g \in Gaps
    PROVE  Modes(Read(FALSE, g, w).items) = {}
  <1> DEFINE r == Start(FALSE, g)
             P == Reading(r, w)
             Good(x) == \A i \in 1 .. Len(x) : Len(x[i]) = 3
             I == {k \in 0 .. Len(w) : ~P[k].open /\ Good(P[k].items)}
  <1>0. w \in Seq(Words)
    BY DEF Plain
  <1>1. r \in Readers /\ ~r.open /\ r.items = <<>>
    BY StartType
  <1>2. Read(FALSE, g, w) = P[Len(w)]
    BY DEF Read, ReadFrom
  <1> HIDE DEF r
  <1>3. /\ P \in [0 .. Len(w) -> Readers] /\ P[0] = r
        /\ \A k \in 1 .. Len(w) : P[k] = ReadWord(P[k - 1], w[k])
    BY <1>0, <1>1, ReadingSteps
  <1>4. Len(w) \in Nat /\ \A k \in 1 .. Len(w) : w[k] \in Plain
    OBVIOUS
  <1> HIDE DEF P
  <1>5. 0 \in I
    BY <1>1, <1>3, <1>4
  <1>6. ASSUME NEW k \in 1 .. Len(w), k - 1 \in I PROVE k \in I
    <2>1. k - 1 \in 0 .. Len(w) /\ k \in 0 .. Len(w)
      BY <1>4
    <2> DEFINE x == P[k - 1]
               v == w[k]
               y == ReadWord(x, v)
               m == x.items
    <2>2. x \in Readers /\ v \in Plain /\ P[k] = y
      BY <1>3, <1>4, <2>1
    <2>3. ~x.open /\ Good(m)
      BY <1>6
    <2> HIDE DEF x, v
    <2>4. v \in Words /\ v # FILLER /\ x.open = FALSE /\ m \in Seq(Commands)
      BY <2>2, <2>3 DEF Plain, Readers
    <2>5. y.items = m \o Adds(FALSE, v)
      BY <2>2, <2>4, WordFields, Zenon
    <2>6. ~y.open
      <3>1. y.open <=> (~x.open /\ v = FILLER)
        BY <2>2, <2>4, WordFields
      <3> HIDE DEF y
      <3> QED
        BY <2>4, <3>1
    <2> HIDE DEF y, m
    <2>7. Good(y.items)
      <3> DEFINE t == <<v[1] \div 32, v[1] % 32, v[2]>>
      <3>1. CASE Adds(FALSE, v) = <<>>
        <4>1. y.items = m
          BY <2>4, <2>5, <3>1, ConcatEmptySeq
        <4> QED
          BY <2>3, <4>1
      <3>2. CASE Adds(FALSE, v) = <<t>>
        <4>1. Len(t) = 3
          OBVIOUS
        <4> HIDE DEF t
        <4>2. t \in Commands
          <5>1. <<t>> \in Seq(Commands) /\ <<t>>[1] = t /\ Len(<<t>>) = 1
            BY <2>4, <3>2, AddsType
          <5> QED
            BY <5>1, ElementOfSeq
        <4>3. /\ Len(m \o <<t>>) = Len(m) + 1 /\ Len(m) \in Nat
              /\ \A i \in 1 .. Len(m) : (m \o <<t>>)[i] = m[i]
              /\ (m \o <<t>>)[Len(m) + 1] = t
          BY <2>4, <4>2
        <4> DEFINE z == m \o <<t>>
        <4> HIDE DEF z
        <4>4. Good(z)
          BY <2>3, <4>1, <4>3 DEF z
        <4> QED
          BY <2>5, <3>2, <4>4 DEF z
      <3>3. Adds(FALSE, v) = <<>> \/ Adds(FALSE, v) = <<t>>
        BY Zenon DEF Adds
      <3> QED
        BY <3>1, <3>2, <3>3
    <2> QED
      BY <2>1, <2>2, <2>6, <2>7 DEF y
  <1> HIDE DEF I
  <1>7. \A k \in 0 .. Len(w) : k \in I
    BY <1>4, <1>5, <1>6, UpTo
  <1>8. Len(w) \in I
    BY <1>4, <1>7
  <1> DEFINE x == Read(FALSE, g, w).items
  <1>9. Good(x)
    BY <1>2, <1>8 DEF I
  <1>10. x \in Seq(Commands)
    BY <1>0, ReadType
  <1> HIDE DEF x
  <1>11. Modes(x) = {}
    <2>1. DOMAIN x = 1 .. Len(x)
      BY <1>10, LenProperties
    <2>2. \A i \in DOMAIN x : Len(x[i]) # 1
      <3> TAKE i \in DOMAIN x
      <3>1. Len(x[i]) = 3
        BY <1>9, <2>1, Zenon
      <3> QED
        BY <3>1
    <2> QED
      BY <2>2, Zenon DEF Modes
  <1> QED
    BY <1>11 DEF x

-----------------------------------------------------------------------------
(* Padding and cutting (Filled) *)

\* How many blocks there are, and that they have room for the payload.
LEMMA FilledCount ==
    ASSUME NEW l \in Nat
    PROVE  /\ (l + BlockWords - 1) \div BlockWords \in Nat
           /\ ((l + BlockWords - 1) \div BlockWords) * BlockWords >= l
           /\ l > 0 => (l + BlockWords - 1) \div BlockWords >= 1
           /\ l = 0 => (l + BlockWords - 1) \div BlockWords = 0
  BY WireAssumption

Slices(F, q, w) ==
    \A k \in 1 .. Len(F) : \A i \in 1 .. BlockWords :
        F[k][i] = IF (k - 1) * BlockWords + i <= Len(q)
                  THEN q[(k - 1) * BlockWords + i] ELSE w

\* The blocks of a payload: whose words they are.
LEMMA FilledEach ==
    ASSUME NEW V, NEW q \in Seq(V), NEW w \in V
    PROVE  /\ Len(Filled(q, w)) = (Len(q) + BlockWords - 1) \div BlockWords
           /\ Filled(q, w) \in Seq([1 .. BlockWords -> V])
           /\ Slices(Filled(q, w), q, w)
  <1> DEFINE n == (Len(q) + BlockWords - 1) \div BlockWords
             F == Filled(q, w)
  <1>1. n \in Nat
    BY FilledCount
  <1> HIDE DEF n
  <1>2. F = [k \in 1 .. n |-> [i \in 1 .. BlockWords |->
                IF (k - 1) * BlockWords + i <= Len(q) THEN q[(k - 1) * BlockWords + i] ELSE w]]
    BY DEF Filled, n
  <1> HIDE DEF F
  <1>3. \A k \in 1 .. n : F[k] \in [1 .. BlockWords -> V]
    <2> TAKE k \in 1 .. n
    <2> DEFINE o == (k - 1) * BlockWords
    <2>1. o \in Nat
      BY <1>1, WireAssumption
    <2> HIDE DEF o
    <2>2. F[k] = [i \in 1 .. BlockWords |-> IF o + i <= Len(q) THEN q[o + i] ELSE w]
      BY <1>2 DEF o
    <2>3. \A i \in 1 .. BlockWords : o + i <= Len(q) => q[o + i] \in V
      BY <2>1, WireAssumption, ElementOfSeq
    <2> QED
      BY <2>2, <2>3
  <1>5. F \in Seq([1 .. BlockWords -> V]) /\ Len(F) = n
    <2> DEFINE B == [1 .. BlockWords -> V]
    <2>1. F \in [1 .. n -> B]
      BY <1>2, <1>3
    <2> HIDE DEF B
    <2>2. F \in Seq(B) /\ Len(F) = n
      BY <1>1, <2>1
    <2> QED
      BY <2>2 DEF B
  <1> QED
    BY <1>1, <1>2, <1>5 DEF Slices, n, F

\* Together they are the payload and what is missing of the last.
LEMMA FilledFlat ==
    ASSUME NEW q \in Seq(Words), NEW w \in Words
    PROVE  \E m \in Nat : FlattenSeq(Filled(q, w)) = q \o [i \in 1 .. m |-> w]
  <1> DEFINE L == Len(q)
             B == BlockWords
             n == (Len(q) + BlockWords - 1) \div BlockWords
             F == Filled(q, w)
             T(k) == [i \in 1 .. k * B |-> IF i <= L THEN q[i] ELSE w]
  <1>0. B \in Nat /\ B >= 2 /\ L \in Nat /\ n \in Nat /\ n * B >= L
    BY WireAssumption, FilledCount
  <1>1. /\ F \in Seq(Block) /\ Len(F) = n
        /\ \A k \in 1 .. n : \A i \in 1 .. B :
              F[k][i] = IF (k - 1) * B + i <= L THEN q[(k - 1) * B + i] ELSE w
    <2>1. F \in Seq([1 .. BlockWords -> Words]) /\ Len(F) = n /\ Slices(F, q, w)
      BY FilledEach, Zenon
    <2> HIDE DEF L, B, F, n
    <2> QED
      BY <2>1, Zenon DEF Block, B, L, Slices
  <1> HIDE DEF n, F, L, B
  <1>2. F \in Seq(Seq(Words))
    BY <1>1, BlockSeq
  <1>3. PICK f : /\ f \in [0 .. Len(F) -> Seq(Words)] /\ f[0] = <<>>
                 /\ \A k \in 1 .. Len(F) : f[k] = f[k - 1] \o F[k]
                 /\ FlattenSeq(F) = f[Len(F)]
    BY <1>2, FlattenSteps
  <1> DEFINE I == {k \in 0 .. n : f[k] = T(k)}
  <1>4. 0 \in I
    <2>1. 0 * B = 0
      BY <1>0
    <2>2. T(0) = <<>>
      BY <2>1
    <2> QED
      BY <1>0, <1>3, <2>2
  <1>5. ASSUME NEW k \in 1 .. n, k - 1 \in I PROVE k \in I
    <2> DEFINE o == (k - 1) * B
               s == T(k - 1)
               b == F[k]
               u == T(k)
               z == [i \in 1 .. o + B |-> IF i <= L THEN q[i] ELSE w]
    <2>1. o \in Nat /\ k * B = o + B
      BY <1>0
    <2>2. f[k] = s \o b
      BY <1>1, <1>3, <1>5
    <2>3. /\ b \in Seq(Words) /\ Len(b) = B
          /\ \A i \in 1 .. B : b[i] = IF o + i <= L THEN q[o + i] ELSE w
      <3>1. b \in Block
        BY <1>1, ElementOfSeq
      <3> HIDE DEF b
      <3>2. b \in Seq(Words) /\ Len(b) = B
        BY <3>1, BlockSeq DEF B
      <3> QED
        BY <1>1, <3>2 DEF b
    <2> HIDE DEF o
    <2>4. s = [i \in 1 .. o |-> IF i <= L THEN q[i] ELSE w]
      BY DEF o
    <2>5. u = z
      BY <2>1
    <2>6. \A i \in Nat \ {0} : i <= L => q[i] \in Words
      BY <1>0 DEF L
    <2> HIDE DEF s, b, u, I
    <2>7. s \in Seq(Words) /\ Len(s) = o
      BY <2>1, <2>4, <2>6
    <2>8. z \in Seq(Words) /\ Len(z) = o + B /\ \A i \in 1 .. o + B : z[i] = IF i <= L THEN q[i] ELSE w
      BY <1>0, <2>1, <2>6
    <2> HIDE DEF z
    <2>9. /\ s \o b \in Seq(Words) /\ Len(s \o b) = o + B
          /\ \A i \in 1 .. o + B : (s \o b)[i] = IF i <= o THEN s[i] ELSE b[i - o]
      BY <2>3, <2>7, ConcatProperties
    <2>10. \A i \in 1 .. o + B : (s \o b)[i] = z[i]
      <3> TAKE i \in 1 .. o + B
      <3>1. CASE i <= o
        <4>1. s[i] = IF i <= L THEN q[i] ELSE w
          BY <1>0, <2>1, <2>4, <3>1
        <4> QED
          BY <2>8, <2>9, <3>1, <4>1
      <3>2. CASE ~(i <= o)
        <4>1. i - o \in 1 .. B /\ o + (i - o) = i
          BY <1>0, <2>1, <3>2
        <4>2. b[i - o] = IF i <= L THEN q[i] ELSE w
          BY <2>3, <4>1
        <4> QED
          BY <2>8, <2>9, <3>2, <4>2
      <3> QED
        BY <3>1, <3>2
    <2> DEFINE c == s \o b
    <2>11. c = z
      <3>1. c \in Seq(Words) /\ Len(c) = Len(z) /\ \A i \in 1 .. Len(c) : c[i] = z[i]
        BY <2>8, <2>9, <2>10
      <3> HIDE DEF c
      <3> QED
        BY <2>8, <3>1, SeqEqual
    <2>12. k \in 0 .. n
      BY <1>0
    <2>13. f[k] = u
      BY <2>2, <2>5, <2>11
    <2> QED
      BY <2>12, <2>13 DEF I, u
  <1> HIDE DEF I
  <1>6. \A k \in 0 .. n : k \in I
    BY <1>0, <1>4, <1>5, UpTo
  <1>7. FlattenSeq(F) = T(n)
    <2>1. n \in I
      BY <1>0, <1>6
    <2> QED
      BY <1>1, <1>3, <2>1 DEF I
  <1> DEFINE M == n * B
             m == M - L
             pads == [i \in 1 .. m |-> w]
             t == [i \in 1 .. M |-> IF i <= L THEN q[i] ELSE w]
  <1>8. M \in Nat /\ m \in Nat /\ M = L + m
    BY <1>0
  <1>9. T(n) = t
    OBVIOUS
  <1> HIDE DEF T, M, m
  <1>10. pads \in Seq(Words) /\ Len(pads) = m /\ \A i \in 1 .. m : pads[i] = w
    BY <1>8
  <1>11. t \in Seq(Words) /\ Len(t) = M /\ \A i \in 1 .. M : t[i] = IF i <= L THEN q[i] ELSE w
    BY <1>0, <1>8 DEF L
  <1> HIDE DEF pads, t
  <1> DEFINE c == q \o pads
  <1>12. /\ c \in Seq(Words) /\ Len(c) = L + m
         /\ \A i \in 1 .. L + m : c[i] = IF i <= L THEN q[i] ELSE pads[i - L]
    BY <1>10, ConcatProperties DEF L
  <1> HIDE DEF c
  <1>13. \A i \in 1 .. M : c[i] = t[i]
    <2> TAKE i \in 1 .. M
    <2>1. CASE i <= L
      BY <1>8, <1>11, <1>12, <2>1
    <2>2. CASE ~(i <= L)
      <3>1. i - L \in 1 .. m
        BY <1>0, <1>8, <2>2
      <3> QED
        BY <1>8, <1>10, <1>11, <1>12, <2>2, <3>1
    <2> QED
      BY <2>1, <2>2
  <1>14. c = t
    <2>1. Len(c) = Len(t) /\ \A i \in 1 .. Len(c) : c[i] = t[i]
      BY <1>8, <1>11, <1>12, <1>13
    <2> QED
      BY <1>11, <1>12, <2>1, SeqEqual
  <1>15. FlattenSeq(F) = q \o [i \in 1 .. m |-> w]
    BY <1>7, <1>9, <1>14 DEF c, pads
  <1> QED
    BY <1>8, <1>15 DEF F

-----------------------------------------------------------------------------
(* Padding (pad_even) *)

\* The padding is a delay of none.
LEMMA PadWord == PAD_WORD \in Plain /\ PAD_WORD \in Words /\ PAD_WORD[1] = 238
  BY DEF PAD_WORD, DELAY_ZERO, Plain, Words, Bytes, FILLER

\* The payload made even.
Evened(p) == IF Len(p) % 2 = 1 THEN p \o <<D8>> ELSE p

\* The blocks of a payload are those of the payload made even.
LEMMA PadEven == \A p : pad_even(p) = Filled(Evened(p), PAD_WORD)
  BY DEF pad_even, Evened, D8

\* Over the same words.
LEMMA EvenedType ==
    ASSUME NEW V, D8 \in V, NEW p \in Seq(V)
    PROVE  Evened(p) \in Seq(V)
  <1>1. <<D8>> \in Seq(V)
    OBVIOUS
  <1>2. p \o <<D8>> \in Seq(V)
    BY <1>1, ConcatProperties
  <1> QED
    BY <1>2, Zenon DEF Evened

\* They are blocks.
LEMMA PadBlocks ==
    ASSUME NEW p \in Seq(Words)
    PROVE  pad_even(p) \in Seq(Block)
  <1>1. Evened(p) \in Seq(Words)
    BY D8Reads, EvenedType DEF Plain
  <1> QED
    BY <1>1, PadWord, PadEven, FilledEach, Zenon DEF Block

\* Whatever its size, no block of a payload ends in an escape that is not its
\* first word.
LEMMA FilledClosed ==
    ASSUME NEW p \in Seq(Words), NEW w \in Plain,
           \A j \in 2 .. Len(p) : p[j] # FILLER
    PROVE  AllClosed(Filled(p, w))
  <1> DEFINE F == Filled(p, w)
  <1>1. w \in Words /\ w # FILLER
    BY DEF Plain
  <1>2. F \in Seq(Block) /\ Slices(F, p, w)
    BY <1>1, FilledEach, Zenon DEF Block
  <1> HIDE DEF F
  <1>3. \A k \in 1 .. Len(F) : Closed(F[k])
    <2> TAKE k \in 1 .. Len(F)
    <2> DEFINE b == F[k]
               o == (k - 1) * BlockWords
    <2>1. BlockWords \in Nat /\ BlockWords >= 2 /\ o \in Nat
      BY WireAssumption
    <2>2. b \in Seq(Words) /\ Len(b) = BlockWords
      <3>1. b \in Block
        BY <1>2, ElementOfSeq
      <3> HIDE DEF b
      <3> QED
        BY <3>1, BlockSeq
    <2>3. b[BlockWords] = IF o + BlockWords <= Len(p) THEN p[o + BlockWords] ELSE w
      <3>1. BlockWords \in 1 .. BlockWords
        BY <2>1
      <3> QED
        BY <1>2, <3>1 DEF Slices
    <2> HIDE DEF b, o
    <2>4. b[BlockWords] # FILLER
      BY <1>1, <2>1, <2>3
    <2>5. 0 \in Gaps /\ b[Len(b)] # FILLER
      BY <2>2, <2>4, FullGap
    <2>6. ~Read(FALSE, 0, b).open
      BY <2>2, <2>5, LastCloses
    <2> QED
      BY <2>6 DEF Closed, b
  <1>4. AllClosed(F)
    BY <1>2, <1>3, EachClosed
  <1> QED
    BY <1>4 DEF F

\* Nor does one that is made even first (pad_even).
LEMMA PadClosed ==
    ASSUME NEW p \in Seq(Words), \A j \in 2 .. Len(p) : p[j] # FILLER
    PROVE  AllClosed(pad_even(p))
  <1> DEFINE q == Evened(p)
  <1>1. D8 \in Words /\ D8 # FILLER
    BY D8Reads DEF Plain
  <1>2. q \in Seq(Words)
    BY <1>1, EvenedType
  <1>3. \A j \in 2 .. Len(q) : q[j] # FILLER
    <2>1. CASE Len(p) % 2 = 1
      <3> DEFINE t == <<D8>>
      <3>1. t \in Seq(Words) /\ Len(t) = 1 /\ t[1] # FILLER
        BY <1>1
      <3>2. q = p \o t
        BY <2>1 DEF Evened
      <3> HIDE DEF t, q
      <3> QED
        BY <3>1, <3>2, ConcatProperties
    <2>2. CASE Len(p) % 2 # 1
      BY <2>2 DEF Evened
    <2> QED
      BY <2>1, <2>2
  <1>4. pad_even(p) = Filled(q, PAD_WORD)
    BY PadEven
  <1> HIDE DEF q
  <1> QED
    BY <1>2, <1>3, <1>4, PadWord, FilledClosed

\* Without the escape in the payload, there is none in its blocks.
LEMMA PlainPads ==
    ASSUME NEW p \in Seq(Plain)
    PROVE  /\ p \in Seq(Words) /\ AllClosed(pad_even(p))
           /\ \A k \in 1 .. Len(pad_even(p)) : pad_even(p)[k] \in Seq(Plain)
  <1>1. p \in Seq(Words) /\ \A j \in 2 .. Len(p) : p[j] # FILLER
    BY DEF Plain
  <1>2. AllClosed(pad_even(p))
    BY <1>1, PadClosed
  <1>3. Evened(p) \in Seq(Plain)
    BY D8Reads, EvenedType
  <1>4. pad_even(p) \in Seq([1 .. BlockWords -> Plain])
    BY <1>3, PadWord, PadEven, FilledEach, Zenon
  <1>5. [1 .. BlockWords -> Plain] \subseteq Seq(Plain)
    BY WireAssumption
  <1>6. \A k \in 1 .. Len(pad_even(p)) : pad_even(p)[k] \in [1 .. BlockWords -> Plain]
    BY <1>4, ElementOfSeq
  <1> QED
    BY <1>1, <1>2, <1>5, <1>6

\* Padding says nothing, and after a payload of odd length it takes MIN_CYCLES.
LEMMA PadTail ==
    ASSUME NEW p \in Seq(Words)
    PROVE  \E t : /\ Idle(t) /\ FlattenSeq(pad_even(p)) = p \o t
                  /\ Len(p) % 2 = 1 => \E i \in 1 .. Len(t) : Span(t[i]) >= MIN_CYCLES
  <1> DEFINE q == Evened(p)
             pads(m) == [i \in 1 .. m |-> PAD_WORD]
  <1>1. D8 \in Words /\ D8[1] = 238 /\ Span(D8) = MIN_CYCLES
    BY D8Reads DEF Plain
  <1>2. q \in Seq(Words)
    BY <1>1, EvenedType
  <1>3. PICK m \in Nat : FlattenSeq(pad_even(p)) = q \o pads(m)
    <2>1. \E m \in Nat : FlattenSeq(Filled(q, PAD_WORD)) = q \o pads(m)
      <3> HIDE DEF q
      <3> QED
        BY <1>2, PadWord, FilledFlat
    <2> QED
      BY <2>1, PadEven, Zenon
  <1> DEFINE z == pads(m)
  <1>4. z \in Seq(Words) /\ Len(z) = m /\ \A i \in 1 .. m : z[i] = PAD_WORD
    BY PadWord
  <1>5. Idle(z)
    <2> HIDE DEF z
    <2> QED
      BY <1>4, PadWord DEF Idle
  <1>6. FlattenSeq(pad_even(p)) = q \o z
    BY <1>3
  <1> HIDE DEF z, pads
  <1>7. CASE Len(p) % 2 = 1
    <2> DEFINE d == <<D8>>
               t == d \o z
    <2>1. d \in Seq(Words) /\ Len(d) = 1 /\ d[1] = D8
      BY <1>1
    <2>2. q = p \o d
      BY <1>7 DEF Evened
    <2> HIDE DEF d, q
    <2>3. /\ t \in Seq(Words) /\ Len(t) = 1 + m
          /\ \A i \in 1 .. 1 + m : t[i] = IF i <= 1 THEN d[i] ELSE z[i - 1]
      <3>1. /\ t \in Seq(Words) /\ Len(t) = Len(d) + Len(z)
            /\ \A i \in 1 .. Len(d) + Len(z) :
                  t[i] = IF i <= Len(d) THEN d[i] ELSE z[i - Len(d)]
        BY <1>4, <2>1, ConcatProperties
      <3> HIDE DEF t
      <3> QED
        BY <1>4, <2>1, <3>1
    <2>4. FlattenSeq(pad_even(p)) = p \o t
      <3>1. z \in Seq(Words)
        BY <1>4
      <3>2. (p \o d) \o z = p \o (d \o z)
        BY <2>1, <3>1, ConcatAssociative, SMTT(20)
      <3> QED
        BY <1>6, <2>2, <3>2
    <2> HIDE DEF t
    <2>5. t[1] = D8 /\ 1 \in 1 .. Len(t)
      BY <2>1, <2>3
    <2>6. \A i \in 1 .. Len(t) : t[i][1] = 238
      <3> TAKE i \in 1 .. Len(t)
      <3>1. CASE i = 1
        BY <1>1, <2>5, <3>1
      <3>2. CASE i # 1
        <4>1. t[i] = z[i - 1] /\ i - 1 \in 1 .. m
          BY <2>3, <3>2
        <4> QED
          BY <1>4, <4>1, PadWord
      <3> QED
        BY <3>1, <3>2
    <2>7. Idle(t)
      BY <2>3, <2>6 DEF Idle
    <2>8. Span(t[1]) >= MIN_CYCLES
      BY <1>1, <2>5 DEF MIN_CYCLES
    <2> QED
      BY <2>4, <2>5, <2>7, <2>8
  <1>8. CASE Len(p) % 2 # 1
    <2>1. q = p
      BY <1>8 DEF Evened
    <2> QED
      BY <1>5, <1>6, <1>8, <2>1
  <1> QED
    BY <1>7, <1>8

\* A stream that ends well: nothing was written too early, and the next write
\* may come at once, if only because of the padding.
EndsWell(p) ==
    /\ ~Read(FALSE, MIN_CYCLES, p).early
    /\ \/ Read(FALSE, MIN_CYCLES, p).gap = MIN_CYCLES
       \/ Len(p) % 2 = 1

\* The blocks of a payload say what the payload says.
LEMMA PadTells ==
    ASSUME NEW p, NEW x, Tells(p, x), AllClosed(pad_even(p))
    PROVE  /\ Items(pad_even(p)) = x
           /\ EndsWell(p) => Even(FlattenSeq(pad_even(p)))
  <1> DEFINE f == FlattenSeq(pad_even(p))
             g == MIN_CYCLES
  <1>1. p \in Seq(Words) /\ ~Read(FALSE, g, p).open /\ x \in Seq(Commands)
    BY FullGap, ToldTells DEF Tells
  <1>2. PICK t : /\ Idle(t) /\ f = p \o t
                 /\ Len(p) % 2 = 1 => \E i \in 1 .. Len(t) : Span(t[i]) >= g
    BY <1>1, PadTail
  <1>3. t \in Seq(Words)
    BY <1>2 DEF Idle
  <1>4. Tells(t, <<>>)
    BY <1>2, <1>3, IdleReads, Zenon DEF Tells
  <1>5. Tells(f, x)
    <2>1. Tells(p \o t, x \o <<>>)
      BY <1>4, TellsConcat
    <2>2. x \o <<>> = x
      BY <1>1, ConcatEmptySeq
    <2> QED
      BY <1>2, <2>1, <2>2
  <1>6. Tells(f, Items(pad_even(p)))
    BY FlattenTells
  <1>7. Items(pad_even(p)) = x
    <2> DEFINE y == Items(pad_even(p))
    <2> HIDE DEF f, y
    <2>1. y = Told(f) /\ x = Told(f)
      BY <1>5, <1>6, ToldTells DEF y
    <2> QED
      BY <2>1 DEF y
  <1>8. ASSUME EndsWell(p) PROVE Even(f)
    <2> DEFINE h == Read(FALSE, g, p).gap
               e == Read(FALSE, h, t).gap
    <2>1. h \in Gaps
      BY <1>1, FullGap, ReadType
    <2>2. ~Read(FALSE, g, p).early /\ (h = g \/ Len(p) % 2 = 1)
      BY <1>8 DEF EndsWell
    <2>3. Read(FALSE, g, f).gap = e /\ (Read(FALSE, g, f).early <=> Read(FALSE, h, t).early)
      <3>1. g \in Gaps
        BY FullGap
      <3> DEFINE c == Read(FALSE, g, p \o t)
      <3>2. c.gap = e /\ (c.early <=> Read(FALSE, g, p).early \/ Read(FALSE, h, t).early)
        <4> HIDE DEF f
        <4> QED
          BY <1>1, <1>3, <3>1, Joined
      <3>3. c = Read(FALSE, g, f)
        BY <1>2
      <3> HIDE DEF c, e, h, f
      <3> QED
        BY <2>2, <3>2, <3>3
    <2> HIDE DEF h
    <2>4. e \in Gaps
      BY <1>3, <2>1, ReadType
    <2>5. /\ ~Read(FALSE, h, t).early /\ e >= h
          /\ (\E i \in 1 .. Len(t) : Span(t[i]) >= g) => e = g
      BY <1>2, <2>1, IdleReads
    <2> HIDE DEF e, f
    <2>6. e = g
      <3>1. CASE h = g
        BY <2>4, <2>5, <3>1, FullGap DEF Gaps
      <3>2. CASE Len(p) % 2 = 1
        BY <1>2, <2>5, <3>2
      <3> QED
        BY <2>2, <3>1, <3>2
    <2> QED
      BY <2>3, <2>5, <2>6 DEF Even
  <1> QED
    BY <1>7, <1>8

\* The escape of a mode change has its payload in the same block.
LEMMA ModeCloses ==
    ASSUME NEW m \in 0 .. 1
    PROVE  /\ AllClosed(ModeBlock(m)) /\ Items(ModeBlock(m)) = <<<<m>>>>
           /\ Even(FlattenSeq(ModeBlock(m)))
  <1> DEFINE p == <<FILLER, word(0, m)>>
             v == word(0, m)
  <1>1. v \in Plain /\ v \in Words /\ FILLER \in Words /\ v[1] = 0 /\ v[2] = m
    <2>1. word(0, m) \in Plain
      BY WordPlain
    <2>2. 0 % 256 = 0 /\ m % 256 = m
      OBVIOUS
    <2>3. word(0, m) = <<0, m>>
      BY <2>2 DEF word
    <2> QED
      BY <2>1, <2>3 DEF Plain, FILLER, Words, Bytes
  <1> HIDE DEF v
  <1>2. p \in Seq(Words) /\ Len(p) = 2 /\ p[2] = v
    BY <1>1 DEF v
  <1>3. ModeBlock(m) = pad_even(p)
    BY DEF ModeBlock
  <1>4. \A j \in 2 .. Len(p) : p[j] # FILLER
    BY <1>1, <1>2 DEF Plain
  <1>5. AllClosed(ModeBlock(m))
    BY <1>2, <1>3, <1>4, PadClosed
  <1>6. ASSUME NEW g \in Gaps
        PROVE  /\ ~Read(FALSE, g, p).open /\ Read(FALSE, g, p).items = <<<<m>>>>
               /\ ~Read(FALSE, g, p).early /\ Read(FALSE, g, p).gap = g
    <2> DEFINE r == Start(FALSE, g)
               s == ReadWord(r, FILLER)
               t == ReadWord(s, v)
    <2>1. r \in Readers /\ ~r.open /\ r.open = FALSE /\ r.gap = g /\ r.items = <<>> /\ ~r.early
      BY StartType
    <2>2. Read(FALSE, g, p) = t
      <3>1. p = <<FILLER>> \o <<v>> /\ <<FILLER>> \in Seq(Words) /\ <<v>> \in Seq(Words)
        BY <1>1 DEF v
      <3> HIDE DEF r, p
      <3>2. Read(FALSE, g, p) = ReadFrom(ReadFrom(r, <<FILLER>>), <<v>>)
        BY <2>1, <3>1, ReadConcat DEF Read, r
      <3>3. s \in Readers
        BY <1>1, <2>1, ReadWordType
      <3> QED
        BY <1>1, <2>1, <3>2, <3>3, ReadOne
    <2> HIDE DEF r
    <2>3. s = [r EXCEPT !.open = TRUE]
      BY <2>1, ReadEscape
    <2>4. s \in Readers /\ s.open /\ s.open = TRUE /\ s.gap = g /\ s.items = <<>> /\ ~s.early
      <3>1. s \in Readers
        BY <1>1, <2>1, ReadWordType
      <3> QED
        BY <2>1, <2>3, <3>1 DEF Readers
    <2> HIDE DEF s
    <2>5. Adds(TRUE, v) = <<<<m>>>>
      BY <1>1, Zenon DEF Adds
    <2>6. t = Escaped(s, v)
      BY <2>4, ReadEscaped
    <2> DEFINE a == Append(s.items, <<v[2]>>)
    <2>7. a = <<<<m>>>>
      BY <1>1, <2>4
    <2>8. t = [s EXCEPT !.open = FALSE, !.items = a]
      BY <1>1, <2>6 DEF Escaped
    <2> HIDE DEF a, t
    <2>9. ~t.open /\ t.items = a /\ t.gap = g /\ ~t.early
      BY <2>4, <2>8 DEF Readers
    <2> QED
      BY <2>2, <2>7, <2>9
  <1> HIDE DEF p
  <1>7. Tells(p, <<<<m>>>>)
    BY <1>2, <1>6, Zenon DEF Tells
  <1>8. EndsWell(p)
    BY <1>6, FullGap DEF EndsWell
  <1> QED
    BY <1>3, <1>5, <1>7, <1>8, PadTells

\* A zero is a write like any other.
LEMMA ZeroWord ==
    /\ word(0, 0) \in Plain /\ word(0, 0) \in Words
    /\ word(0, 1) \in Plain /\ word(0, 1) \in Words /\ FILLER \in Words
    /\ Adds(FALSE, word(0, 0)) = <<<<0, 0, 0>>>>
    /\ Adds(TRUE, word(0, 1)) = <<<<1>>>>
    /\ Adds(FALSE, FILLER) = <<>>
  <1>1. word(0, 0) = <<0, 0>> /\ word(0, 1) = <<0, 1>>
    BY DEF word
  <1>2. word(0, 0) \in Plain /\ word(0, 1) \in Plain
    BY WordPlain
  <1>3. FILLER \in Words
    BY DEF FILLER, Words, Bytes
  <1>4. Adds(FALSE, <<0, 0>>) = <<<<0, 0, 0>>>>
    BY DEF Adds, FILLER
  <1>5. Adds(TRUE, <<0, 1>>) = <<<<1>>>>
    BY DEF Adds
  <1>6. Adds(FALSE, FILLER) = <<>>
    BY DEF Adds, FILLER
  <1> QED
    BY <1>1, <1>2, <1>3, <1>4, <1>5, <1>6 DEF Plain

\* The commands of the start block, one by one.
LEMMA StartItemsEach ==
    /\ StartItems \in Seq(Commands) /\ Len(StartItems) = BlockWords - 1
    /\ StartItems[1] = <<1>>
    /\ \A i \in 2 .. BlockWords - 1 : StartItems[i] = <<0, 0, 0>>
    /\ StartItems \in Seq(Promised)
  <1> DEFINE n == BlockWords - 2
             o == <<1>>
             z == <<0, 0, 0>>
             a == <<o>>
             s == [i \in 1 .. n |-> z]
  <1>1. n \in Nat /\ n + 1 = BlockWords - 1
    BY WireAssumption
  <1>2. o \in Promised /\ z \in Promised /\ Promised \subseteq Commands
    <2>1. o \in Commands /\ Len(o) = 1 /\ z \in Commands
      BY DEF Commands
    <2> QED
      BY <2>1 DEF Promised
  <1>3. StartItems = a \o s
    BY DEF StartItems
  <1> HIDE DEF n, o, z
  <1>4. a \in Seq(Promised) /\ Len(a) = 1 /\ a[1] = o
    BY <1>2
  <1>5. s \in Seq(Promised) /\ Len(s) = n /\ \A i \in 1 .. n : s[i] = z
    BY <1>1, <1>2
  <1> HIDE DEF a, s
  <1>6. /\ StartItems \in Seq(Promised) /\ Len(StartItems) = n + 1
        /\ \A i \in 1 .. n + 1 : StartItems[i] = IF i <= 1 THEN a[i] ELSE s[i - 1]
    <2> DEFINE c == a \o s
    <2>1. /\ c \in Seq(Promised) /\ Len(c) = Len(a) + Len(s)
          /\ \A i \in 1 .. Len(a) + Len(s) : c[i] = IF i <= Len(a) THEN a[i] ELSE s[i - Len(a)]
      BY <1>4, <1>5, ConcatProperties
    <2> HIDE DEF c
    <2>2. Len(a) + Len(s) = n + 1
      BY <1>1, <1>4, <1>5
    <2> QED
      BY <1>3, <1>4, <2>1, <2>2 DEF c
  <1>7. StartItems[1] = o /\ \A i \in 2 .. n + 1 : StartItems[i] = z
    BY <1>1, <1>4, <1>5, <1>6
  <1>8. StartItems \in Seq(Commands)
    BY <1>2, <1>6, SeqMonotonic
  <1> QED
    BY <1>1, <1>6, <1>7, <1>8 DEF o, z

\* It is one block: the toggle, and zeros.
LEMMA StartWords ==
    \E b \in Block : /\ StartBlock = <<b>> /\ AllClosed(StartBlock)
                     /\ b[1] = FILLER /\ b[2] = word(0, 1)
                     /\ \A i \in 3 .. BlockWords : b[i] = word(0, 0)
  <1> DEFINE v == word(0, 1)
             z == word(0, 0)
             p == <<FILLER, v>>
             F == StartBlock
  <1>1. v \in Words /\ z \in Words /\ z \in Plain /\ FILLER \in Words /\ v # FILLER
    BY ZeroWord DEF Plain
  <1>2. F = Filled(p, z)
    BY DEF StartBlock
  <1> HIDE DEF v, z, F
  <1>3. p \in Seq(Words) /\ Len(p) = 2 /\ p[1] = FILLER /\ p[2] = v
    BY <1>1
  <1> HIDE DEF p
  <1>4. AllClosed(F)
    <2>1. \A j \in 2 .. Len(p) : p[j] # FILLER
      BY <1>1, <1>3
    <2> QED
      BY <1>1, <1>2, <1>3, <2>1, FilledClosed
  <1>5. /\ Len(F) = (2 + BlockWords - 1) \div BlockWords
        /\ F \in Seq(Block) /\ Slices(F, p, z)
    <2>1. F \in Seq(Block) /\ Slices(F, p, z)
      BY <1>1, <1>2, <1>3, FilledEach, Zenon DEF Block
    <2>2. Len(F) = (Len(p) + BlockWords - 1) \div BlockWords
      BY <1>1, <1>2, <1>3, FilledEach
    <2> QED
      BY <1>3, <2>1, <2>2
  <1>6. (2 + BlockWords - 1) \div BlockWords = 1 /\ BlockWords \in Nat /\ BlockWords >= 2
    BY WireAssumption
  <1> DEFINE b == F[1]
  <1>7. b \in Block /\ F = <<b>>
    <2>1. Len(F) = 1 /\ F \in Seq(Block)
      BY <1>5, <1>6
    <2>2. b \in Block
      BY <2>1, ElementOfSeq
    <2> DEFINE c == <<b>>
    <2>3. c \in Seq(Block) /\ Len(c) = 1 /\ c[1] = b
      BY <2>2
    <2>4. \A i \in 1 .. 1 : F[i] = c[i]
      BY <2>3
    <2> HIDE DEF c
    <2>5. F = c
      BY <2>1, <2>3, <2>4, SeqEqual
    <2> QED
      BY <2>2, <2>5 DEF c
  <1>8. \A i \in 1 .. BlockWords : b[i] = IF i <= 2 THEN p[i] ELSE z
    <2> TAKE i \in 1 .. BlockWords
    <2>1. 1 \in 1 .. Len(F) /\ (1 - 1) * BlockWords + i = i
      BY <1>5, <1>6
    <2> QED
      BY <1>3, <1>5, <2>1 DEF Slices
  <1> HIDE DEF b
  <1>9. b[1] = FILLER /\ b[2] = v /\ \A i \in 3 .. BlockWords : b[i] = z
    BY <1>3, <1>6, <1>8
  <1> QED
    BY <1>4, <1>7, <1>9 DEF v, z, F

\* Its zeros are read as writes to chip 0.
LEMMA StartReads ==
    AllClosed(StartBlock) /\ Items(StartBlock) = StartItems /\ StartItems \in Seq(Promised)
  <1>1. PICK b \in Block : /\ StartBlock = <<b>> /\ AllClosed(StartBlock)
                           /\ b[1] = FILLER /\ b[2] = word(0, 1)
                           /\ \A i \in 3 .. BlockWords : b[i] = word(0, 0)
    BY StartWords
  <1>2. b \in Seq(Words) /\ Len(b) = BlockWords /\ BlockWords \in Nat /\ BlockWords >= 2
    BY BlockSeq, WireAssumption
  <1> DEFINE r == Start(FALSE, 0)
             R == Reading(r, b)
             n == BlockWords
             Read_(k) == LET x == R[k].items
                         IN  /\ R[k].open <=> k = 1
                             /\ Len(x) = IF k = 0 THEN 0 ELSE k - 1
                             /\ \A i \in 1 .. k - 1 : x[i] = StartItems[i]
             I == {k \in 0 .. n : Read_(k)}
  <1>3. r \in Readers /\ ~r.open /\ r.items = <<>>
    BY StartType, FullGap
  <1> HIDE DEF r
  <1>4. /\ R \in [0 .. n -> Readers] /\ R[0] = r
        /\ \A k \in 1 .. n : R[k] = ReadWord(R[k - 1], b[k])
    BY <1>2, <1>3, ReadingSteps
  <1>5. Items(StartBlock) = R[n].items
    <2>1. FlattenSeq(StartBlock) = b
      BY <1>1, <1>2, FlattenOne
    <2> QED
      BY <1>2, <2>1 DEF Items, Read, ReadFrom, r
  <1> HIDE DEF R
  <1>6. 0 \in I
    BY <1>2, <1>3, <1>4
  <1>7. ASSUME NEW k \in 1 .. n, k - 1 \in I PROVE k \in I
    <2> DEFINE q == R[k - 1]
               w == b[k]
               x == q.items
               a == Adds(q.open, w)
               y == R[k].items
    <2>1. k \in Nat /\ k - 1 \in 0 .. n /\ k \in 0 .. n
      BY <1>2
    <2>2. q \in Readers /\ w \in Words /\ R[k] = ReadWord(q, w)
      BY <1>2, <1>4, <2>1
    <2> HIDE DEF q, w
    <2>3. (R[k].open <=> ~q.open /\ w = FILLER) /\ y = x \o a
      <3> DEFINE t == ReadWord(q, w)
      <3>1. (t.open <=> ~q.open /\ w = FILLER) /\ t.items = x \o a
        BY <2>2, WordFields
      <3> QED
        BY <2>2, <3>1, Zenon
    <2>4. q.open \in BOOLEAN /\ x \in Seq(Commands)
      BY <2>2 DEF Readers
    <2>5. /\ q.open <=> k = 2
          /\ Len(x) = IF k = 1 THEN 0 ELSE k - 2
          /\ \A i \in 1 .. k - 2 : x[i] = StartItems[i]
      <3>1. (k - 1 = 1 <=> k = 2) /\ (k - 1 = 0 <=> k = 1) /\ k - 1 - 1 = k - 2
        BY <2>1
      <3>2. Read_(k - 1)
        BY <1>7
      <3> QED
        BY <3>1, <3>2 DEF q
    <2>6. w = IF k = 1 THEN FILLER ELSE IF k = 2 THEN word(0, 1) ELSE word(0, 0)
      BY <1>1, <1>2 DEF w
    <2> HIDE DEF x, a, y
    <2>7. CASE k = 1
      <3>1. ~q.open /\ q.open = FALSE /\ w = FILLER
        BY <2>4, <2>5, <2>6, <2>7
      <3>2. a = <<>> /\ x = <<>>
        BY <2>4, <2>5, <2>7, <3>1, ZeroWord, EmptySeq DEF a
      <3>3. y = <<>> /\ R[k].open
        BY <2>3, <3>1, <3>2
      <3> QED
        BY <2>1, <2>7, <3>3 DEF y
    <2>8. CASE k # 1
      <3> DEFINE c == StartItems[k - 1]
      <3>1. w # FILLER
        BY <2>6, <2>8, ZeroWord DEF Plain
      <3>2. a = <<c>> /\ c \in Commands
        <4>1. CASE k = 2
          <5>1. q.open = TRUE /\ w = word(0, 1) /\ c = <<1>>
            BY <2>4, <2>5, <2>6, <4>1, StartItemsEach
          <5>2. c \in Commands
            BY <5>1 DEF Commands
          <5> QED
            BY <5>1, <5>2, ZeroWord DEF a
        <4>2. CASE k # 2
          <5>1. q.open = FALSE /\ w = word(0, 0) /\ k - 1 \in 2 .. BlockWords - 1
            BY <1>2, <2>1, <2>4, <2>5, <2>6, <2>8, <4>2
          <5>2. c = <<0, 0, 0>> /\ c \in Commands
            BY <5>1, StartItemsEach DEF Commands
          <5> QED
            BY <5>1, <5>2, ZeroWord DEF a
        <4> QED
          BY <4>1, <4>2
      <3> HIDE DEF c
      <3>3. a \in Seq(Commands) /\ Len(a) = 1 /\ a[1] = c
        BY <3>2
      <3>4. /\ Len(y) = Len(x) + 1
            /\ \A i \in 1 .. Len(x) + 1 : y[i] = IF i <= Len(x) THEN x[i] ELSE a[i - Len(x)]
        BY <2>3, <2>4, <3>3, ConcatProperties
      <3>5. Len(x) = k - 2
        BY <2>5, <2>8
      <3>6. Len(y) = k - 1 /\ \A i \in 1 .. k - 1 : y[i] = StartItems[i]
        BY <2>1, <2>5, <3>3, <3>4, <3>5 DEF c
      <3>7. ~R[k].open
        BY <2>3, <3>1
      <3> QED
        BY <2>1, <2>8, <3>6, <3>7 DEF y
    <2> QED
      BY <2>7, <2>8
  <1> HIDE DEF I
  <1>8. \A k \in 0 .. n : k \in I
    BY <1>2, <1>6, <1>7, UpTo
  <1>9. Read_(n) /\ R[n].items \in Seq(Commands)
    <2>1. n \in 0 .. n
      BY <1>2
    <2>2. n \in I
      BY <1>8, <2>1
    <2>3. R[n] \in Readers
      BY <1>4, <2>1
    <2> QED
      BY <2>2, <2>3 DEF I, Readers
  <1>10. R[n].items = StartItems
    <2> DEFINE x == R[n].items
    <2>1. /\ x \in Seq(Commands) /\ Len(x) = n - 1
          /\ \A i \in 1 .. n - 1 : x[i] = StartItems[i]
      BY <1>2, <1>9
    <2> HIDE DEF x
    <2>2. StartItems \in Seq(Commands) /\ Len(StartItems) = n - 1
      BY StartItemsEach
    <2>3. x = StartItems
      BY <2>1, <2>2, SeqEqual
    <2> QED
      BY <2>3 DEF x
  <1> QED
    BY <1>1, <1>5, <1>10, StartItemsEach

-----------------------------------------------------------------------------
(* Arming *)

\* Sequences of streams and of what they say.
LEMMA FlattenBoth ==
    ASSUME NEW ss \in Seq(Seq(Plain)), NEW xs \in Seq(Seq(Commands)), Len(ss) = Len(xs),
           \A k \in 1 .. Len(ss) : Tells(ss[k], xs[k]) /\ Prompt(ss[k])
    PROVE  /\ FlattenSeq(ss) \in Seq(Plain)
           /\ Tells(FlattenSeq(ss), FlattenSeq(xs)) /\ Prompt(FlattenSeq(ss))
  <1> DEFINE n == Len(ss)
  <1>1. FlattenSeq(ss) \in Seq(Plain)
    BY FlattenType
  <1>2. PICK f : /\ f \in [0 .. Len(ss) -> Seq(Plain)] /\ f[0] = <<>>
                 /\ \A k \in 1 .. Len(ss) : f[k] = f[k - 1] \o ss[k]
                 /\ FlattenSeq(ss) = f[Len(ss)]
    BY FlattenSteps
  <1>3. PICK h : /\ h \in [0 .. Len(xs) -> Seq(Commands)] /\ h[0] = <<>>
                 /\ \A k \in 1 .. Len(xs) : h[k] = h[k - 1] \o xs[k]
                 /\ FlattenSeq(xs) = h[Len(xs)]
    BY FlattenSteps
  <1>4. n \in Nat /\ Len(xs) = n
    OBVIOUS
  <1> HIDE DEF n
  <1> DEFINE I == {k \in 0 .. n : Tells(f[k], h[k]) /\ Prompt(f[k])}
  <1>5. 0 \in I
    BY <1>2, <1>3, <1>4, NothingReads
  <1>6. ASSUME NEW k \in 1 .. n, k - 1 \in I PROVE k \in I
    <2> DEFINE a == f[k - 1]
               x == h[k - 1]
               b == ss[k]
               y == xs[k]
    <2>1. Tells(a, x) /\ Prompt(a)
      BY <1>6
    <2>2. Tells(b, y) /\ Prompt(b)
      BY DEF n
    <2>3. f[k] = a \o b /\ h[k] = x \o y
      BY <1>2, <1>3, <1>4 DEF n
    <2>4. k \in 0 .. n
      BY <1>4
    <2> HIDE DEF a, x, b, y, I
    <2>5. b \in Seq(Words)
      BY <2>2 DEF Tells
    <2>6. Tells(a \o b, x \o y)
      BY <2>1, <2>2, TellsConcat
    <2>7. Prompt(a \o b)
      BY <2>1, <2>2, <2>5, PromptConcat
    <2> QED
      BY <2>3, <2>4, <2>6, <2>7 DEF I
  <1> HIDE DEF I
  <1>7. \A k \in 0 .. n : k \in I
    BY <1>4, <1>5, <1>6, UpTo
  <1>8. n \in I
    BY <1>4, <1>7
  <1>9. Tells(f[n], h[n]) /\ Prompt(f[n])
    BY <1>8 DEF I
  <1>10. FlattenSeq(ss) = f[n] /\ FlattenSeq(xs) = h[n]
    BY <1>2, <1>3, <1>4 DEF n
  <1> QED
    BY <1>1, <1>9, <1>10

\* One by one.
LEMMA FlattenSingles ==
    ASSUME NEW W, NEW x \in Seq(W)
    PROVE  FlattenSeq([k \in 1 .. Len(x) |-> <<x[k]>>]) = x
  <1> DEFINE n == Len(x)
             s == [k \in 1 .. n |-> <<x[k]>>]
  <1>1. n \in Nat /\ s \in Seq(Seq(W)) /\ Len(s) = n /\ \A k \in 1 .. n : s[k] = <<x[k]>>
    <2>1. n \in Nat /\ \A k \in 1 .. n : <<x[k]>> \in Seq(W)
      OBVIOUS
    <2> QED
      BY <2>1
  <1> HIDE DEF s
  <1>2. PICK f : /\ f \in [0 .. Len(s) -> Seq(W)] /\ f[0] = <<>>
                 /\ \A k \in 1 .. Len(s) : f[k] = f[k - 1] \o s[k]
                 /\ FlattenSeq(s) = f[Len(s)]
    BY <1>1, FlattenSteps
  <1> DEFINE I == {k \in 0 .. n : f[k] = SubSeq(x, 1, k)}
  <1>3. 0 \in I
    <2>1. SubSeq(x, 1, 0) = <<>>
      BY SubSeqEmpty
    <2> QED
      BY <1>1, <1>2, <2>1
  <1>4. ASSUME NEW k \in 1 .. n, k - 1 \in I PROVE k \in I
    <2>1. f[k] = SubSeq(x, 1, k - 1) \o <<x[k]>>
      BY <1>1, <1>2, <1>4
    <2>2. 1 \in 1 .. Len(x) /\ k \in 1 .. Len(x) /\ k \in 0 .. n
      BY <1>1
    <2> HIDE DEF I
    <2>3. SubSeq(x, 1, k) = SubSeq(x, 1, k - 1) \o <<x[k]>>
      BY <2>2, SubSeqRecursiveSecond
    <2> QED
      BY <2>1, <2>2, <2>3 DEF I
  <1> HIDE DEF I, n
  <1>5. \A k \in 0 .. n : k \in I
    BY <1>1, <1>3, <1>4, UpTo
  <1>6. f[n] = SubSeq(x, 1, n)
    <2>1. n \in I
      BY <1>1, <1>5
    <2> QED
      BY <2>1 DEF I
  <1>7. FlattenSeq(s) = f[n]
    BY <1>1, <1>2
  <1> QED
    BY <1>6, <1>7, SubSeqFull DEF s, n

\* A register write by itself.
LEMMA RegReads ==
    ASSUME NEW x \in Writes
    PROVE  /\ encode_reg(x[1], x[2], x[3]) = <<Encoded(x)>>
           /\ <<Encoded(x)>> \in Seq(Plain) /\ Tells(<<Encoded(x)>>, <<x>>)
           /\ ~Read(FALSE, MIN_CYCLES, <<Encoded(x)>>).early
           /\ Encoded(x)[1] < 128
  <1> DEFINE v == Encoded(x)
             w == <<v>>
  <1>1. /\ v \in Plain /\ v[1] < 128 /\ encode_reg(x[1], x[2], x[3]) = <<v>>
        /\ Adds(FALSE, v) = <<x>> /\ x \in Commands
    BY EncodedReads
  <1> HIDE DEF v
  <1>2. v \in Words /\ v # FILLER /\ w \in Seq(Words) /\ w \in Seq(Plain)
    BY <1>1 DEF Plain
  <1>3. ASSUME NEW g \in Gaps
        PROVE  /\ ~Read(FALSE, g, w).open /\ Read(FALSE, g, w).items = <<x>>
               /\ g = MIN_CYCLES => ~Read(FALSE, g, w).early
    <2> DEFINE r == Start(FALSE, g)
               s == ReadWord(r, v)
    <2>1. r \in Readers /\ ~r.open /\ r.open = FALSE /\ r.gap = g /\ r.items = <<>> /\ ~r.early
      BY StartType
    <2>2. Read(FALSE, g, w) = s
      BY <1>2, <2>1, ReadOne DEF Read
    <2> HIDE DEF r, w
    <2>3. s.items = r.items \o Adds(r.open, v) /\ (s.early <=> r.early \/ Early(r.open, r.gap, v))
      BY <1>2, <2>1, WordFields, Zenon
    <2>4. s.open <=> (~r.open /\ v = FILLER)
      BY <1>2, <2>1, WordFields
    <2> HIDE DEF s
    <2>5. <<>> \o <<x>> = <<x>>
      BY <1>1
    <2>6. s.items = <<x>>
      BY <1>1, <2>1, <2>3, <2>5
    <2>7. g = MIN_CYCLES => ~Early(r.open, r.gap, v)
      BY <2>1 DEF Early, MIN_CYCLES
    <2>8. ~s.open /\ (g = MIN_CYCLES => ~s.early)
      BY <1>2, <2>1, <2>3, <2>4, <2>7
    <2> QED
      BY <2>2, <2>6, <2>8
  <1>4. Tells(w, <<x>>)
    <2> HIDE DEF w
    <2> QED
      BY <1>2, <1>3, Zenon DEF Tells
  <1>5. ~Read(FALSE, MIN_CYCLES, w).early
    BY <1>3, FullGap
  <1> QED
    BY <1>1, <1>2, <1>4, <1>5 DEF v

Waits == {n \in Nat : n >= MIN_CYCLES}

\* A row writes to its chip, or zero to the register of socket 0.
LEMMA RowWriteType ==
    ASSUME NEW i \in 1 .. Len(Rows), NEW c \in 0 .. 3
    PROVE  /\ RowWrite(Rows[i], c) \in Writes /\ Rows[i][1] \in Waits
           /\ RowWrite(Rows[i], c) = <<0, 30, 0>> \/ RowWrite(Rows[i], c)[1] = c
  <1> DEFINE row == Rows[i]
  <1>1. row \in Waits \X (-1 .. 31) \X Bytes /\ (row[2] = -1 => row[3] = 0)
    BY RowsAssumption DEF Waits
  <1> HIDE DEF row
  <1> DEFINE a == row[2]
             d == row[3]
  <1>2. row[1] \in Waits /\ a \in -1 .. 31 /\ d \in Bytes /\ (a = -1 => d = 0)
    BY <1>1
  <1>3. RowWrite(row, c) = IF a = -1 THEN <<0, 30, d>> ELSE <<c, a, d>>
    BY DEF RowWrite
  <1> HIDE DEF a, d
  <1>4. a # -1 => a \in 0 .. 31
    BY <1>2
  <1>5. <<0, 30, 0>> \in Writes /\ (a # -1 => <<c, a, d>> \in Writes) /\ <<c, a, d>>[1] = c
    <2>1. <<0, 30, 0>> \in Writes
      BY DEF Writes, Bytes
    <2>2. ASSUME a # -1 PROVE <<c, a, d>> \in Writes
      BY <1>2, <1>4, <2>2 DEF Writes
    <2> QED
      BY <2>1, <2>2
  <1>6. CASE a = -1
    BY <1>2, <1>3, <1>5, <1>6 DEF row
  <1>7. CASE a # -1
    BY <1>2, <1>3, <1>5, <1>7 DEF row
  <1> QED
    BY <1>6, <1>7

\* A row of the arming stream waits, and then writes (chip_init_stream).
LEMMA RowReads ==
    ASSUME NEW i \in 1 .. Len(Rows), NEW c \in 0 .. 3
    PROVE  /\ SpelledRow(Rows[i], c) \in Seq(Plain)
           /\ Tells(SpelledRow(Rows[i], c), <<RowWrite(Rows[i], c)>>)
           /\ Prompt(SpelledRow(Rows[i], c))
  <1> DEFINE n == Rows[i][1]
             x == RowWrite(Rows[i], c)
             a == encode_delay(n)
             b == <<Encoded(x)>>
             w == SpelledRow(Rows[i], c)
  <1>1. x \in Writes /\ n \in Nat /\ n >= MIN_CYCLES
    BY RowWriteType DEF Waits
  <1>2. w = a \o encode_reg(x[1], x[2], x[3])
    BY DEF SpelledRow
  <1> HIDE DEF n, x, w
  <1>3. /\ encode_reg(x[1], x[2], x[3]) = b /\ b \in Seq(Plain) /\ Tells(b, <<x>>)
        /\ ~Read(FALSE, MIN_CYCLES, b).early
    BY <1>1, RegReads
  <1>4. /\ a \in Seq(Plain) /\ Tells(a, <<>>) /\ Prompt(a)
        /\ \A g \in Gaps : Read(FALSE, g, a).gap = MIN_CYCLES
    BY <1>1, DelayReads
  <1> HIDE DEF a, b
  <1>5. w = a \o b
    BY <1>2, <1>3
  <1>6. w \in Seq(Plain)
    BY <1>3, <1>4, <1>5, ConcatProperties
  <1>7. Tells(w, <<x>>)
    <2>1. Tells(a \o b, <<>> \o <<x>>)
      BY <1>3, <1>4, TellsConcat
    <2>2. <<>> \o <<x>> = <<x>>
      BY <1>1
    <2> QED
      BY <1>5, <2>1, <2>2
  <1>8. Prompt(w)
    <2> SUFFICES ASSUME NEW g \in Gaps PROVE ~Read(FALSE, g, a \o b).early
      BY <1>5 DEF Prompt
    <2>1. /\ a \in Seq(Words) /\ b \in Seq(Words) /\ ~Read(FALSE, g, a).open
          /\ ~Read(FALSE, g, a).early /\ Read(FALSE, g, a).gap = MIN_CYCLES
      BY <1>3, <1>4 DEF Tells, Prompt
    <2> QED
      BY <1>3, <2>1, Joined
  <1> QED
    BY <1>6, <1>7, <1>8 DEF w, x

\* The arming stream of a socket is its rows, each write after a delay.
LEMMA ChipReads ==
    ASSUME NEW c \in 0 .. 3
    PROVE  LET x == [j \in DOMAIN Rows |-> RowWrite(Rows[j], c)]
               w == chip_init_stream(Rows, c)
           IN  x \in Seq(Writes) /\ w \in Seq(Plain) /\ Tells(w, x) /\ Prompt(w)
  <1> DEFINE n == Len(Rows)
             x == [j \in 1 .. n |-> RowWrite(Rows[j], c)]
             ss == [j \in 1 .. n |-> SpelledRow(Rows[j], c)]
             xs == [j \in 1 .. n |-> <<x[j]>>]
  <1>1. n \in Nat /\ DOMAIN Rows = 1 .. n
    BY RowsAssumption, LenProperties
  <1>2. x \in Seq(Writes) /\ Len(x) = n
    BY <1>1, RowWriteType
  <1>3. Writes \subseteq Commands
    BY EncodedReads
  <1>4. x \in Seq(Commands)
    BY <1>2, <1>3, SeqMonotonic
  <1>5. ss \in Seq(Seq(Plain)) /\ Len(ss) = n /\ \A j \in 1 .. n : ss[j] = SpelledRow(Rows[j], c)
    <2>1. \A j \in 1 .. n : SpelledRow(Rows[j], c) \in Seq(Plain)
      BY RowReads
    <2> QED
      BY <1>1, <2>1
  <1>5a. \A j \in 1 .. n : x[j] = RowWrite(Rows[j], c)
    OBVIOUS
  <1> HIDE DEF x
  <1>6. /\ xs \in Seq(Seq(Commands)) /\ Len(xs) = n /\ FlattenSeq(xs) = x
        /\ \A j \in 1 .. n : xs[j] = <<x[j]>>
    <2>1. \A j \in 1 .. n : <<x[j]>> \in Seq(Commands)
      BY <1>2, <1>4
    <2>2. xs \in Seq(Seq(Commands)) /\ Len(xs) = n
      BY <1>1, <2>1
    <2>3. FlattenSeq(xs) = x
      BY <1>2, <1>4, FlattenSingles
    <2> QED
      BY <2>2, <2>3
  <1>7. \A j \in 1 .. n : Tells(ss[j], xs[j]) /\ Prompt(ss[j])
    BY <1>5, <1>5a, <1>6, RowReads
  <1>8. FlattenSeq(ss) = chip_init_stream(Rows, c)
    BY <1>1 DEF chip_init_stream
  <1> HIDE DEF ss, xs
  <1>9. /\ FlattenSeq(ss) \in Seq(Plain) /\ Tells(FlattenSeq(ss), FlattenSeq(xs))
        /\ Prompt(FlattenSeq(ss))
    BY <1>5, <1>6, <1>7, FlattenBoth
  <1>10. x = [j \in DOMAIN Rows |-> RowWrite(Rows[j], c)]
    BY <1>1 DEF x
  <1> QED
    BY <1>2, <1>6, <1>8, <1>9, <1>10, Zenon

\* The chips are sockets.
LEMMA ChipsType ==
    /\ Chips \in Seq(0 .. 3) /\ Len(Chips) \in Nat /\ DOMAIN Chips = 1 .. Len(Chips)
    /\ \A i \in 1 .. Len(Chips) : Chips[i] \in 0 .. 3 /\ Chips[i] \in Enabled
    /\ Enabled \subseteq 0 .. 3
  <1>1. /\ Chips \in Seq(0 .. 3) /\ Len(Chips) \in Nat /\ DOMAIN Chips = 1 .. Len(Chips)
        /\ \A i \in 1 .. Len(Chips) : Chips[i] \in 0 .. 3
    <2>1. Chips \in Seq(0 .. 3)
      BY StreamAssumption
    <2> QED
      BY <2>1, LenProperties, ElementOfSeq
  <1>2. Enabled = {Chips[i] : i \in DOMAIN Chips}
    BY DEF Enabled, Range
  <1> QED
    BY <1>1, <1>2

\* All the sockets are armed, and socket 0 is written to at the end (init).
LEMMA InitReads ==
    /\ InitWords \in Seq(Plain) /\ Tells(InitWords, InitWrites) /\ Prompt(InitWords)
    /\ InitWords # <<>> /\ Last(InitWords)[1] < 128
  <1> DEFINE n == Len(Chips)
             x(i) == [j \in DOMAIN Rows |-> RowWrite(Rows[j], Chips[i])]
             ss == [i \in 1 .. n |-> chip_init_stream(Rows, Chips[i])]
             xs == [i \in 1 .. n |-> x(i)]
             a == encode_delay(40000)
             z == <<0, 30, 0>>
             b == <<Encoded(z)>>
  <1>1. n \in Nat /\ DOMAIN Chips = 1 .. n /\ \A i \in 1 .. n : Chips[i] \in 0 .. 3
    BY ChipsType
  <1>2. \A i \in 1 .. n : x(i) \in Seq(Writes) /\ ss[i] \in Seq(Plain) /\ Tells(ss[i], x(i)) /\ Prompt(ss[i])
    BY <1>1, ChipReads
  <1>3. Seq(Writes) \subseteq Seq(Commands)
    <2>1. Writes \subseteq Commands
      BY EncodedReads
    <2> QED
      BY <2>1, SeqMonotonic
  <1> HIDE DEF x
  <1>4. ss \in Seq(Seq(Plain)) /\ Len(ss) = n
    BY <1>1, <1>2
  <1>5. xs \in Seq(Seq(Commands)) /\ Len(xs) = n /\ \A i \in 1 .. n : xs[i] = x(i)
    BY <1>1, <1>2, <1>3
  <1>6. /\ InitWords = (FlattenSeq(ss) \o a) \o encode_reg(0, 30, 0)
        /\ InitWrites = FlattenSeq(xs) \o <<z>>
    BY <1>1 DEF InitWords, InitWrites, x
  <1>7. z \in Writes /\ z[1] = 0 /\ z[2] = 30 /\ z[3] = 0
    BY DEF Writes, Bytes
  <1> HIDE DEF ss, xs, z
  <1>8. /\ encode_reg(0, 30, 0) = b /\ b \in Seq(Plain) /\ Tells(b, <<z>>)
        /\ ~Read(FALSE, MIN_CYCLES, b).early /\ Encoded(z)[1] < 128
    BY <1>7, RegReads
  <1>9. /\ FlattenSeq(ss) \in Seq(Plain) /\ Tells(FlattenSeq(ss), FlattenSeq(xs))
        /\ Prompt(FlattenSeq(ss)) /\ FlattenSeq(xs) \in Seq(Commands)
    <2>1. \A i \in 1 .. n : Tells(ss[i], xs[i]) /\ Prompt(ss[i])
      BY <1>2, <1>5
    <2>2. FlattenSeq(xs) \in Seq(Commands)
      BY <1>5, FlattenType
    <2> QED
      BY <1>4, <1>5, <2>1, <2>2, FlattenBoth
  <1>10. /\ a \in Seq(Plain) /\ Tells(a, <<>>) /\ Prompt(a)
         /\ \A g \in Gaps : Read(FALSE, g, a).gap = MIN_CYCLES
    <2> DEFINE k == 40000
    <2>1. k \in Nat /\ k >= MIN_CYCLES
      BY DEF MIN_CYCLES
    <2>2. a = encode_delay(k)
      OBVIOUS
    <2> HIDE DEF k, a
    <2> QED
      BY <2>1, <2>2, DelayReads
  <1> DEFINE e == Encoded(z)
             s == FlattenSeq(ss)
             y == FlattenSeq(xs)
             p == s \o a
             w == p \o b
  <1> HIDE DEF a, e
  <1>11. Len(b) = 1 /\ b[1] = e /\ b \in Seq(Words) /\ b \in Seq(Plain)
    BY <1>8 DEF e, Plain
  <1> HIDE DEF s, y, b
  <1>12. p \in Seq(Plain) /\ p \in Seq(Words)
    <2>1. p \in Seq(Plain)
      BY <1>9, <1>10, ConcatProperties DEF s
    <2> QED
      BY <2>1 DEF Plain
  <1>13. Tells(p, y)
    <2>1. Tells(p, y \o <<>>)
      BY <1>9, <1>10, TellsConcat DEF s, y
    <2>2. y \o <<>> = y
      BY <1>9, ConcatEmptySeq DEF y
    <2> QED
      BY <2>1, <2>2
  <1>14. ASSUME NEW g \in Gaps
         PROVE  /\ ~Read(FALSE, g, p).open /\ ~Read(FALSE, g, p).early
                /\ Read(FALSE, g, p).gap = MIN_CYCLES
    <2> DEFINE h == Read(FALSE, g, s).gap
    <2>1. /\ s \in Seq(Words) /\ a \in Seq(Words) /\ ~Read(FALSE, g, s).open
          /\ ~Read(FALSE, g, s).early
      BY <1>9, <1>10 DEF Tells, Prompt, s
    <2>2. h \in Gaps
      BY <2>1, ReadType
    <2>3. /\ Read(FALSE, g, p).gap = Read(FALSE, h, a).gap
          /\ Read(FALSE, g, p).early <=> Read(FALSE, g, s).early \/ Read(FALSE, h, a).early
      BY <2>1, Joined
    <2>4. ~Read(FALSE, g, p).open
      BY <1>13 DEF Tells
    <2> HIDE DEF h, p
    <2>5. ~Read(FALSE, h, a).early /\ Read(FALSE, h, a).gap = MIN_CYCLES
      BY <1>10, <2>2 DEF Prompt
    <2> QED
      BY <2>1, <2>3, <2>4, <2>5
  <1> HIDE DEF p
  <1>15. Prompt(w)
    <2> SUFFICES ASSUME NEW g \in Gaps PROVE ~Read(FALSE, g, w).early
      BY DEF Prompt
    <2>1. /\ ~Read(FALSE, g, p).open /\ ~Read(FALSE, g, p).early
          /\ Read(FALSE, g, p).gap = MIN_CYCLES
      BY <1>14
    <2> QED
      BY <1>8, <1>11, <1>12, <2>1, Joined
  <1>16. Tells(w, y \o <<z>>)
    BY <1>8, <1>13, TellsConcat
  <1>17. w \in Seq(Plain) /\ w # <<>> /\ Last(w) = e
    <2>1. /\ w \in Seq(Plain) /\ Len(w) = Len(p) + 1 /\ Len(p) \in Nat
          /\ w[Len(p) + 1] = e
      <3>1. /\ w \in Seq(Plain) /\ Len(w) = Len(p) + Len(b) /\ Len(p) \in Nat
            /\ \A i \in 1 .. Len(p) + Len(b) :
                  w[i] = IF i <= Len(p) THEN p[i] ELSE b[i - Len(p)]
        <4>1. p \in Seq(Plain) /\ b \in Seq(Plain)
          BY <1>11, <1>12
        <4> QED
          BY <4>1, ConcatProperties
      <3> HIDE DEF w
      <3>2. /\ Len(p) + 1 \in 1 .. Len(p) + Len(b) /\ ~(Len(p) + 1 <= Len(p))
            /\ (Len(p) + 1) - Len(p) = 1
        BY <1>11, <3>1
      <3> QED
        BY <1>11, <3>1, <3>2
    <2> HIDE DEF w
    <2> QED
      BY <2>1 DEF Last
  <1>18. InitWords = w /\ InitWrites = y \o <<z>>
    BY <1>6, <1>8 DEF p, s, y
  <1> HIDE DEF w
  <1> QED
    BY <1>8, <1>15, <1>16, <1>17, <1>18 DEF e

-----------------------------------------------------------------------------
(* Blocks in the ring *)

\* Settled, block by block.
LEMMA SettledAt ==
    ASSUME NEW g, NEW bs, AllClosed(bs)
    PROVE  Settled(g, bs) <=>
              \A k \in 1 .. Len(bs) : Modes(Told(bs[k])) # {} =>
                  Read(FALSE, g, FlattenSeq(SubSeq(bs, 1, k))).gap = MIN_CYCLES
  <1>1. DOMAIN bs = 1 .. Len(bs)
    BY LenProperties DEF AllClosed
  <1> QED
    BY <1>1, Zenon DEF Settled, Told

\* Blocks without the escape change no mode.
LEMMA SettledPlain ==
    ASSUME NEW g, NEW bs, AllClosed(bs), \A k \in 1 .. Len(bs) : bs[k] \in Seq(Plain)
    PROVE  Settled(g, bs)
  <1>1. \A k \in 1 .. Len(bs) : Modes(Told(bs[k])) = {}
    BY FullGap, NoModes DEF Told
  <1> QED
    BY <1>1, SettledAt, Zenon

\* An empty ring is on time.
LEMMA OnTimeNothing == OnTime(MIN_CYCLES, <<>>)
  <1>1. DOMAIN <<>> = {}
    OBVIOUS
  <1>2. Settled(MIN_CYCLES, <<>>)
    BY <1>1, Zenon DEF Settled
  <1> QED
    BY <1>2, FlattenNothing, NothingReads DEF OnTime, Even

\* Blocks on time, sent behind blocks on time, are on time.
LEMMA OnTimeConcat ==
    ASSUME NEW g \in Gaps, NEW a, NEW b, AllClosed(a), AllClosed(b),
           OnTime(g, a), OnTime(MIN_CYCLES, b)
    PROVE  OnTime(g, a \o b)
  <1> DEFINE c == a \o b
             n == Len(a)
             Gap(h, s) == Read(FALSE, h, FlattenSeq(s)).gap
  <1>1. /\ AllClosed(c) /\ FlattenSeq(c) = FlattenSeq(a) \o FlattenSeq(b)
        /\ a \in Seq(Block) /\ b \in Seq(Block) /\ n \in Nat /\ Len(b) \in Nat
    BY ClosedConcat, ClosedEach
  <1>2. /\ Len(c) = n + Len(b)
        /\ \A i \in 1 .. n + Len(b) : c[i] = IF i <= n THEN a[i] ELSE b[i - n]
    BY <1>1, ConcatProperties
  <1>3. ASSUME NEW d, AllClosed(d)
        PROVE  LET t == Read(FALSE, g, FlattenSeq(a) \o FlattenSeq(d))
                   u == Read(FALSE, MIN_CYCLES, FlattenSeq(d))
               IN  t.gap = u.gap /\ (t.early <=> u.early)
    <2>1. FlattenSeq(a) \in Seq(Words) /\ FlattenSeq(d) \in Seq(Words)
      BY <1>3, FlattenTells
    <2>2. ~Read(FALSE, g, FlattenSeq(a)).open
      BY FlattenTells DEF Tells
    <2>3. ~Read(FALSE, g, FlattenSeq(a)).early /\ Read(FALSE, g, FlattenSeq(a)).gap = MIN_CYCLES
      BY DEF OnTime
    <2> QED
      BY <2>1, <2>2, <2>3, Joined
  <1>4. ~Read(FALSE, g, FlattenSeq(c)).early /\ Gap(g, c) = MIN_CYCLES
    BY <1>1, <1>3 DEF OnTime
  <1>5. ASSUME NEW k \in 1 .. Len(c), Modes(Told(c[k])) # {}
        PROVE  Gap(g, SubSeq(c, 1, k)) = MIN_CYCLES
    <2>1. CASE k <= n
      <3>1. k \in 1 .. n /\ 1 \in 1 .. n /\ c[k] = a[k]
        BY <1>1, <1>2, <2>1
      <3>2. SubSeq(c, 1, k) = SubSeq(a, 1, k)
        BY <1>1, <3>1, SubSeqOfConcat1
      <3>3. Settled(g, a)
        BY DEF OnTime
      <3> QED
        BY <1>5, <3>1, <3>2, <3>3, SettledAt
    <2>2. CASE ~(k <= n)
      <3> DEFINE j == k - n
                 d == SubSeq(b, 1, j)
      <3>1. j \in 1 .. Len(b) /\ c[k] = b[j] /\ k = n + j /\ j \in 0 .. Len(b)
        BY <1>1, <1>2, <2>2
      <3> HIDE DEF j, c
      <3>2. AllClosed(d)
        BY <3>1, ClosedCut
      <3>3. Gap(MIN_CYCLES, d) = MIN_CYCLES
        <4>1. Settled(MIN_CYCLES, b)
          BY DEF OnTime
        <4> QED
          BY <1>5, <3>1, <4>1, SettledAt
      <3>4. SubSeq(c, 1, k) = a \o d
        <4> DEFINE s == SubSeq(c, 1, k)
                   t == a \o d
        <4>1. /\ d \in Seq(Block) /\ Len(d) = j /\ \A i \in 1 .. j : d[i] = b[i]
          BY <3>1, <3>2, ClosedCut DEF AllClosed
        <4>2. c \in Seq(Block) /\ k \in 0 .. Len(c)
          BY <1>1, <1>2 DEF AllClosed
        <4>3. s \in Seq(Block) /\ Len(s) = k /\ \A i \in 1 .. k : s[i] = c[i]
          BY <1>1, <4>2, ClosedCut DEF AllClosed
        <4> HIDE DEF d, s
        <4>4. /\ t \in Seq(Block) /\ Len(t) = n + j
              /\ \A i \in 1 .. n + j : t[i] = IF i <= n THEN a[i] ELSE d[i - n]
          BY <1>1, <4>1, ConcatProperties
        <4> HIDE DEF t, n
        <4>5. \A i \in 1 .. k : s[i] = t[i]
          <5> TAKE i \in 1 .. k
          <5>1. i \in 1 .. n + Len(b) /\ i \in 1 .. n + j
            BY <1>1, <3>1
          <5>2. s[i] = IF i <= n THEN a[i] ELSE b[i - n]
            BY <1>2, <4>3, <5>1
          <5>3. CASE i <= n
            BY <4>4, <5>1, <5>2, <5>3
          <5>4. CASE ~(i <= n)
            <6>1. i - n \in 1 .. j
              BY <1>1, <3>1, <5>1, <5>4
            <6> QED
              BY <4>1, <4>4, <5>1, <5>2, <5>4, <6>1
          <5> QED
            BY <5>3, <5>4
        <4>6. Len(s) = Len(t)
          BY <3>1, <4>3, <4>4
        <4>7. s = t
          BY <4>3, <4>4, <4>5, <4>6, SeqEqual
        <4> QED
          BY <4>7 DEF s, t
      <3> DEFINE z == SubSeq(c, 1, k)
      <3>5. FlattenSeq(z) = FlattenSeq(a) \o FlattenSeq(d)
        BY <3>2, <3>4, ClosedConcat
      <3> HIDE DEF z, d
      <3>6. Gap(g, z) = Gap(MIN_CYCLES, d)
        BY <1>3, <3>2, <3>5
      <3> QED
        BY <3>3, <3>6 DEF z
    <2> QED
      BY <2>1, <2>2
  <1>6. Settled(g, c)
    <2> HIDE DEF c
    <2> QED
      BY <1>1, <1>5, SettledAt
  <1> HIDE DEF c
  <1>7. OnTime(g, c)
    BY <1>4, <1>6 DEF OnTime
  <1> QED
    BY <1>7 DEF c

\* The first block is read. Where it changes the mode, the time is up.
LEMMA OnTimeTail ==
    ASSUME NEW g \in Gaps, NEW bs, AllClosed(bs), bs # <<>>, OnTime(g, bs)
    PROVE  LET h == Read(FALSE, g, Head(bs)).gap
           IN  /\ OnTime(h, Tail(bs))
               /\ Modes(Told(Head(bs))) # {} => h = MIN_CYCLES
  <1> DEFINE b == Head(bs)
             t == Tail(bs)
             n == Len(bs)
             h == Read(FALSE, g, b).gap
  <1>1. /\ bs \in Seq(Block) /\ n \in Nat /\ n >= 1
        /\ \A k \in 1 .. n : bs[k] \in Block /\ bs[k] \in Seq(Words) /\ Closed(bs[k])
    <2>1. n # 0
      BY ClosedEach, EmptySeq
    <2> QED
      BY <2>1, ClosedEach
  <1>2. b = bs[1] /\ b \in Seq(Words) /\ Closed(b) /\ b \in Block
    BY <1>1
  <1>3. t \in Seq(Block) /\ Len(t) = n - 1 /\ \A k \in 1 .. n - 1 : t[k] = bs[k + 1]
    BY <1>1, HeadTailProperties
  <1>4. AllClosed(t)
    <2>1. \A k \in 1 .. Len(t) : Closed(t[k])
      BY <1>1, <1>3
    <2> QED
      BY <1>3, <2>1, EachClosed
  <1>5. Tells(b, Told(b)) /\ ~Read(FALSE, g, b).open /\ h \in Gaps
    <2>1. Tells(b, Told(b))
      BY <1>2, ClosedTells
    <2>2. ~Read(FALSE, g, b).open
      BY <2>1 DEF Tells
    <2> QED
      BY <1>2, <2>1, <2>2, ReadType
  <1>6. ASSUME NEW d, AllClosed(d)
        PROVE  LET x == Read(FALSE, g, FlattenSeq(<<b>> \o d))
                   y == Read(FALSE, h, FlattenSeq(d))
               IN  x.gap = y.gap /\ (y.early => x.early)
    <2>1. FlattenSeq(d) \in Seq(Words) /\ d \in Seq(Seq(Words))
      BY <1>6, FlattenTells, ClosedEach
    <2>2. <<b>> \in Seq(Seq(Words)) /\ FlattenSeq(<<b>>) = b
      BY <1>2, FlattenOne
    <2>3. FlattenSeq(<<b>> \o d) = b \o FlattenSeq(d)
      BY <2>1, <2>2, FlattenConcat
    <2> DEFINE f == FlattenSeq(d)
               x == Read(FALSE, g, b \o f)
               y == Read(FALSE, h, f)
    <2>4. x.gap = y.gap /\ (x.early <=> Read(FALSE, g, b).early \/ y.early)
      <3>1. b \in Seq(Words) /\ f \in Seq(Words) /\ ~Read(FALSE, g, b).open
        BY <1>2, <1>5, <2>1
      <3> HIDE DEF b, f
      <3> QED
        BY <3>1, Joined
    <2> HIDE DEF b, h
    <2> QED
      BY <2>3, <2>4
  <1>7. bs = <<b>> \o t
    BY <1>1
  <1> HIDE DEF b, t, h
  <1>8. ~Read(FALSE, h, FlattenSeq(t)).early /\ Read(FALSE, h, FlattenSeq(t)).gap = MIN_CYCLES
    BY <1>4, <1>6, <1>7 DEF OnTime
  <1>9. Settled(g, bs)
    BY DEF OnTime
  <1>10. ASSUME NEW k \in 1 .. Len(t), Modes(Told(t[k])) # {}
         PROVE  Read(FALSE, h, FlattenSeq(SubSeq(t, 1, k))).gap = MIN_CYCLES
    <2> DEFINE d == SubSeq(t, 1, k)
    <2>1. k + 1 \in 1 .. n /\ bs[k + 1] = t[k] /\ k \in 0 .. Len(t)
      BY <1>1, <1>3
    <2>2. AllClosed(d)
      BY <1>4, <2>1, ClosedCut
    <2>3. Read(FALSE, g, FlattenSeq(SubSeq(bs, 1, k + 1))).gap = MIN_CYCLES
      BY <1>9, <1>10, <2>1, SettledAt
    <2>4. SubSeq(bs, 1, k + 1) = <<b>> \o d
      <3> DEFINE j == k + 1
      <3>1. 1 \in 1 .. Len(bs) /\ j \in 1 .. Len(bs) /\ bs # <<>>
        BY <1>1, <2>1
      <3>2. SubSeq(bs, 1, j) = <<bs[1]>> \o SubSeq(bs, 2, j)
        <4> HIDE DEF j
        <4> QED
          BY <1>1, <3>1, SubSeqRecursiveFirst
      <3>3. SubSeq(bs, 2, j) = d
        <4> DEFINE u == SubSeq(bs, 2, j)
        <4>1. 2 \in Int /\ j \in Int /\ \A i \in 2 .. j : bs[i] \in Block
          BY <1>1, <2>1
        <4>2. /\ u \in Seq(Block) /\ Len(u) = IF 2 <= j THEN j - 2 + 1 ELSE 0
              /\ \A i \in 1 .. j - 2 + 1 : u[i] = bs[2 + i - 1]
          <5> HIDE DEF j
          <5> QED
            BY <4>1, SubSeqProperties
        <4> HIDE DEF u
        <4>3. Len(u) = k /\ \A i \in 1 .. k : u[i] = bs[i + 1]
          BY <4>2
        <4>4. d \in Seq(Block) /\ Len(d) = k /\ \A i \in 1 .. k : d[i] = t[i]
          BY <1>4, <2>1, <2>2, ClosedCut DEF AllClosed
        <4> HIDE DEF d
        <4>5. \A i \in 1 .. k : u[i] = d[i]
          BY <1>3, <4>3, <4>4
        <4>6. u = d
          BY <4>2, <4>3, <4>4, <4>5, SeqEqual
        <4> QED
          BY <4>6 DEF u
      <3> QED
        BY <1>2, <3>2, <3>3
    <2> HIDE DEF d
    <2>5. Read(FALSE, g, FlattenSeq(<<b>> \o d)).gap = Read(FALSE, h, FlattenSeq(d)).gap
      BY <1>6, <2>2
    <2> QED
      BY <2>3, <2>4, <2>5 DEF d
  <1>11. Settled(h, t)
    BY <1>4, <1>10, SettledAt
  <1>12. ASSUME Modes(Told(b)) # {} PROVE h = MIN_CYCLES
    <2>1. SubSeq(bs, 1, 1) = <<b>>
      <3> DEFINE s == SubSeq(bs, 1, 1)
                 u == <<bs[1]>>
      <3>1. 1 \in 0 .. Len(bs) /\ 1 \in 1 .. 1 /\ bs[1] \in Block
        BY <1>1
      <3>2. s \in Seq(Block) /\ Len(s) = 1 /\ s[1] = bs[1]
        BY <3>1, ClosedCut DEF AllClosed
      <3>3. u \in Seq(Block) /\ Len(u) = 1 /\ u[1] = bs[1]
        BY <3>1
      <3> HIDE DEF s, u
      <3>4. s = u
        BY <3>2, <3>3, SeqEqual
      <3> QED
        BY <1>2, <3>4 DEF s, u
    <2>2. FlattenSeq(<<b>>) = b
      BY <1>2, FlattenOne
    <2>3. Read(FALSE, g, FlattenSeq(SubSeq(bs, 1, 1))).gap = MIN_CYCLES
      <3>1. 1 \in 1 .. Len(bs)
        BY <1>1
      <3> QED
        BY <1>2, <1>9, <1>12, <3>1, SettledAt
    <2> QED
      BY <2>1, <2>2, <2>3 DEF h
  <1> QED
    BY <1>8, <1>11, <1>12 DEF OnTime, b, t, h

-----------------------------------------------------------------------------
(* Calls, in general *)

\* Sequences of the set S, concatenated and cut.
LEMMA ConcatIn ==
    ASSUME NEW S, NEW a \in Seq(S), NEW b \in Seq(S)
    PROVE  a \o b \in Seq(S)
  OBVIOUS

\* The parts of a sequence of members of S.
LEMMA PrefixIn ==
    ASSUME NEW S, NEW a, NEW b, a \in Seq(Commands), b \in Seq(Commands), a \o b \in Seq(S)
    PROVE  a \in Seq(S) /\ b \in Seq(S) /\ SubSeq(a \o b, 1, Len(a)) = a
  <1> DEFINE c == a \o b
  <1>1. /\ Len(a) \in Nat /\ Len(b) \in Nat /\ Len(c) = Len(a) + Len(b) /\ c \in Seq(Commands)
        /\ \A i \in 1 .. Len(a) + Len(b) : c[i] = IF i <= Len(a) THEN a[i] ELSE b[i - Len(a)]
    BY ConcatProperties
  <1>2. \A i \in 1 .. Len(c) : c[i] \in S
    <2>1. c \in Seq(S)
      OBVIOUS
    <2> HIDE DEF c
    <2> QED
      BY <2>1
  <1> HIDE DEF c
  <1>3. \A i \in 1 .. Len(a) : a[i] = c[i] /\ a[i] \in S
    BY <1>1, <1>2
  <1>4. \A i \in 1 .. Len(b) : b[i] \in S
    <2> TAKE i \in 1 .. Len(b)
    <2>1. Len(a) + i \in 1 .. Len(c) /\ ~(Len(a) + i <= Len(a)) /\ (Len(a) + i) - Len(a) = i
      BY <1>1
    <2>2. c[Len(a) + i] = b[i]
      BY <1>1, <2>1
    <2> QED
      BY <1>2, <2>1, <2>2
  <1>5. a \in Seq(S) /\ b \in Seq(S)
    BY <1>1, <1>3, <1>4, IsASeq
  <1>6. SubSeq(c, 1, Len(a)) = a
    <2> DEFINE s == SubSeq(c, 1, Len(a))
               n == Len(a)
    <2>1. \A i \in 1 .. n : c[i] \in Commands
      BY <1>1, <1>3
    <2>2. s \in Seq(Commands) /\ Len(s) = n /\ \A i \in 1 .. n : s[i] = c[i]
      <3>1. n \in Int /\ 1 \in Int /\ (1 <= n \/ n = 0)
        BY <1>1
      <3>2. /\ SubSeq(c, 1, n) \in Seq(Commands)
            /\ Len(SubSeq(c, 1, n)) = IF 1 <= n THEN n - 1 + 1 ELSE 0
            /\ \A i \in 1 .. n - 1 + 1 : SubSeq(c, 1, n)[i] = c[1 + i - 1]
        <4> HIDE DEF n
        <4> QED
          BY <2>1, <3>1, SubSeqProperties
      <3> DEFINE z == SubSeq(c, 1, n)
      <3>3. z = s
        OBVIOUS
      <3> HIDE DEF n, s, z
      <3>4. z \in Seq(Commands) /\ Len(z) = n /\ \A i \in 1 .. n : z[i] = c[i]
        BY <3>1, <3>2 DEF z
      <3> QED
        BY <3>3, <3>4
    <2> HIDE DEF s
    <2>3. Len(s) = Len(a) /\ \A i \in 1 .. Len(s) : s[i] = a[i]
      BY <1>3, <2>2
    <2>4. s = a
      BY <2>2, <2>3, SeqEqual
    <2> QED
      BY <2>4 DEF s
  <1> QED
    BY <1>5, <1>6 DEF c

\* Blocks behind those in the ring.
LEMMA RingGrows ==
    ASSUME RingOK, NEW bs, AllClosed(bs), ring' = ring \o bs, owed' = owed \o Items(bs),
           open' = open, gap' = gap
    PROVE  /\ RingOK' /\ Items(bs) \in Seq(Commands)
           /\ OnTime(gap, ring) /\ OnTime(MIN_CYCLES, bs) => OnTime(gap', ring')
  <1>1. AllClosed(ring) /\ owed = Items(ring) /\ open = FALSE /\ gap \in Gaps
    BY DEF RingOK
  <1>2. /\ AllClosed(ring \o bs) /\ Items(ring \o bs) = Items(ring) \o Items(bs)
        /\ Items(bs) \in Seq(Commands)
    BY <1>1, ClosedConcat
  <1>3. RingOK'
    BY <1>1, <1>2 DEF RingOK
  <1>4. ASSUME OnTime(gap, ring), OnTime(MIN_CYCLES, bs) PROVE OnTime(gap', ring')
    <2>1. OnTime(gap, ring \o bs)
      BY <1>1, <1>4, OnTimeConcat
    <2> QED
      BY <2>1
  <1> QED
    BY <1>2, <1>3, <1>4

\* What a stream that is flushed has to be.
Sendable(p, x) ==
    /\ Tells(p, x) /\ AllClosed(pad_even(p))
    /\ bare \/ (Timed(p) /\ Settled(MIN_CYCLES, pad_even(p)))
    /\ CapturesKeep => x \in Seq(Promised)

\* A flush, wherever it is given up (Send).
LEMMA SendIInv ==
    ASSUME IInv, NEW p, NEW x, Sendable(p, x), Send(p, x), UNCHANGED <<device, _wave>>
    PROVE  IInv'
  <1> DEFINE bs == pad_even(p)
             n == Len(bs)
  <1>1. /\ BufOK /\ RingOK /\ bare \in BOOLEAN /\ (bare \/ OnTime(gap, ring))
        /\ (CapturesKeep => owed \in Seq(Promised))
    BY DEF IInv, TimeOK, KnockOK
  <1>2. Tells(p, x) /\ AllClosed(bs) /\ Items(bs) = x /\ x \in Seq(Commands)
    BY PadTells, ToldTells DEF Sendable
  <1>3. PICK k \in 0 .. n :
          LET out == SubSeq(bs, 1, k)
          IN  /\ ring' = ring \o out
              /\ owed' = owed \o SubSeq(x, 1, Len(Items(out)))
              /\ _buf' = <<>> /\ held' = <<>>
              /\ bare' = (bare \/ Cut(p, k))
    BY DEF Send
  <1> DEFINE out == SubSeq(bs, 1, k)
             rest == SubSeq(bs, k + 1, n)
  <1> HIDE DEF bs
  <1>4. AllClosed(out) /\ AllClosed(rest) /\ bs = out \o rest
    BY <1>2, ClosedCut
  <1>5. /\ ring' = ring \o out /\ owed' = owed \o SubSeq(x, 1, Len(Items(out)))
        /\ _buf' = <<>> /\ held' = <<>> /\ bare' = (bare \/ Cut(p, k))
    BY <1>3
  <1> HIDE DEF out, rest
  <1>6. Items(out) \in Seq(Commands) /\ Items(rest) \in Seq(Commands) /\ x = Items(out) \o Items(rest)
    BY <1>2, <1>4, ClosedConcat
  <1>7. SubSeq(x, 1, Len(Items(out))) = Items(out)
    BY <1>6, PrefixIn
  <1>8. ring' = ring \o out /\ owed' = owed \o Items(out) /\ open' = open /\ gap' = gap
    BY <1>5, <1>7 DEF device
  <1>9. RingOK' /\ (OnTime(gap, ring) /\ OnTime(MIN_CYCLES, out) => OnTime(gap', ring'))
    BY <1>1, <1>4, <1>8, RingGrows
  <1>10. BufOK'
    <2>1. <<>> \in Seq(Plain) /\ Tells(<<>>, <<>>)
      BY NothingReads
    <2>2. _wave' \in [Enabled -> Waves]
      BY <1>1 DEF BufOK
    <2> QED
      BY <1>5, <2>1, <2>2 DEF BufOK
  <1>11. TimeOK'
    <2>1. bare' \in BOOLEAN
      BY <1>1, <1>5 DEF Cut
    <2>2. ASSUME ~bare' PROVE OnTime(MIN_CYCLES, out)
      <3>1. ~bare /\ ~Cut(p, k)
        BY <1>5, <2>2
      <3>2. Timed(p) /\ Settled(MIN_CYCLES, bs)
        BY <3>1 DEF Sendable, bs
      <3>3. CASE k = 0
        <4>1. out = <<>>
          BY <3>3, SubSeqEmpty DEF out
        <4> QED
          BY <4>1, OnTimeNothing
      <3>4. CASE k # 0
        <4>1. n \in Nat /\ bs \in Seq(Block)
          BY <1>2, ClosedEach
        <4>2. k \notin 1 .. n - 1 /\ ~(Len(p) % 2 = 0 /\ Last(p)[1] < 128)
          BY <3>1, <3>4, <4>1 DEF Cut, bs
        <4>3. k = n
          BY <3>4, <4>1, <4>2
        <4>4. out = bs
          BY <4>1, <4>3, SubSeqFull DEF out, n
        <4>5. EndsWell(p)
          <5>1. Len(p) \in Nat
            BY <1>2, ToldTells
          <5>2. Len(p) % 2 = 0 \/ Len(p) % 2 = 1
            BY <5>1
          <5> QED
            BY <3>2, <4>2, <5>2, Zenon DEF Timed, EndsWell
        <4>6. Even(FlattenSeq(bs))
          BY <1>2, <4>5, PadTells DEF bs
        <4> QED
          BY <3>2, <4>4, <4>6 DEF Even, OnTime
      <3> QED
        BY <3>3, <3>4
    <2>3. ASSUME ~bare' PROVE OnTime(gap', ring') /\ Even(_buf')
      <3>1. ~bare
        BY <1>5, <2>3
      <3> QED
        BY <1>1, <1>5, <1>9, <2>2, <2>3, <3>1, NothingReads
    <2> QED
      BY <2>1, <2>3 DEF TimeOK
  <1>12. KnockOK'
    <2> SUFFICES ASSUME CapturesKeep PROVE owed' \in Seq(Promised) /\ held' \in Seq(Promised)
      BY DEF KnockOK, CapturesKeep
    <2>1. x \in Seq(Promised)
      BY DEF Sendable
    <2>2. Items(out) \in Seq(Promised)
      BY <1>6, <2>1, PrefixIn
    <2>3. owed' \in Seq(Promised)
      BY <1>1, <1>8, <2>2, ConcatIn
    <2> QED
      BY <1>5, <2>3
  <1> QED
    BY <1>9, <1>10, <1>11, <1>12 DEF IInv

\* What is spelled without an escape can be flushed behind what _buf holds.
LEMMA PlainSendable ==
    ASSUME NEW p \in Seq(Plain), NEW x, Tells(p, x), bare \/ Timed(p),
           CapturesKeep => x \in Seq(Promised)
    PROVE  Sendable(p, x)
  <1>1. AllClosed(pad_even(p)) /\ Settled(MIN_CYCLES, pad_even(p))
    BY PlainPads, SettledPlain
  <1> QED
    BY <1>1 DEF Sendable

\* A call that extends _buf.
LEMMA ExtendIInv ==
    ASSUME IInv, NEW w \in Seq(Plain), NEW x, Tells(w, x), Extend(w, x),
           CapturesKeep => x \in Seq(Promised),
           bare' = TRUE \/ (bare' = bare /\ Even(w)),
           _wave' \in [Enabled -> Waves]
    PROVE  IInv'
  <1>1. /\ _buf' = _buf \o w /\ held' = held \o x
        /\ UNCHANGED <<ring, owed, open, gap>>
    BY DEF Extend, device
  <1>2. BufOK /\ RingOK /\ TimeOK /\ KnockOK
    BY DEF IInv
  <1>3. _buf \in Seq(Plain) /\ Tells(_buf, held)
    BY <1>2 DEF BufOK
  <1>4. BufOK'
    <2>1. _buf \o w \in Seq(Plain) /\ Tells(_buf \o w, held \o x)
      BY <1>3, TellsConcat, ConcatIn
    <2> QED
      BY <1>1, <2>1 DEF BufOK
  <1>5. RingOK'
    BY <1>1, <1>2 DEF RingOK
  <1>6. TimeOK'
    <2>1. CASE bare' = TRUE
      BY <2>1 DEF TimeOK
    <2>2. CASE bare' = bare /\ Even(w)
      <3>1. ASSUME Even(_buf) PROVE Even(_buf \o w)
        BY <1>3, <2>2, <3>1, EvenConcat
      <3> QED
        BY <1>1, <1>2, <2>2, <3>1 DEF TimeOK
    <2> QED
      BY <2>1, <2>2
  <1>7. KnockOK'
    <2> SUFFICES ASSUME CapturesKeep PROVE owed' \in Seq(Promised) /\ held' \in Seq(Promised)
      BY DEF KnockOK, CapturesKeep
    <2>1. owed \in Seq(Promised) /\ held \in Seq(Promised) /\ x \in Seq(Promised)
      BY <1>2 DEF KnockOK
    <2> QED
      BY <1>1, <2>1, ConcatIn
  <1> QED
    BY <1>4, <1>5, <1>6, <1>7 DEF IInv

\* Commands that keep the promise, one by one and as a sequence.
LEMMA KeepsPromised ==
    ASSUME NEW x \in Seq(Commands)
    PROVE  Keeps(x) <=> x \in Seq(Promised)
  <1>1. Len(x) \in Nat /\ DOMAIN x = 1 .. Len(x) /\ \A i \in 1 .. Len(x) : x[i] \in Commands
    OBVIOUS
  <1>2. ASSUME Keeps(x) PROVE x \in Seq(Promised)
    <2>1. \A i \in 1 .. Len(x) : x[i] \in Promised
      BY <1>1, <1>2, Zenon DEF Keeps, Promised
    <2> QED
      BY <2>1, IsASeq
  <1>3. ASSUME x \in Seq(Promised) PROVE Keeps(x)
    <2>1. \A i \in 1 .. Len(x) : x[i] \in Promised
      BY <1>3
    <2> QED
      BY <1>1, <2>1, Zenon DEF Keeps, Promised
  <1> QED
    BY <1>2, <1>3

\* Writes that are asked for keep the promise when their chips are enabled.
LEMMA WritesPromised ==
    /\ Writes \subseteq Commands
    /\ \A x \in Writes : x[1] \in Enabled \/ x = <<0, 30, 0>> => x \in Promised
  BY EncodedReads DEF Promised

\* Writes to chips in use, each followed by the shortest delay (Compose).
LEMMA ComposeIInv ==
    ASSUME IInv, NEW x \in Seq(Writes), \A i \in 1 .. Len(x) : x[i][1] \in Enabled,
           Compose(x), _wave' \in [Enabled -> Waves]
    PROVE  IInv'
  <1>1. Spelled(x) \in Seq(Plain) /\ Tells(Spelled(x), x) /\ Even(Spelled(x))
    BY SpelledReads
  <1>2. x \in Seq(Promised)
    <2>1. \A i \in 1 .. Len(x) : x[i] \in Promised
      BY WritesPromised
    <2> QED
      BY <2>1, IsASeq
  <1> QED
    BY <1>1, <1>2, ExtendIInv DEF Compose

\* Blocks of their own.
LEMMA DirectIInv ==
    ASSUME IInv, NEW bs, AllClosed(bs), OnTime(MIN_CYCLES, bs),
           Items(bs) \in Seq(Promised), Direct(bs, Items(bs))
    PROVE  IInv'
  <1>1. /\ ring' = ring \o bs /\ owed' = owed \o Items(bs)
        /\ UNCHANGED <<_buf, _wave, held, bare, open, gap, mode>>
    BY DEF Direct, driver, device
  <1>2. BufOK /\ RingOK /\ TimeOK /\ KnockOK
    BY DEF IInv
  <1>3. RingOK' /\ (OnTime(gap, ring) => OnTime(gap', ring'))
    BY <1>1, <1>2, RingGrows
  <1>4. BufOK'
    BY <1>1, <1>2 DEF BufOK
  <1>5. TimeOK'
    BY <1>1, <1>2, <1>3 DEF TimeOK
  <1>6. KnockOK'
    BY <1>1, <1>2, ConcatIn DEF KnockOK, CapturesKeep
  <1> QED
    BY <1>3, <1>4, <1>5, <1>6 DEF IInv

-----------------------------------------------------------------------------
(* Calls that only extend _buf *)

\* The bytes of a value.
LEMMA ValueBytes ==
    ASSUME NEW x \in Values
    PROVE  x % 256 \in Bytes /\ x \div 256 \in Bytes
  <1>2. x \in Nat /\ x <= 65535
    BY StreamAssumption
  <1>3. x % 256 \in 0 .. 255
    BY <1>2
  <1>4. x \div 256 \in 0 .. 255
    <2>1. x = 256 * (x \div 256) + (x % 256) /\ x \div 256 \in Int
      BY <1>2
    <2> QED
      BY <1>2, <1>3, <2>1
  <1> QED
    BY <1>3, <1>4 DEF Bytes

\* One write.
LEMMA WriteType ==
    ASSUME NEW c \in Enabled, NEW r \in 0 .. 31, NEW d \in Bytes
    PROVE  <<c, r, d>> \in Writes /\ <<c, r, d>> \in Promised /\ <<c, r, d>>[1] = c
  <1>1. <<c, r, d>> \in Writes /\ <<c, r, d>>[1] = c
    BY ChipsType DEF Writes
  <1> QED
    BY <1>1, WritesPromised

\* A waveform, with the gate bit or without.
LEMMA WaveType ==
    ASSUME BufOK, NEW c \in Enabled
    PROVE  _wave[c] \in Bytes /\ _wave[c] + 1 \in Bytes
  <1>1. _wave[c] \in {16, 64}
    BY DEF BufOK, Waves
  <1> QED
    BY <1>1 DEF Bytes

\* reg leaves its write without a delay.
LEMMA RegIInv ==
    ASSUME IInv, NEW c \in Enabled, NEW x \in Values, reg(c, 0, x % 256)
    PROVE  IInv'
  <1> DEFINE z == <<c, 0, x % 256>>
             w == <<Encoded(z)>>
  <1>1. z \in Writes /\ z \in Promised /\ z[1] = c /\ z[2] = 0 /\ z[3] = x % 256
    BY ValueBytes, WriteType
  <1>2. /\ Extend(encode_reg(z[1], z[2], z[3]), <<z>>)
        /\ bare' = TRUE /\ _wave' = _wave
    BY <1>1 DEF reg
  <1> HIDE DEF z
  <1>3. encode_reg(z[1], z[2], z[3]) = w /\ w \in Seq(Plain) /\ Tells(w, <<z>>)
    BY <1>1, RegReads
  <1>4. Extend(w, <<z>>)
    BY <1>2, <1>3
  <1>5. <<z>> \in Seq(Promised)
    BY <1>1
  <1>6. _wave' \in [Enabled -> Waves]
    BY <1>2 DEF IInv, BufOK
  <1> HIDE DEF w
  <1> QED
    BY <1>2, <1>3, <1>4, <1>5, <1>6, ExtendIInv

\* delay says nothing, and leaves no write to wait for.
LEMMA DelayIInv ==
    ASSUME IInv, NEW n \in Pauses, delay(n)
    PROVE  IInv'
  <1> DEFINE w == encode_delay(n)
  <1>1. n \in Nat
    <2>1. Pauses \subseteq Nat
      BY StreamAssumption
    <2> QED
      BY <2>1
  <1>2. w \in Seq(Plain) /\ Tells(w, <<>>) /\ Even(w)
    BY <1>1, DelayReads
  <1>3. Extend(w, <<>>) /\ bare' = bare /\ _wave' = _wave
    BY DEF delay
  <1>4. <<>> \in Seq(Promised) /\ _wave' \in [Enabled -> Waves]
    BY <1>3 DEF IInv, BufOK
  <1> HIDE DEF w
  <1> QED
    BY <1>2, <1>3, <1>4, ExtendIInv

\* Writes to one enabled chip.
LEMMA OneChip ==
    ASSUME NEW c \in Enabled, NEW x \in Seq(Writes), \A i \in 1 .. Len(x) : x[i][1] = c
    PROVE  \A i \in 1 .. Len(x) : x[i][1] \in Enabled
  OBVIOUS

\* voice sends the patch, and keeps the waveform for later.
LEMMA VoiceIInv ==
    ASSUME IInv, NEW c \in Enabled, NEW x \in Values, voice(c, 64, x)
    PROVE  IInv'
  <1> DEFINE a == <<c, 5, x % 256>>
             b == <<c, 6, x \div 256>>
             d == <<c, 2, 0>>
             e == <<c, 3, 8>>
             s == <<a, b, d, e>>
  <1>1. /\ a \in Writes /\ b \in Writes /\ d \in Writes /\ e \in Writes
        /\ a[1] = c /\ b[1] = c /\ d[1] = c /\ e[1] = c
    <2>1. 0 \in Bytes /\ 8 \in Bytes
      BY DEF Bytes
    <2> QED
      BY <2>1, ValueBytes, WriteType
  <1>2. Compose(s) /\ _wave' = [_wave EXCEPT ![c] = 64]
    BY DEF voice, Patch
  <1> HIDE DEF a, b, d, e
  <1>3. s \in Seq(Writes) /\ \A i \in 1 .. Len(s) : s[i][1] \in Enabled
    BY <1>1
  <1>4. _wave' \in [Enabled -> Waves]
    BY <1>2 DEF IInv, BufOK, Waves
  <1> HIDE DEF s
  <1> QED
    BY <1>2, <1>3, <1>4, ComposeIInv

\* note_on sends the frequency and opens the gate.
LEMMA NoteOnIInv ==
    ASSUME IInv, NEW c \in Enabled, NEW x \in Values, note_on(c, x)
    PROVE  IInv'
  <1> DEFINE a == <<c, 0, x % 256>>
             b == <<c, 1, x \div 256>>
             d == <<c, 4, _wave[c] + 1>>
             s == <<a, b, d>>
  <1>1. /\ a \in Writes /\ b \in Writes /\ d \in Writes
        /\ a[1] = c /\ b[1] = c /\ d[1] = c
    <2>1. _wave[c] + 1 \in Bytes
      BY WaveType DEF IInv
    <2> QED
      BY <2>1, ValueBytes, WriteType
  <1>2. Compose(s) /\ _wave' = _wave
    BY DEF note_on, Strike
  <1> HIDE DEF a, b, d
  <1>3. s \in Seq(Writes) /\ \A i \in 1 .. Len(s) : s[i][1] \in Enabled
    BY <1>1
  <1>4. _wave' \in [Enabled -> Waves]
    BY <1>2 DEF IInv, BufOK
  <1> HIDE DEF s
  <1> QED
    BY <1>2, <1>3, <1>4, ComposeIInv

\* note_off and volume: a single write.
LEMMA SingleIInv ==
    ASSUME IInv, NEW c \in Enabled, NEW r \in 0 .. 31, NEW d \in Bytes,
           Compose(<<<<c, r, d>>>>), UNCHANGED _wave
    PROVE  IInv'
  <1> DEFINE a == <<c, r, d>>
             s == <<a>>
  <1>1. a \in Writes /\ a[1] = c
    BY WriteType
  <1>2. Compose(s)
    OBVIOUS
  <1> HIDE DEF a
  <1>3. s \in Seq(Writes) /\ \A i \in 1 .. Len(s) : s[i][1] \in Enabled
    BY <1>1
  <1>4. _wave' \in [Enabled -> Waves]
    BY DEF IInv, BufOK
  <1> HIDE DEF s
  <1> QED
    BY <1>2, <1>3, <1>4, ComposeIInv

\* note_off closes the gate.
LEMMA NoteOffIInv ==
    ASSUME IInv, NEW c \in Enabled, note_off(c)
    PROVE  IInv'
  <1>1. _wave[c] \in Bytes /\ 4 \in 0 .. 31
    BY WaveType DEF IInv
  <1>2. Compose(<<<<c, 4, _wave[c]>>>>) /\ UNCHANGED _wave
    BY DEF note_off
  <1> DEFINE d == _wave[c]
  <1> HIDE DEF d
  <1>3. d \in Bytes /\ Compose(<<<<c, 4, d>>>>)
    BY <1>1, <1>2 DEF d
  <1> QED
    BY <1>1, <1>2, <1>3, SingleIInv

\* volume is a write of its own.
LEMMA VolumeIInv ==
    ASSUME IInv, NEW c \in Enabled, volume(c, 15)
    PROVE  IInv'
  <1>1. 15 \in Bytes /\ 24 \in 0 .. 31
    BY DEF Bytes
  <1>2. Compose(<<<<c, 24, 15>>>>) /\ UNCHANGED _wave
    BY DEF volume
  <1> QED
    BY <1>1, <1>2, SingleIInv

-----------------------------------------------------------------------------
(* Calls that send *)

\* What ends in a delay can be flushed.
LEMMA EvenTimed ==
    ASSUME NEW p, Even(p)
    PROVE  Timed(p)
  BY Zenon DEF Even, Timed

\* flush, of what _buf holds.
LEMMA FlushSendable ==
    ASSUME IInv
    PROVE  Sendable(_buf, held)
  <1>1. _buf \in Seq(Plain) /\ Tells(_buf, held)
    BY DEF IInv, BufOK
  <1>2. bare \/ Timed(_buf)
    BY EvenTimed DEF IInv, TimeOK
  <1>3. CapturesKeep => held \in Seq(Promised)
    BY DEF IInv, KnockOK
  <1> QED
    BY <1>1, <1>2, <1>3, PlainSendable

LEMMA FlushIInv ==
    ASSUME IInv, flush
    PROVE  IInv'
  <1>1. Send(_buf, held) /\ UNCHANGED <<device, _wave>>
    BY DEF flush
  <1> QED
    BY <1>1, FlushSendable, SendIInv

\* silence() writes to the chips in use only.
LEMMA SweepType == SweepWrites \in Seq(Writes) /\ SweepWrites \in Seq(Promised)
  <1> DEFINE n == Len(Chips)
             x(i) == [j \in 1 .. Len(Sweep) |-> <<Chips[i], Sweep[j], 0>>]
             xs == [i \in 1 .. n |-> x(i)]
             Both == Writes \cap Promised
  <1>1. /\ n \in Nat /\ DOMAIN Chips = 1 .. n
        /\ \A i \in 1 .. n : Chips[i] \in Enabled
    BY ChipsType
  <1>2. /\ Sweep \in Seq(0 .. 31) /\ Len(Sweep) \in Nat /\ DOMAIN Sweep = 1 .. Len(Sweep)
        /\ \A j \in 1 .. Len(Sweep) : Sweep[j] \in 0 .. 31
    <2>1. Sweep \in Seq(0 .. 31)
      BY StreamAssumption
    <2> QED
      BY <2>1, LenProperties, ElementOfSeq
  <1>3. \A i \in 1 .. n : x(i) \in Seq(Both)
    <2> TAKE i \in 1 .. n
    <2>1. \A j \in 1 .. Len(Sweep) : <<Chips[i], Sweep[j], 0>> \in Both
      <3> TAKE j \in 1 .. Len(Sweep)
      <3>1. 0 \in Bytes
        BY DEF Bytes
      <3> QED
        BY <1>1, <1>2, <3>1, WriteType
    <2> HIDE DEF Both
    <2> QED
      BY <1>2, <2>1
  <1>4. SweepWrites = FlattenSeq(xs)
    BY <1>1, <1>2 DEF SweepWrites
  <1> HIDE DEF x, Both
  <1>5. xs \in Seq(Seq(Both))
    BY <1>1, <1>3
  <1> HIDE DEF xs
  <1>6. SweepWrites \in Seq(Both)
    BY <1>4, <1>5, FlattenType
  <1>7. Seq(Both) \subseteq Seq(Writes) /\ Seq(Both) \subseteq Seq(Promised)
    <2>1. Both \subseteq Writes /\ Both \subseteq Promised
      BY DEF Both
    <2> QED
      BY <2>1, SeqMonotonic
  <1> QED
    BY <1>6, <1>7

\* silence, behind what _buf holds.
LEMMA SilenceSendable ==
    ASSUME IInv
    PROVE  Sendable(_buf \o Spelled(SweepWrites), held \o SweepWrites)
  <1> DEFINE w == Spelled(SweepWrites)
             p == _buf \o w
             x == held \o SweepWrites
  <1>1. w \in Seq(Plain) /\ Tells(w, SweepWrites) /\ Even(w)
    BY SweepType, SpelledReads
  <1>2. _buf \in Seq(Plain) /\ Tells(_buf, held)
    BY DEF IInv, BufOK
  <1> HIDE DEF w
  <1>3. p \in Seq(Plain) /\ Tells(p, x)
    BY <1>1, <1>2, TellsConcat, ConcatIn
  <1>4. bare \/ Timed(p)
    <2>1. Even(_buf) => Even(p)
      BY <1>1, <1>2, EvenConcat
    <2> HIDE DEF p
    <2> QED
      BY <2>1, EvenTimed DEF IInv, TimeOK
  <1>5. CapturesKeep => x \in Seq(Promised)
    BY SweepType, ConcatIn DEF IInv, KnockOK
  <1> HIDE DEF p, x
  <1>6. Sendable(p, x)
    BY <1>3, <1>4, <1>5, PlainSendable
  <1> QED
    BY <1>6 DEF p, x, w

LEMMA SilenceIInv ==
    ASSUME IInv, silence
    PROVE  IInv'
  <1>1. /\ Send(_buf \o Spelled(SweepWrites), held \o SweepWrites)
        /\ UNCHANGED <<device, _wave>>
    BY DEF silence
  <1> QED
    BY <1>1, SilenceSendable, SendIInv

\* Arming writes to the chips in use, and to the register of the promise.
LEMMA InitType == InitWrites \in Seq(Promised)
  <1> DEFINE n == Len(Chips)
             m == Len(Rows)
             x(i) == [j \in 1 .. m |-> RowWrite(Rows[j], Chips[i])]
             xs == [i \in 1 .. n |-> x(i)]
             z == <<0, 30, 0>>
  <1>1. /\ n \in Nat /\ DOMAIN Chips = 1 .. n
        /\ \A i \in 1 .. n : Chips[i] \in 0 .. 3 /\ Chips[i] \in Enabled
    BY ChipsType
  <1>2. m \in Nat /\ DOMAIN Rows = 1 .. m
    BY RowsAssumption, LenProperties
  <1>3. \A i \in 1 .. n : x(i) \in Seq(Promised)
    <2> TAKE i \in 1 .. n
    <2>1. \A j \in 1 .. m : RowWrite(Rows[j], Chips[i]) \in Promised
      BY <1>1, RowWriteType, WritesPromised
    <2> QED
      BY <1>2, <2>1
  <1>4. InitWrites = FlattenSeq(xs) \o <<z>>
    BY <1>1, <1>2 DEF InitWrites
  <1>5. z \in Promised
    <2>1. z \in Writes
      BY DEF Writes, Bytes
    <2> QED
      BY <2>1, WritesPromised
  <1> HIDE DEF x, z
  <1>6. xs \in Seq(Seq(Promised)) /\ <<z>> \in Seq(Promised)
    BY <1>1, <1>3, <1>5
  <1> HIDE DEF xs
  <1>7. FlattenSeq(xs) \in Seq(Promised)
    BY <1>6, FlattenType
  <1> QED
    BY <1>4, <1>6, <1>7, ConcatIn

\* The last word of a stream.
LEMMA LastOfConcat ==
    ASSUME NEW S, NEW a \in Seq(S), NEW b \in Seq(S), b # <<>>
    PROVE  Last(a \o b) = Last(b)
  <1>1. Len(b) \in Nat /\ Len(b) # 0 /\ Len(a) \in Nat
    BY EmptySeq
  <1>2. Len(a \o b) = Len(a) + Len(b) /\ (a \o b)[Len(a) + Len(b)] = b[Len(b)]
    <2>1. Len(a) + Len(b) \in 1 .. Len(a) + Len(b) /\ ~(Len(a) + Len(b) <= Len(a))
          /\ (Len(a) + Len(b)) - Len(a) = Len(b)
      BY <1>1
    <2> QED
      BY <2>1, ConcatProperties
  <1> QED
    BY <1>2 DEF Last

\* init arms the sockets behind what _buf holds, and ends in a write.
LEMMA InitSendable ==
    ASSUME IInv
    PROVE  Sendable(_buf \o InitWords, held \o InitWrites)
  <1> DEFINE p == _buf \o InitWords
             x == held \o InitWrites
  <1>1. /\ InitWords \in Seq(Plain) /\ Tells(InitWords, InitWrites) /\ Prompt(InitWords)
        /\ InitWords # <<>> /\ Last(InitWords)[1] < 128
    BY InitReads
  <1>2. _buf \in Seq(Plain) /\ Tells(_buf, held)
    BY DEF IInv, BufOK
  <1>3. p \in Seq(Plain) /\ Tells(p, x)
    BY <1>1, <1>2, TellsConcat, ConcatIn
  <1>4. bare \/ Timed(p)
    <2>1. Even(_buf) => ~Read(FALSE, MIN_CYCLES, p).early
      BY <1>1, <1>2, EvenConcat
    <2>2. Last(p)[1] < 128
      BY <1>1, <1>2, LastOfConcat
    <2> HIDE DEF p
    <2>3. Even(_buf) => Timed(p)
      BY <2>1, <2>2, Zenon DEF Timed
    <2> QED
      BY <2>3 DEF IInv, TimeOK
  <1>5. CapturesKeep => x \in Seq(Promised)
    BY InitType, ConcatIn DEF IInv, KnockOK
  <1> HIDE DEF p, x
  <1>6. Sendable(p, x)
    BY <1>3, <1>4, <1>5, PlainSendable
  <1> QED
    BY <1>6 DEF p, x

LEMMA InitCallIInv ==
    ASSUME IInv, init
    PROVE  IInv'
  <1>1. Send(_buf \o InitWords, held \o InitWrites) /\ UNCHANGED <<device, _wave>>
    BY DEF init
  <1> QED
    BY <1>1, InitSendable, SendIInv

\* init_from_capture sends a stream the driver has not spelled.
LEMMA CaptureSendable ==
    ASSUME NEW p \in Captures
    PROVE  Sendable(p, Read(FALSE, MIN_CYCLES, p).items)
  <1> DEFINE x == Read(FALSE, MIN_CYCLES, p).items
             bs == pad_even(p)
  <1>1. /\ p \in Seq(Words) /\ ~Read(FALSE, 0, p).open /\ Timed(p)
        /\ \A k \in DOMAIN bs : Closed(bs[k])
        /\ Settled(MIN_CYCLES, bs)
    BY CaptureAssumption, Zenon
  <1>2. Tells(p, x)
    <2>1. Tells(p, Told(p))
      BY <1>1, TellsTold
    <2> QED
      BY <2>1, FullGap DEF Tells
  <1>3. AllClosed(bs)
    BY <1>1, PadBlocks DEF AllClosed
  <1>4. CapturesKeep => x \in Seq(Promised)
    <2>1. x \in Seq(Commands)
      BY <1>2, ToldTells
    <2>2. CapturesKeep => Keeps(x)
      BY Zenon DEF CapturesKeep
    <2> HIDE DEF x
    <2> QED
      BY <2>1, <2>2, KeepsPromised
  <1> HIDE DEF x
  <1>5. Sendable(p, x)
    BY <1>1, <1>2, <1>3, <1>4 DEF Sendable
  <1> QED
    BY <1>5 DEF x

LEMMA CaptureIInv ==
    ASSUME IInv, NEW p \in Captures, init_from_capture(p)
    PROVE  IInv'
  <1>1. Send(p, Read(FALSE, MIN_CYCLES, p).items) /\ UNCHANGED <<device, _wave>>
    BY DEF init_from_capture
  <1> QED
    BY <1>1, CaptureSendable, SendIInv

\* set_system_mode sends the only block that has an escape.
LEMMA ModeIInv ==
    ASSUME IInv, NEW m \in 0 .. 1, set_system_mode(m)
    PROVE  IInv'
  <1> DEFINE bs == ModeBlock(m)
             p == <<FILLER, word(0, m)>>
             x == <<m>>
  <1>1. AllClosed(bs) /\ Items(bs) = <<x>> /\ Even(FlattenSeq(bs))
    BY ModeCloses
  <1>2. Direct(bs, Items(bs))
    BY <1>1 DEF set_system_mode
  <1>3. Len(bs) = 1 /\ bs \in Seq(Block)
    <2>1. word(0, m) \in Words /\ FILLER \in Words
      <3>1. 0 \in 0 .. 254 /\ m \in Nat
        OBVIOUS
      <3>2. word(0, m) \in Plain
        BY <3>1, WordPlain
      <3> QED
        BY <3>2 DEF Plain, FILLER, Words, Bytes
    <2>2. p \in Seq(Words) /\ Len(p) = 2
      BY <2>1
    <2>3. bs = Filled(p, PAD_WORD)
      <3>1. bs = pad_even(p)
        BY DEF ModeBlock
      <3> HIDE DEF bs, p
      <3>2. Evened(p) = p
        <4>1. Len(p) % 2 # 1
          BY <2>2
        <4> QED
          BY <4>1 DEF Evened
      <3> QED
        BY <3>1, <3>2, PadEven
    <2> HIDE DEF bs, p
    <2>4. Len(bs) = (2 + BlockWords - 1) \div BlockWords
      <3>1. PAD_WORD \in Words
        BY PadWord
      <3>2. Len(Filled(p, PAD_WORD)) = (Len(p) + BlockWords - 1) \div BlockWords
        BY <2>2, <3>1, FilledEach
      <3> QED
        BY <2>2, <2>3, <3>2
    <2>5. (2 + BlockWords - 1) \div BlockWords = 1
      BY WireAssumption
    <2> QED
      BY <1>1, <2>4, <2>5, ClosedEach
  <1> HIDE DEF bs
  <1>4. OnTime(MIN_CYCLES, bs)
    <2>1. \A k \in 1 .. Len(bs) :
             Read(FALSE, MIN_CYCLES, FlattenSeq(SubSeq(bs, 1, k))).gap = MIN_CYCLES
      <3> TAKE k \in 1 .. Len(bs)
      <3>1. k = Len(bs)
        BY <1>3
      <3>2. SubSeq(bs, 1, k) = bs
        BY <1>3, <3>1, SubSeqFull
      <3> QED
        BY <1>1, <3>2 DEF Even
    <2>2. Settled(MIN_CYCLES, bs)
      BY <1>1, <2>1, SettledAt
    <2> QED
      BY <1>1, <2>2 DEF Even, OnTime
  <1>5. Items(bs) \in Seq(Promised)
    <2>1. x \in Commands /\ Len(x) # 3
      BY DEF Commands
    <2>2. x \in Promised
      BY <2>1 DEF Promised
    <2> HIDE DEF x
    <2> QED
      BY <1>1, <2>2
  <1> QED
    BY <1>1, <1>2, <1>4, <1>5, DirectIInv

\* The start block waits for nothing, and leaves nothing waited for.
LEMMA StartIInv ==
    ASSUME IInv, start_engine
    PROVE  IInv'
  <1>1. /\ ring' = ring \o StartBlock /\ owed' = owed \o StartItems /\ bare' = TRUE
        /\ UNCHANGED <<_buf, _wave, held, open, gap, mode>>
    BY DEF start_engine, device
  <1>2. BufOK /\ RingOK /\ KnockOK
    BY DEF IInv
  <1>3. /\ AllClosed(StartBlock) /\ Items(StartBlock) = StartItems
        /\ StartItems \in Seq(Promised)
    BY StartReads
  <1>4. RingOK'
    BY <1>1, <1>2, <1>3, RingGrows
  <1>5. BufOK'
    BY <1>1, <1>2 DEF BufOK
  <1>6. TimeOK'
    BY <1>1 DEF TimeOK
  <1>7. KnockOK'
    BY <1>1, <1>2, <1>3, ConcatIn DEF KnockOK, CapturesKeep
  <1> QED
    BY <1>4, <1>5, <1>6, <1>7 DEF IInv

\* write_regs_now passes _buf by with a block that waits before it writes.
LEMMA DirectWritesIInv ==
    ASSUME IInv, NEW c \in Enabled, NEW f \in Values, write_regs_now(Phrase(c, f))
    PROVE  IInv'
  <1> DEFINE s == Phrase(c, f)
             d == encode_delay(MIN_CYCLES)
             w == Spelled(s)
             p == d \o w
             bs == pad_even(p)
  <1>1. s \in Seq(Writes) /\ s \in Seq(Promised)
    <2> DEFINE a == <<c, 4, 16>>
               b == <<c, 0, f % 256>>
               g == <<c, 1, f \div 256>>
               e == <<c, 4, 17>>
    <2>1. /\ a \in Writes /\ b \in Writes /\ g \in Writes /\ e \in Writes
          /\ a \in Promised /\ b \in Promised /\ g \in Promised /\ e \in Promised
      <3>1. 16 \in Bytes /\ 17 \in Bytes
        BY DEF Bytes
      <3> QED
        BY <3>1, ValueBytes, WriteType
    <2>2. s = <<a, b, g, e>>
      BY DEF Phrase
    <2> HIDE DEF a, b, g, e, s
    <2> QED
      BY <2>1, <2>2
  <1>2. Direct(bs, s)
    BY DEF write_regs_now, _build_block
  <1> HIDE DEF s
  <1>3. d \in Seq(Plain) /\ Tells(d, <<>>) /\ Even(d)
    BY DelayReads, FullGap
  <1>4. w \in Seq(Plain) /\ Tells(w, s) /\ Even(w)
    BY <1>1, SpelledReads
  <1> HIDE DEF d, w
  <1>5. p \in Seq(Plain) /\ Tells(p, s) /\ Even(p)
    <2>1. Tells(p, <<>> \o s) /\ Even(p)
      BY <1>3, <1>4, TellsConcat, EvenConcat
    <2>2. <<>> \o s = s
      BY <1>1
    <2>3. p \in Seq(Plain)
      BY <1>3, <1>4, ConcatIn
    <2> QED
      BY <2>1, <2>2, <2>3
  <1> HIDE DEF p
  <1>6. AllClosed(bs) /\ \A k \in 1 .. Len(bs) : bs[k] \in Seq(Plain)
    BY <1>5, PlainPads
  <1>7. Items(bs) = s /\ Even(FlattenSeq(bs))
    <2>1. EndsWell(p)
      BY <1>5, Zenon DEF Even, EndsWell
    <2> QED
      BY <1>5, <1>6, <2>1, PadTells
  <1> HIDE DEF bs
  <1>8. OnTime(MIN_CYCLES, bs)
    BY <1>6, <1>7, SettledPlain DEF Even, OnTime
  <1> QED
    BY <1>1, <1>2, <1>6, <1>7, <1>8, DirectIInv

-----------------------------------------------------------------------------
(* The device *)

\* What is left when the beginning is taken away.
LEMMA RestOfConcat ==
    ASSUME NEW S, NEW a \in Seq(S), NEW b \in Seq(S)
    PROVE  SubSeq(a \o b, Len(a) + 1, Len(a \o b)) = b
  <1> DEFINE c == a \o b
             m == Len(a)
             n == Len(b)
             s == SubSeq(c, m + 1, Len(c))
  <1>1. /\ c \in Seq(S) /\ m \in Nat /\ n \in Nat /\ Len(c) = m + n
        /\ \A i \in 1 .. m + n : c[i] = IF i <= m THEN a[i] ELSE b[i - m]
    BY ConcatProperties
  <1> HIDE DEF c, m, n
  <1>2. \A i \in m + 1 .. Len(c) : c[i] \in S
    <2> TAKE i \in m + 1 .. Len(c)
    <2>1. i \in 1 .. Len(c)
      BY <1>1
    <2> QED
      BY <1>1, <2>1, ElementOfSeq
  <1>3. /\ s \in Seq(S)
        /\ Len(s) = IF m + 1 <= Len(c) THEN Len(c) - (m + 1) + 1 ELSE 0
        /\ \A i \in 1 .. Len(c) - (m + 1) + 1 : s[i] = c[m + 1 + i - 1]
    <2>1. m + 1 \in Int /\ Len(c) \in Int
      BY <1>1
    <2> DEFINE k == m + 1
    <2>2. k \in Int /\ k = m + 1
      BY <2>1
    <2> HIDE DEF k, s
    <2>3. /\ SubSeq(c, k, Len(c)) \in Seq(S)
          /\ Len(SubSeq(c, k, Len(c))) = IF k <= Len(c) THEN Len(c) - k + 1 ELSE 0
          /\ \A i \in 1 .. Len(c) - k + 1 : SubSeq(c, k, Len(c))[i] = c[k + i - 1]
      BY <1>1, <1>2, <2>1, <2>2, SubSeqProperties
    <2> QED
      BY <2>2, <2>3 DEF s
  <1> HIDE DEF s
  <1>4. Len(s) = n
    BY <1>1, <1>3
  <1>5. \A i \in 1 .. n : s[i] = b[i]
    <2> TAKE i \in 1 .. n
    <2>1. i \in 1 .. Len(c) - (m + 1) + 1 /\ m + 1 + i - 1 = m + i
      BY <1>1
    <2>2. m + i \in 1 .. m + n /\ ~(m + i <= m) /\ (m + i) - m = i
      BY <1>1
    <2>3. s[i] = c[m + i]
      BY <1>3, <2>1
    <2> DEFINE j == m + i
    <2>4. j \in 1 .. m + n /\ ~(j <= m) /\ j - m = i
      BY <2>2
    <2> HIDE DEF j
    <2>5. c[j] = b[i]
      BY <1>1, <2>4
    <2> QED
      BY <2>3, <2>5 DEF j
  <1>6. s = b
    BY <1>3, <1>4, <1>5, SeqEqual DEF n
  <1> QED
    BY <1>6 DEF s, c, m

\* The first block and the others.
LEMMA HeadClosed ==
    ASSUME NEW bs, AllClosed(bs), bs # <<>>
    PROVE  /\ AllClosed(Tail(bs)) /\ Tells(Head(bs), Told(Head(bs)))
           /\ Items(bs) = Told(Head(bs)) \o Items(Tail(bs))
           /\ Told(Head(bs)) \in Seq(Commands) /\ Items(Tail(bs)) \in Seq(Commands)
  <1> DEFINE b == Head(bs)
             t == Tail(bs)
             n == Len(bs)
  <1>1. /\ bs \in Seq(Block) /\ n \in Nat /\ n >= 1
        /\ \A k \in 1 .. n : bs[k] \in Block /\ bs[k] \in Seq(Words) /\ Closed(bs[k])
    <2>1. n # 0
      BY ClosedEach, EmptySeq
    <2> QED
      BY <2>1, ClosedEach
  <1>2. b = bs[1] /\ b \in Seq(Words) /\ Closed(b) /\ b \in Block
    BY <1>1
  <1>3. t \in Seq(Block) /\ Len(t) = n - 1 /\ \A k \in 1 .. n - 1 : t[k] = bs[k + 1]
    BY <1>1, HeadTailProperties
  <1>4. AllClosed(t)
    <2>1. \A k \in 1 .. Len(t) : Closed(t[k])
      BY <1>1, <1>3
    <2> QED
      BY <1>3, <2>1, EachClosed
  <1>5. bs = <<b>> \o t
    BY <1>1
  <1> HIDE DEF b, t
  <1> DEFINE h == <<b>>
  <1>6. AllClosed(h)
    <2>1. h \in Seq(Block) /\ Len(h) = 1 /\ h[1] = b
      BY <1>2
    <2> HIDE DEF h
    <2>2. \A k \in 1 .. Len(h) : Closed(h[k])
      BY <1>2, <2>1
    <2> QED
      BY <2>1, <2>2, EachClosed
  <1>7. Items(h) = Told(b)
    <2>1. FlattenSeq(h) = b
      BY <1>2, FlattenOne
    <2> QED
      BY <2>1 DEF Items, Told
  <1> HIDE DEF h
  <1>8. /\ Items(h \o t) = Items(h) \o Items(t)
        /\ Items(h) \in Seq(Commands) /\ Items(t) \in Seq(Commands)
    BY <1>4, <1>6, ClosedConcat
  <1>9. Tells(b, Told(b))
    BY <1>2, ClosedTells
  <1> QED
    BY <1>4, <1>5, <1>7, <1>8, <1>9 DEF b, t, h

\* The device reads a block, and may drop the rest where a mode changes.
LEMMA ExecuteIInv ==
    ASSUME IInv, Execute
    PROVE  IInv'
  <1> DEFINE b == Head(ring)
             t == Tail(ring)
             r == Read(FALSE, gap, b)
             x == Told(b)
             y == Items(t)
  <1>1. /\ AllClosed(ring) /\ owed = Items(ring) /\ open = FALSE /\ gap \in Gaps
        /\ ring # <<>> /\ UNCHANGED <<_buf, _wave, held>>
        /\ bare' = (bare /\ ~Quiet(ring', gap'))
    BY DEF IInv, RingOK, Execute
  <1>2. /\ AllClosed(t) /\ Tells(b, x) /\ owed = x \o y
        /\ x \in Seq(Commands) /\ y \in Seq(Commands)
    BY <1>1, HeadClosed
  <1>3. r.items = x /\ ~r.open /\ r.open = FALSE /\ r.gap \in Gaps
    <2>1. r.items = x /\ ~r.open /\ b \in Seq(Words)
      BY <1>1, <1>2 DEF Tells
    <2>2. r.open \in BOOLEAN /\ r.gap \in Gaps
      BY <1>1, <2>1, ReadType
    <2> QED
      BY <2>1, <2>2
  <1>4. /\ open' = r.open /\ gap' = r.gap
        /\ \/ /\ ring' = t
              /\ owed' = SubSeq(owed, Len(r.items) + 1, Len(owed))
           \/ Modes(r.items) # {} /\ ring' = <<>> /\ owed' = <<>>
    BY <1>1, Zenon DEF Execute
  <1> HIDE DEF b, t, r, x, y
  <1>5. \/ ring' = t /\ owed' = y
        \/ Modes(x) # {} /\ ring' = <<>> /\ owed' = <<>>
    <2>1. SubSeq(owed, Len(x) + 1, Len(owed)) = y
      BY <1>2, RestOfConcat
    <2> QED
      BY <1>3, <1>4, <2>1
  <1>6. open' = FALSE /\ gap' = r.gap /\ gap' \in Gaps
    BY <1>3, <1>4
  <1>7. BufOK'
    BY <1>1 DEF IInv, BufOK
  <1>8. AllClosed(ring') /\ owed' = Items(ring')
    <2>1. AllClosed(<<>>) /\ Items(<<>>) = <<>>
      <3>1. <<>> \in Seq(Block) /\ \A k \in 1 .. Len(<<>>) : Closed(<<>>[k])
        OBVIOUS
      <3>2. AllClosed(<<>>)
        BY <3>1, EachClosed
      <3>3. Items(<<>>) = <<>>
        BY FlattenNothing, NothingReads, FullGap DEF Items, Tells
      <3> QED
        BY <3>2, <3>3
    <2>2. CASE ring' = t /\ owed' = y
      BY <1>2, <2>2 DEF y
    <2>3. CASE ring' = <<>> /\ owed' = <<>>
      BY <2>1, <2>3
    <2> QED
      BY <1>5, <2>2, <2>3
  <1>9. RingOK'
    BY <1>6, <1>8 DEF RingOK
  <1>10. TimeOK'
    <2>1. ASSUME ~bare PROVE OnTime(gap', ring')
      <3>1. OnTime(gap, ring)
        BY <2>1 DEF IInv, TimeOK
      <3>2. OnTime(r.gap, t) /\ (Modes(x) # {} => r.gap = MIN_CYCLES)
        BY <1>1, <3>1, OnTimeTail DEF r, t, x, b
      <3>3. CASE ring' = t
        BY <1>6, <3>2, <3>3
      <3>4. CASE Modes(x) # {} /\ ring' = <<>>
        BY <1>6, <3>2, <3>4, OnTimeNothing
      <3> QED
        BY <1>5, <3>3, <3>4
    <2>2. bare \in BOOLEAN /\ (~bare => Even(_buf))
      BY DEF IInv, TimeOK
    <2>3. ASSUME Quiet(ring', gap') PROVE OnTime(gap', ring') /\ Even(_buf')
      <3>1. ring' = <<>> /\ _buf' = <<>> /\ gap' = MIN_CYCLES
        BY <1>1, <2>3 DEF Quiet
      <3> QED
        BY <3>1, NothingReads, OnTimeNothing
    <2> QED
      BY <1>1, <2>1, <2>2, <2>3 DEF TimeOK
  <1>11. KnockOK'
    <2> SUFFICES ASSUME CapturesKeep PROVE owed' \in Seq(Promised) /\ held' \in Seq(Promised)
      BY DEF KnockOK, CapturesKeep
    <2>1. owed \in Seq(Promised) /\ held \in Seq(Promised)
      BY DEF IInv, KnockOK
    <2>2. y \in Seq(Promised)
      BY <1>2, <2>1, PrefixIn
    <2>3. owed' \in Seq(Promised)
      <3>1. <<>> \in Seq(Promised)
        OBVIOUS
      <3> QED
        BY <1>5, <2>2, <3>1, Zenon
    <2> QED
      BY <1>1, <2>1, <2>3
  <1> QED
    BY <1>7, <1>9, <1>10, <1>11 DEF IInv

-----------------------------------------------------------------------------
(* The invariant holds *)

\* It holds at first.
LEMMA InitIInv == Init => IInv
  <1> SUFFICES ASSUME Init PROVE IInv
    OBVIOUS
  <1>1. AllClosed(<<>>) /\ Items(<<>>) = <<>>
    <2>1. <<>> \in Seq(Block) /\ \A k \in 1 .. Len(<<>>) : Closed(<<>>[k])
      OBVIOUS
    <2>2. AllClosed(<<>>)
      BY <2>1, EachClosed
    <2>3. Items(<<>>) = <<>>
      BY FlattenNothing, NothingReads, FullGap DEF Items, Tells
    <2> QED
      BY <2>2, <2>3
  <1>2. BufOK
    <2>1. _buf = <<>> /\ held = <<>> /\ _wave \in [Enabled -> Waves]
      BY DEF Init, Waves
    <2>2. <<>> \in Seq(Plain)
      OBVIOUS
    <2> QED
      BY <2>1, <2>2, NothingReads DEF BufOK
  <1>3. RingOK
    BY <1>1, FullGap DEF Init, RingOK
  <1>4. TimeOK
    <2>1. _buf = <<>> /\ ring = <<>> /\ gap = MIN_CYCLES /\ bare = FALSE
      BY DEF Init
    <2> QED
      BY <2>1, NothingReads, OnTimeNothing DEF TimeOK
  <1>5. KnockOK
    BY DEF Init, KnockOK
  <1> QED
    BY <1>2, <1>3, <1>4, <1>5 DEF IInv

\* It does not depend on the mode.
LEMMA StutterIInv == IInv /\ UNCHANGED vars => IInv'
  <1> SUFFICES ASSUME IInv, UNCHANGED vars PROVE IInv'
    OBVIOUS
  <1>1. UNCHANGED <<_buf, _wave, ring, open, gap, held, owed, bare>>
    BY DEF vars
  <1>2. BufOK' /\ RingOK'
    BY <1>1 DEF IInv, BufOK, RingOK
  <1>3. TimeOK'
    BY <1>1 DEF IInv, TimeOK
  <1>4. KnockOK'
    BY <1>1 DEF IInv, KnockOK, CapturesKeep
  <1> QED
    BY <1>2, <1>3, <1>4 DEF IInv

\* Every call and every block read preserves it.
LEMMA NextIInv == IInv /\ [Next]_vars => IInv'
  <1> SUFFICES ASSUME IInv, [Next]_vars PROVE IInv'
    OBVIOUS
  <1>1. ASSUME NEW c \in Enabled, NEW x \in Values, reg(c, 0, x % 256) PROVE IInv'
    BY <1>1, RegIInv
  <1>2. ASSUME NEW c \in Enabled, NEW x \in Values, voice(c, 64, x) PROVE IInv'
    BY <1>2, VoiceIInv
  <1>3. ASSUME NEW c \in Enabled, NEW x \in Values, note_on(c, x) PROVE IInv'
    BY <1>3, NoteOnIInv
  <1>4. ASSUME NEW c \in Enabled, NEW x \in Values, write_regs_now(Phrase(c, x)) PROVE IInv'
    BY <1>4, DirectWritesIInv
  <1>5. ASSUME NEW c \in Enabled, note_off(c) \/ volume(c, 15) PROVE IInv'
    BY <1>5, NoteOffIInv, VolumeIInv
  <1>6. ASSUME NEW n \in Pauses, delay(n) PROVE IInv'
    BY <1>6, DelayIInv
  <1>7. ASSUME flush \/ silence \/ init PROVE IInv'
    BY <1>7, FlushIInv, SilenceIInv, InitCallIInv
  <1>8. ASSUME NEW p \in Captures, init_from_capture(p) PROVE IInv'
    BY <1>8, CaptureIInv
  <1>9. ASSUME NEW m \in 0 .. 1, set_system_mode(m) PROVE IInv'
    BY <1>9, ModeIInv
  <1>10. ASSUME start_engine PROVE IInv'
    BY <1>10, StartIInv
  <1>11. CASE Execute
    BY <1>11, ExecuteIInv
  <1>12. CASE UNCHANGED vars
    BY <1>12, StutterIInv
  <1> QED
    BY <1>1, <1>2, <1>3, <1>4, <1>5, <1>6, <1>7, <1>8, <1>9, <1>10, <1>11, <1>12, Zenon
    DEF Next, Driver

\* It holds always.
LEMMA Invariant == Spec => []IInv
  BY InitIInv, NextIInv, PTL DEF Spec

-----------------------------------------------------------------------------
(* What follows from it *)

\* The blocks and _buf are sequences of words, whatever was called.
THEOREM TypeCorrect == Spec => []TypeOK
  <1>1. IInv => TypeOK
    <2> SUFFICES ASSUME IInv PROVE TypeOK
      OBVIOUS
    <2>1. _buf \in Seq(Words)
      BY DEF IInv, BufOK, Plain
    <2>2. _wave \in [Enabled -> Bytes]
      <3>1. Waves \subseteq Bytes
        BY DEF Waves, Bytes
      <3> QED
        BY <3>1 DEF IInv, BufOK
    <2>3. ring \in Seq([1 .. BlockWords -> Words]) /\ open \in BOOLEAN /\ gap \in 0 .. MIN_CYCLES
      BY DEF IInv, RingOK, AllClosed, Block, Gaps
    <2>4. bare \in BOOLEAN
      BY DEF IInv, TimeOK
    <2> QED
      BY <2>1, <2>2, <2>3, <2>4 DEF TypeOK
  <1> QED
    BY <1>1, Invariant, PTL

\* The device is never left in the middle of an escape by a block, whatever is
\* in the ring and whoever sent it: it begins every block at a command.
THEOREM EscapesClosed == Spec => []NoOpenEscape
  <1>1. IInv => NoOpenEscape
    BY DEF IInv, RingOK, AllClosed, NoOpenEscape
  <1> QED
    BY <1>1, Invariant, PTL

\* The device reads what was asked for and nothing else, in order, for every
\* size of the blocks, every choice of chips and captures, every length of _buf.
THEOREM ReadAsAsked == Spec => []ReadsWhatWasAsked
  <1>1. IInv => ReadsWhatWasAsked
    <2> SUFFICES ASSUME IInv PROVE ReadsWhatWasAsked
      OBVIOUS
    <2> DEFINE f == FlattenSeq(ring)
    <2>1. AllClosed(ring) /\ owed = Items(ring) /\ open = FALSE /\ gap \in Gaps
      BY DEF IInv, RingOK
    <2>2. Tells(f, owed)
      BY <2>1, FlattenTells
    <2>3. Tells(_buf, held)
      BY DEF IInv, BufOK
    <2>4. Tells(Queued, owed \o held)
      BY <2>2, <2>3, TellsConcat DEF Queued
    <2> QED
      BY <2>1, <2>4, Zenon DEF Tells, ReadsWhatWasAsked
  <1> QED
    BY <1>1, Invariant, PTL

\* Writes are MIN_CYCLES apart, across blocks, calls and mode changes that drop
\* what is queued, unless one left with no delay after it is still on its way.
THEOREM WritesSpaced == Spec => []Spaced
  <1>1. IInv => Spaced
    <2> SUFFICES ASSUME IInv, ~bare PROVE ~Read(open, gap, Queued).early
      BY DEF Spaced
    <2> DEFINE f == FlattenSeq(ring)
    <2>1. AllClosed(ring) /\ open = FALSE /\ gap \in Gaps
      BY DEF IInv, RingOK
    <2>2. f \in Seq(Words) /\ ~Read(FALSE, gap, f).open
      BY <2>1, FlattenTells DEF Tells
    <2>3. _buf \in Seq(Words)
      BY DEF IInv, BufOK, Plain
    <2>4. /\ ~Read(FALSE, gap, f).early /\ Read(FALSE, gap, f).gap = MIN_CYCLES
          /\ ~Read(FALSE, MIN_CYCLES, _buf).early
      BY DEF IInv, TimeOK, OnTime, Even
    <2> HIDE DEF f
    <2>5. ~Read(FALSE, gap, f \o _buf).early
      BY <2>1, <2>2, <2>3, <2>4, Joined
    <2> QED
      BY <2>1, <2>5 DEF Queued, f
  <1> QED
    BY <1>1, Invariant, PTL

\* What is left of the promise of --chips, for every choice of chips and every
\* arming stream whose knock on socket 0 writes zero: of the chips that are not
\* in use only chip 0 is written to, with zeros in the register of the knock and
\* in the one the start block's zeros spell, if the captured streams keep to it.
THEOREM ChipsKept == CapturesKeep => (Spec => []OnlyTheKnock)
  <1> SUFFICES ASSUME CapturesKeep PROVE Spec => []OnlyTheKnock
    OBVIOUS
  <1>1. IInv => OnlyTheKnock
    <2> SUFFICES ASSUME IInv PROVE OnlyTheKnock
      OBVIOUS
    <2>1. owed \in Seq(Promised)
      BY DEF IInv, KnockOK
    <2>2. owed \in Seq(Commands)
      BY <2>1 DEF Promised
    <2> QED
      BY <2>1, <2>2, KeepsPromised DEF OnlyTheKnock
  <1> QED
    BY <1>1, Invariant, PTL

-----------------------------------------------------------------------------
(* The queues that the words stand for (CommandQueue) *)

Pending == Read(FALSE, 0, _buf).items

Sent == Read(open, gap, FlattenSeq(ring)).items

\* What is read in a stream and in blocks that each end outside an escape.
LEMMA Decoded ==
    ASSUME NEW b, NEW h, Tells(b, h), NEW bs, AllClosed(bs), NEW g \in Gaps
    PROVE  /\ Read(FALSE, 0, b).items = h
           /\ Read(FALSE, g, FlattenSeq(bs)).items = Items(bs)
  <1>1. Tells(FlattenSeq(bs), Items(bs))
    BY FlattenTells
  <1> QED
    BY <1>1, FullGap DEF Tells

\* Now, and after a step.
LEMMA QueuesRead ==
    ASSUME IInv
    PROVE  Pending = held /\ Sent = owed
  <1>1. /\ Tells(_buf, held) /\ AllClosed(ring) /\ owed = Items(ring)
        /\ open = FALSE /\ gap \in Gaps
    BY DEF IInv, BufOK, RingOK
  <1>2. Read(FALSE, gap, FlattenSeq(ring)).items = Items(ring) /\ Read(FALSE, 0, _buf).items = held
    BY <1>1, Decoded
  <1> QED
    BY <1>1, <1>2 DEF Pending, Sent

LEMMA QueuesReadNext ==
    ASSUME IInv'
    PROVE  Pending' = held' /\ Sent' = owed'
  <1>1. /\ Tells(_buf', held') /\ AllClosed(ring') /\ owed' = Items(ring')
        /\ open' = FALSE /\ gap' \in Gaps
    BY DEF IInv, BufOK, RingOK
  <1>2. /\ Read(FALSE, gap', FlattenSeq(ring')).items = Items(ring')
        /\ Read(FALSE, 0, _buf').items = held'
    BY <1>1, Decoded
  <1> QED
    BY <1>1, <1>2 DEF Pending, Sent

QueueStep == Promise!QueueNext \/ UNCHANGED Promise!queue

\* A call that extends _buf appends to what waits.
LEMMA AskStep ==
    ASSUME IInv, IInv', NEW x \in Requests, NEW w, Extend(w, x)
    PROVE  QueueStep
  <1>1. Pending' = Pending \o x /\ Sent' = Sent /\ mode' = mode
    BY QueuesRead, QueuesReadNext DEF Extend, device
  <1>2. Promise!Ask(x)
    BY <1>1 DEF Promise!Ask, Pending, Sent
  <1> QED
    BY <1>2 DEF QueueStep, Promise!QueueNext

\* A flush, given up or not, moves a beginning of what waits and of what the
\* call adds, and nothing waits any more.
LEMMA FlushedStep ==
    ASSUME IInv, IInv', NEW p, NEW x, Sendable(p, x), Send(p, x), UNCHANGED mode
    PROVE  /\ Pending' = <<>> /\ mode' = mode
           /\ \E k \in 0 .. Len(x) : Sent' = Sent \o SubSeq(x, 1, k)
  <1> DEFINE bs == pad_even(p)
             n == Len(bs)
  <1>1. Tells(p, x) /\ AllClosed(bs) /\ Items(bs) = x /\ x \in Seq(Commands)
    BY PadTells, ToldTells DEF Sendable
  <1>2. PICK k \in 0 .. n :
          LET out == SubSeq(bs, 1, k)
          IN  owed' = owed \o SubSeq(x, 1, Len(Items(out))) /\ held' = <<>>
    BY DEF Send
  <1> DEFINE out == SubSeq(bs, 1, k)
             rest == SubSeq(bs, k + 1, n)
  <1> HIDE DEF bs
  <1>3. AllClosed(out) /\ AllClosed(rest) /\ bs = out \o rest
    BY <1>1, ClosedCut
  <1> DEFINE l == Len(Items(out))
  <1>4. owed' = owed \o SubSeq(x, 1, l) /\ held' = <<>>
    BY <1>2
  <1> HIDE DEF out, rest
  <1>5. Items(out) \in Seq(Commands) /\ Items(rest) \in Seq(Commands) /\ x = Items(out) \o Items(rest)
    BY <1>1, <1>3, ClosedConcat
  <1>6. l \in 0 .. Len(x)
    <2> DEFINE a == Items(out)
               b == Items(rest)
    <2>1. a \in Seq(Commands) /\ b \in Seq(Commands) /\ x = a \o b
      BY <1>5
    <2> HIDE DEF a, b
    <2>2. Len(a) \in Nat /\ Len(b) \in Nat /\ Len(x) = Len(a) + Len(b)
      BY <2>1, ConcatProperties
    <2> QED
      BY <2>2 DEF a
  <1> HIDE DEF l
  <1>7. Pending' = <<>> /\ Sent = owed /\ Sent' = owed'
    BY <1>4, QueuesRead, QueuesReadNext
  <1> QED
    BY <1>4, <1>6, <1>7

LEMMA ClosingStep ==
    ASSUME IInv, IInv', NEW p, NEW x \in {<<>>, SweepWrites, InitWrites},
           Sendable(p, held \o x), Send(p, held \o x), UNCHANGED mode
    PROVE  QueueStep
  <1> DEFINE y == held \o x
  <1>1. /\ Pending' = <<>> /\ mode' = mode
        /\ \E k \in 0 .. Len(y) : Sent' = Sent \o SubSeq(y, 1, k)
    <2>1. Sendable(p, y) /\ Send(p, y)
      OBVIOUS
    <2> HIDE DEF y
    <2> QED
      BY <2>1, FlushedStep
  <1>2. y = Pending \o x
    BY QueuesRead
  <1> HIDE DEF y
  <1>3. /\ \E k \in 0 .. Len(Pending \o x) : Sent' = Sent \o SubSeq(Pending \o x, 1, k)
        /\ Pending' = <<>> /\ mode' = mode
    BY <1>1, <1>2
  <1>4. Promise!Flush(Read(FALSE, 0, _buf).items \o x)
    BY <1>3 DEF Promise!Flush, Pending, Sent
  <1> QED
    BY <1>4 DEF QueueStep, Promise!QueueNext

\* A mode, a phrase or a start is sent past what waits, and behind what was sent.
LEMMA UrgentStep ==
    ASSUME IInv, IInv', NEW x, owed' = owed \o x, UNCHANGED <<held, mode>>,
           \/ \E m \in 0 .. 1 : x = <<<<m>>>>
           \/ \E c \in Enabled, f \in Values : x = Phrase(c, f)
           \/ x = StartItems
    PROVE  QueueStep
  <1>1. Sent' = Sent \o x /\ Pending' = Pending /\ mode' = mode
    BY QueuesRead, QueuesReadNext
  <1>2. x \in Orders
    BY DEF Orders
  <1>3. Promise!Overtake(x)
    BY <1>1 DEF Promise!Overtake, Pending, Sent
  <1> QED
    BY <1>2, <1>3 DEF QueueStep, Promise!QueueNext

\* A set of numbers up to n has a greatest.
LEMMA Greatest ==
    ASSUME NEW n \in Nat, NEW S, S \subseteq 1 .. n, S # {}
    PROVE  Max(S) \in S /\ \A j \in S : j <= Max(S)
  <1> DEFINE T(k) == {j \in S : j <= k}
             Has(k) == \E m \in T(k) : \A j \in T(k) : j <= m
             I == {k \in Nat : T(k) = {} \/ Has(k)}
  <1>0. S \subseteq Nat /\ \A j \in S : 1 <= j /\ j <= n
    OBVIOUS
  <1>1. 0 \in I
    <2>1. \A j \in S : ~(j <= 0)
      BY <1>0
    <2>2. T(0) = {}
      BY <2>1
    <2> HIDE DEF T
    <2> QED
      BY <2>2
  <1>2. ASSUME NEW k \in 1 .. n, k - 1 \in I PROVE k \in I
    <2>1. k \in Nat
      OBVIOUS
    <2>2. CASE k \in S
      <3>1. k \in T(k) /\ \A j \in T(k) : j <= k
        BY <2>1, <2>2
      <3> QED
        BY <2>1, <3>1
    <2>3. CASE k \notin S
      <3>1. \A j \in S : j <= k <=> j <= k - 1
        BY <1>0, <2>1, <2>3
      <3>2. T(k) = T(k - 1)
        BY <3>1
      <3>3. T(k - 1) = {} \/ Has(k - 1)
        BY <1>2
      <3> HIDE DEF T
      <3>4. T(k) = {} \/ Has(k)
        BY <3>2, <3>3
      <3> QED
        BY <2>1, <3>4
    <2> QED
      BY <2>2, <2>3
  <1> HIDE DEF I
  <1>3. \A k \in 0 .. n : k \in I
    BY <1>1, <1>2, UpTo
  <1>4. T(n) = S
    BY <1>0
  <1>5. \E m \in S : \A j \in S : j <= m
    <2>1. T(n) = {} \/ Has(n)
      BY <1>3 DEF I
    <2> HIDE DEF T
    <2> QED
      BY <1>4, <2>1
  <1>6. S \subseteq Int
    BY <1>0
  <1>7. \E m \in S : \A j \in S : m >= j
    BY <1>5, <1>6
  <1>8. Max(S) \in S /\ \A j \in S : Max(S) >= j
    BY <1>7 DEF Max
  <1> QED
    BY <1>6, <1>8

\* The device executes the commands of a block: the first of those on their way.
LEMMA ExecuteStep ==
    ASSUME IInv, IInv', Execute
    PROVE  QueueStep
  <1> DEFINE b == Head(ring)
             x == Told(b)
             y == Items(Tail(ring))
             k == Len(x)
             r == Read(FALSE, gap, b)
  <1>1. /\ AllClosed(ring) /\ owed = Items(ring) /\ open = FALSE /\ gap \in Gaps
        /\ ring # <<>>
    BY DEF IInv, RingOK, Execute
  <1>2. Tells(b, x) /\ owed = x \o y /\ x \in Seq(Commands) /\ y \in Seq(Commands)
    BY <1>1, HeadClosed
  <1>3. r.items = x
    BY <1>1, <1>2 DEF Tells
  <1>4. /\ mode' = IF Modes(r.items) = {} THEN mode ELSE r.items[Max(Modes(r.items))][1]
        /\ \/ owed' = SubSeq(owed, Len(r.items) + 1, Len(owed))
           \/ Modes(r.items) # {} /\ owed' = <<>>
        /\ held' = held
    BY <1>1 DEF Execute
  <1>5. Pending' = Pending /\ Sent = owed /\ Sent' = owed'
    BY <1>4, QueuesRead, QueuesReadNext
  <1> HIDE DEF r, x, y, b
  <1>6. /\ k \in Nat /\ DOMAIN x = 1 .. k /\ Len(Sent) \in Nat /\ k <= Len(Sent)
        /\ \A i \in 1 .. k : Sent[i] = x[i]
    <2>1. Len(x \o y) = Len(x) + Len(y) /\ Len(x) \in Nat /\ Len(y) \in Nat
      BY <1>2, ConcatProperties
    <2>2. \A i \in 1 .. Len(x) : (x \o y)[i] = x[i]
      BY <1>2, ConcatProperties
    <2> QED
      BY <1>2, <1>5, <2>1, <2>2
  <1> DEFINE C == {i \in 1 .. k : Len(Sent[i]) = 1}
  <1>7. Modes(x) = C
    BY <1>6 DEF Modes
  <1>8. \/ C = {} /\ mode' = mode
        \/ \E i \in C : (\A j \in C : j <= i) /\ mode' = Sent[i][1]
    <2>1. CASE C = {}
      BY <1>3, <1>4, <1>7, <2>1
    <2>2. CASE C # {}
      <3>1. Max(C) \in C /\ \A j \in C : j <= Max(C)
        <4>1. k \in Nat /\ C \subseteq 1 .. k
          BY <1>6
        <4> HIDE DEF C, k
        <4> QED
          BY <2>2, <4>1, Greatest
      <3>2. mode' = x[Max(C)][1]
        BY <1>3, <1>4, <1>7, <2>2
      <3>3. Sent[Max(C)] = x[Max(C)]
        BY <1>6, <3>1
      <3> HIDE DEF C
      <3> QED
        BY <3>1, <3>2, <3>3
    <2> QED
      BY <2>1, <2>2
  <1>9. \/ Sent' = SubSeq(Sent, k + 1, Len(Sent))
        \/ C # {} /\ Sent' = <<>>
    BY <1>3, <1>4, <1>5, <1>7
  <1>10. CASE k = 0
    <2>1. C = {} /\ mode' = mode
      BY <1>8, <1>10
    <2>2. x = <<>>
      BY <1>2, <1>10, EmptySeq
    <2>3. owed = y
      BY <1>2, <2>2
    <2>4. SubSeq(x \o y, Len(x) + 1, Len(x \o y)) = y
      BY <1>2, RestOfConcat
    <2>5. Sent' = Sent
      BY <1>2, <1>5, <1>9, <2>1, <2>3, <2>4
    <2> QED
      BY <1>5, <2>1, <2>5 DEF QueueStep, Promise!queue, Pending, Sent
  <1>11. CASE k # 0
    <2> HIDE DEF k
    <2>1. k \in 1 .. Len(Sent)
      BY <1>6, <1>11
    <2>2. Promise!Perform(k)
      BY <1>5, <1>8, <1>9 DEF Promise!Perform, Promise!Changes, Pending, Sent
    <2> QED
      BY <2>1, <2>2 DEF QueueStep, Promise!QueueNext, Sent
  <1> QED
    BY <1>10, <1>11

\* What the calls ask for, one by one.
LEMMA Asked ==
    ASSUME NEW c \in Enabled
    PROVE  /\ <<>> \in Requests /\ <<<<c, 24, 15>>>> \in Requests
           /\ \A f \in Values : <<<<c, 0, f % 256>>>> \in Requests /\ Patch(c, f) \in Requests
           /\ \A w \in Waves : <<<<c, 4, w>>>> \in Requests
           /\ \A w \in Waves, f \in Values : Strike(c, w, f) \in Requests
  <1> DEFINE R == {<<<<e, 0, x % 256>>>> : e \in Enabled, x \in Values}
             P == {Patch(e, x) : e \in Enabled, x \in Values}
             K == {Strike(e, w, x) : e \in Enabled, w \in Waves, x \in Values}
             O == {<<<<e, 4, w>>>> : e \in Enabled, w \in Waves}
             V == {<<<<e, 24, 15>>>> : e \in Enabled}
  <1>1. Requests = {<<>>} \union R \union P \union K \union O \union V
    BY DEF Requests
  <1>2. <<<<c, 24, 15>>>> \in V
    OBVIOUS
  <1>3. \A f \in Values : <<<<c, 0, f % 256>>>> \in R
    OBVIOUS
  <1>4. \A f \in Values : Patch(c, f) \in P
    OBVIOUS
  <1>5. \A w \in Waves : <<<<c, 4, w>>>> \in O
    OBVIOUS
  <1>6. \A w \in Waves, f \in Values : Strike(c, w, f) \in K
    OBVIOUS
  <1> HIDE DEF R, P, K, O, V
  <1> QED
    BY <1>1, <1>2, <1>3, <1>4, <1>5, <1>6

\* Every step of the words is a step of the queues, or says nothing.
LEMMA EveryStep ==
    ASSUME IInv, IInv', [Next]_vars
    PROVE  QueueStep
  <1>1. ASSUME NEW c \in Enabled, NEW f \in Values, reg(c, 0, f % 256) PROVE QueueStep
    <2>1. <<<<c, 0, f % 256>>>> \in Requests
      BY Asked
    <2> QED
      BY <1>1, <2>1, AskStep DEF reg
  <1>2. ASSUME NEW c \in Enabled, NEW f \in Values, voice(c, 64, f) PROVE QueueStep
    <2>1. Patch(c, f) \in Requests
      BY Asked
    <2> QED
      BY <1>2, <2>1, AskStep DEF voice, Compose
  <1>3. ASSUME NEW c \in Enabled, NEW f \in Values, note_on(c, f) PROVE QueueStep
    <2>1. _wave[c] \in Waves
      BY DEF IInv, BufOK
    <2>2. Strike(c, _wave[c], f) \in Requests
      BY <2>1, Asked
    <2> QED
      BY <1>3, <2>2, AskStep DEF note_on, Compose
  <1>4. ASSUME NEW c \in Enabled, note_off(c) PROVE QueueStep
    <2>1. _wave[c] \in Waves
      BY DEF IInv, BufOK
    <2>2. <<<<c, 4, _wave[c]>>>> \in Requests
      BY <2>1, Asked
    <2> QED
      BY <1>4, <2>2, AskStep DEF note_off, Compose
  <1>5. ASSUME NEW c \in Enabled, volume(c, 15) PROVE QueueStep
    <2>1. <<<<c, 24, 15>>>> \in Requests
      BY Asked
    <2> QED
      BY <1>5, <2>1, AskStep DEF volume, Compose
  <1>6. ASSUME NEW n \in Pauses, delay(n) PROVE QueueStep
    <2>1. <<>> \in Requests
      BY DEF Requests
    <2> QED
      BY <1>6, <2>1, AskStep DEF delay
  <1>7. CASE flush
    <2>1. Send(_buf, held) /\ UNCHANGED mode
      BY <1>7 DEF flush, device
    <2>2. held \o <<>> = held
      BY ToldTells DEF IInv, BufOK
    <2>3. Sendable(_buf, held)
      BY FlushSendable
    <2> QED
      BY <2>1, <2>2, <2>3, ClosingStep
  <1>8. CASE silence
    <2>1. Send(_buf \o Spelled(SweepWrites), held \o SweepWrites) /\ UNCHANGED mode
      BY <1>8 DEF silence, device
    <2> QED
      BY <2>1, SilenceSendable, ClosingStep
  <1>9. CASE init
    <2>1. Send(_buf \o InitWords, held \o InitWrites) /\ UNCHANGED mode
      BY <1>9 DEF init, device
    <2> QED
      BY <2>1, InitSendable, ClosingStep
  <1>10. ASSUME NEW p \in Captures, init_from_capture(p) PROVE QueueStep
    <2> DEFINE x == Read(FALSE, MIN_CYCLES, p).items
    <2>1. Send(p, x) /\ UNCHANGED mode /\ _buf = <<>>
      BY <1>10 DEF init_from_capture, device
    <2>2. Sendable(p, x) /\ x \in Replays
      BY CaptureSendable DEF Replays
    <2> HIDE DEF x
    <2>3. /\ Pending' = <<>> /\ mode' = mode
          /\ \E k \in 0 .. Len(x) : Sent' = Sent \o SubSeq(x, 1, k)
      BY <2>1, <2>2, FlushedStep
    <2>4. Pending = <<>>
      BY <2>1, NothingReads, FullGap DEF Pending, Tells
    <2>5. Promise!Flush(x) /\ Read(FALSE, 0, _buf).items = <<>>
      BY <2>3, <2>4 DEF Promise!Flush, Pending, Sent
    <2> QED
      BY <2>2, <2>5 DEF QueueStep, Promise!QueueNext
  <1>11. ASSUME NEW m \in 0 .. 1, set_system_mode(m) PROVE QueueStep
    <2>1. owed' = owed \o <<<<m>>>> /\ UNCHANGED <<held, mode>>
      BY <1>11 DEF set_system_mode, Direct, driver, device
    <2> QED
      BY <2>1, UrgentStep
  <1>12. ASSUME NEW c \in Enabled, NEW f \in Values, write_regs_now(Phrase(c, f)) PROVE QueueStep
    <2>1. owed' = owed \o Phrase(c, f) /\ UNCHANGED <<held, mode>>
      BY <1>12 DEF write_regs_now, Direct, driver, device
    <2> QED
      BY <2>1, UrgentStep
  <1>13. CASE start_engine
    <2>1. owed' = owed \o StartItems /\ UNCHANGED <<held, mode>>
      BY <1>13 DEF start_engine, device
    <2> QED
      BY <2>1, UrgentStep
  <1>14. CASE Execute
    BY <1>14, ExecuteStep
  <1>15. CASE UNCHANGED vars
    <2>1. UNCHANGED <<held, owed, mode>>
      BY <1>15 DEF vars
    <2>2. Pending' = Pending /\ Sent' = Sent
      BY <2>1, QueuesRead, QueuesReadNext
    <2> QED
      BY <2>1, <2>2 DEF QueueStep, Promise!queue, Pending, Sent
  <1> QED
    BY <1>1, <1>2, <1>3, <1>4, <1>5, <1>6, <1>7, <1>8, <1>9, <1>10, <1>11, <1>12, <1>13, <1>14,
       <1>15
    DEF Next, Driver

\* The words, padded, cut into blocks, given up and dropped, are two queues of
\* commands: in order, each sent at most once, none that nobody asked for.
THEOREM QueueImplemented == Spec => ImplementsQueue
  <1>1. Init => Promise!QueueInit
    <2> SUFFICES ASSUME Init PROVE Promise!QueueInit
      OBVIOUS
    <2>1. Pending = <<>> /\ Sent = <<>> /\ mode = 1
      BY InitIInv, QueuesRead DEF Init
    <2> QED
      BY <2>1 DEF Promise!QueueInit, Pending, Sent
  <1>2. IInv /\ IInv' /\ [Next]_vars => [Promise!QueueNext]_(Promise!queue)
    BY EveryStep DEF QueueStep
  <1> QED
    BY <1>1, <1>2, Invariant, PTL DEF Spec, ImplementsQueue, Promise!QueueSpec
=============================================================================
