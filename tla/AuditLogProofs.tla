--------------------------- MODULE AuditLogProofs ---------------------------
(***************************************************************************)
(* Theorems about the audit log, for any number of events and of appends   *)
(* that are cut short.                                                     *)
(***************************************************************************)
EXTENDS AuditLog, DataLemmas, SequenceTheorems, TLAPS

-----------------------------------------------------------------------------
(* Selecting from a sequence *)

\* The function that Select computes with.
Selects(f, s, at) ==
    f = [n \in 0..Len(s) |->
          IF n = 0 THEN <<>> ELSE IF n \in at THEN Append(f[n - 1], s[n]) ELSE f[n - 1]]

\* It exists.
LEMMA SelectionExists ==
    ASSUME NEW D, NEW s \in Seq(D), NEW at
    PROVE  \E f : Selects(f, s, at)
<1> DEFINE N == Len(s)
           step == [k \in Nat |-> [x \in Seq(D) |->
                     IF k \in 1..N /\ k \in at THEN Append(x, s[k]) ELSE x]]
<1>1. N \in Nat
  OBVIOUS
<1>2. step \in [Nat -> [Seq(D) -> Seq(D)]]
  OBVIOUS
<1>3. \A k \in Nat, x \in Seq(D) :
        step[k][x] = IF k \in 1..N /\ k \in at THEN Append(x, s[k]) ELSE x
  OBVIOUS
<1> HIDE DEF N, step
<1>4. PICK g : IteratesOnNat(g, <<>>, step, Seq(D))
  <2>1. <<>> \in Seq(D)
    OBVIOUS
  <2> QED BY <1>2, <2>1, RecursionOverNat
<1> DEFINE f == [n \in 0..N |-> g[n]]
<1>5. ASSUME NEW n \in 0..N
      PROVE  f[n] = IF n = 0 THEN <<>>
                    ELSE IF n \in at THEN Append(f[n - 1], s[n]) ELSE f[n - 1]
  <2>1. CASE n = 0
    BY <1>1, <1>4, <2>1 DEF IteratesOnNat
  <2>2. CASE n # 0
    <3>1. n - 1 \in Nat /\ (n - 1) + 1 = n /\ n \in 1..N /\ n - 1 \in 0..N /\ n \in Nat
      BY <1>1, <2>2
    <3>2. g[n] = step[n][g[n - 1]] /\ g[n - 1] \in Seq(D)
      BY <1>4, <3>1 DEF IteratesOnNat
    <3>3. f[n] = g[n] /\ f[n - 1] = g[n - 1]
      BY <3>1
    <3> HIDE DEF f
    <3> QED BY <1>3, <2>2, <3>1, <3>2, <3>3
  <2> QED BY <2>1, <2>2
<1>6. Selects(f, s, at)
  <2>1. f = [n \in 0..N |-> f[n]]
    OBVIOUS
  <2> HIDE DEF f
  <2> QED BY <1>5, <2>1 DEF Selects, N
<1> QED BY <1>6

\* pos tells where in s the elements of r come from.
ComesFrom(r, s, at, pos) ==
    /\ pos \in [1..Len(r) -> at]
    /\ \A i \in 1..Len(r) : r[i] = s[pos[i]]
    /\ \A i, j \in 1..Len(r) : i < j => pos[i] < pos[j]
    /\ \A n \in at : \E i \in 1..Len(r) : pos[i] = n

\* Select takes the elements at the given places, all of them, in their order.
LEMMA SelectionIs ==
    ASSUME NEW D, NEW s \in Seq(D), NEW at \in SUBSET (1..Len(s))
    PROVE  /\ Select(s, at) \in Seq(D)
           /\ \E pos : ComesFrom(Select(s, at), s, at, pos)
<1> DEFINE F == CHOOSE f : Selects(f, s, at)
<1>1. Selects(F, s, at)
  BY SelectionExists
<1>2. Select(s, at) = F[Len(s)]
  BY DEF Select, Selects
<1> HIDE DEF F
<1> DEFINE N == Len(s)
           upTo(n) == at \cap (1..n)
           IsGood(n) == F[n] \in Seq(D) /\ \E pos : ComesFrom(F[n], s, upTo(n), pos)
           Good == {n \in Nat : n <= N => IsGood(n)}
<1>3. N \in Nat /\ \A k \in at : k \in 1..N
  OBVIOUS
<1> HIDE DEF N
<1>4. 0 \in Good
  <2>1. F[0] = <<>> /\ upTo(0) = {}
    BY <1>1, <1>3 DEF Selects, N
  <2>2. ComesFrom(<<>>, s, {}, <<>>)
    BY DEF ComesFrom
  <2>3. IsGood(0)
    <3> HIDE DEF upTo
    <3> QED BY <2>1, <2>2
  <2> HIDE DEF IsGood
  <2> QED BY <2>3
<1>5. ASSUME NEW n \in Nat, n \in Good PROVE n + 1 \in Good
  <2> SUFFICES ASSUME n + 1 <= N PROVE IsGood(n + 1)
    <3> HIDE DEF IsGood
    <3> QED OBVIOUS
  <2>0. IsGood(n)
    <3> HIDE DEF IsGood
    <3> QED BY <1>3, <1>5
  <2> DEFINE r == F[n]
             m == Len(r)
  <2>1. r \in Seq(D) /\ m \in Nat
    BY <2>0
  <2>2. PICK pos : ComesFrom(r, s, upTo(n), pos)
    BY <2>0
  <2>3. F[n + 1] = IF n + 1 \in at THEN Append(r, s[n + 1]) ELSE r
    <3>1. n + 1 \in 0..N /\ n + 1 # 0 /\ (n + 1) - 1 = n
      BY <1>3
    <3> QED BY <1>1, <3>1 DEF Selects, N
  <2>4. s[n + 1] \in D
    BY <1>3 DEF N
  <2> HIDE DEF r
  <2>5. CASE n + 1 \in at
    <3> DEFINE q == Append(r, s[n + 1])
               new == [i \in 1..(m + 1) |-> IF i = m + 1 THEN n + 1 ELSE pos[i]]
    <3>1. /\ q \in Seq(D) /\ Len(q) = m + 1 /\ q[m + 1] = s[n + 1]
          /\ \A i \in 1..m : q[i] = r[i]
      BY <2>1, <2>4, AppendProperties
    <3> HIDE DEF q
    <3>2. upTo(n + 1) = upTo(n) \cup {n + 1}
      BY <1>3, <2>5
    <3>3. \A i \in 1..m : pos[i] \in upTo(n) /\ pos[i] \in Nat /\ pos[i] < n + 1
      BY <1>3, <2>2 DEF ComesFrom
    <3> HIDE DEF upTo
    <3>4. new \in [1..(m + 1) -> upTo(n + 1)]
      BY <2>1, <3>2, <3>3
    <3>5. ASSUME NEW i \in 1..(m + 1) PROVE q[i] = s[new[i]]
      BY <2>1, <2>2, <3>1, <3>5 DEF ComesFrom
    <3>6. ASSUME NEW i \in 1..(m + 1), NEW j \in 1..(m + 1), i < j PROVE new[i] < new[j]
      <4>1. i \in 1..m /\ new[i] = pos[i]
        BY <2>1, <3>6
      <4>2. CASE j = m + 1
        BY <2>1, <3>3, <4>1, <4>2
      <4>3. CASE j # m + 1
        <5>1. j \in 1..m /\ new[j] = pos[j]
          BY <2>1, <4>3
        <5> QED BY <2>2, <3>6, <4>1, <5>1 DEF ComesFrom
      <4> QED BY <4>2, <4>3
    <3>7. ASSUME NEW k \in upTo(n + 1) PROVE \E i \in 1..(m + 1) : new[i] = k
      <4>1. CASE k = n + 1
        <5>1. m + 1 \in 1..(m + 1) /\ new[m + 1] = k
          BY <2>1, <4>1
        <5> QED BY <5>1
      <4>2. CASE k # n + 1
        <5>1. PICK i \in 1..m : pos[i] = k
          BY <2>2, <3>2, <4>2 DEF ComesFrom
        <5>2. i \in 1..(m + 1) /\ new[i] = k
          BY <2>1, <5>1
        <5> QED BY <5>2
      <4> QED BY <4>1, <4>2
    <3>8. ComesFrom(q, s, upTo(n + 1), new)
      <4> HIDE DEF new
      <4> QED BY <3>1, <3>4, <3>5, <3>6, <3>7 DEF ComesFrom
    <3> QED BY <2>3, <2>5, <3>1, <3>8 DEF q
  <2>6. CASE n + 1 \notin at
    <3>1. upTo(n + 1) = upTo(n)
      BY <1>3, <2>6
    <3> QED BY <2>1, <2>2, <2>3, <2>6, <3>1
  <2> QED BY <2>5, <2>6
<1>6. IsGood(N)
  <2>1. N \in Good
    <3> HIDE DEF Good
    <3> QED BY <1>3, <1>4, <1>5, InductionOverNat
  <2> HIDE DEF IsGood
  <2> QED BY <1>3, <2>1
<1>7. upTo(N) = at
  BY <1>3
<1> QED BY <1>2, <1>3, <1>6, <1>7 DEF N

-----------------------------------------------------------------------------
(* What readers get *)

\* A line that is one whole entry, and its event.
Entry(n)   == Parseable(file[n])
EventAt(n) == file[n][1].event

LEMMA LinesAre ==
    ASSUME TypeOK
    PROVE  /\ file \in Seq(Seq(Piece)) /\ Len(file) \in Nat \ {0} /\ DOMAIN file = 1..Len(file)
           /\ \A n \in DOMAIN file : /\ file[n] \in Seq(Piece)
                                     /\ Entry(n) => EventAt(n) \in Events
<1>1. /\ file \in Seq(Seq(Piece)) /\ Len(file) \in Nat \ {0} /\ DOMAIN file = 1..Len(file)
      /\ \A n \in DOMAIN file : file[n] \in Seq(Piece)
  BY DEF TypeOK
<1>2. ASSUME NEW n \in DOMAIN file, Entry(n) PROVE EventAt(n) \in Events
  <2>1. file[n] \in Seq(Piece) /\ Len(file[n]) = 1
    BY <1>1, <1>2 DEF Entry, Parseable
  <2>2. file[n][1] \in Piece
    BY <2>1, ElementOfSeq
  <2> QED BY <2>2 DEF EventAt, Piece
<1> QED BY <1>1, <1>2

\* The events r were read from the entries at the lines pos, in this order.
ReadFrom(r, pos) ==
    /\ r \in Seq(Events)
    /\ pos \in [1..Len(r) -> DOMAIN file]
    /\ \A i \in 1..Len(r) : Entry(pos[i]) /\ r[i] = EventAt(pos[i])

\* readAll gives every entry's event, in the order of the lines.
LEMMA ReadAllIs ==
    ASSUME TypeOK
    PROVE  \E pos : /\ ReadFrom(readAll, pos)
                    /\ \A i, j \in 1..Len(readAll) : i < j => pos[i] < pos[j]
                    /\ \A n \in DOMAIN file : Entry(n) => \E i \in 1..Len(readAll) : pos[i] = n
<1> DEFINE at == {n \in DOMAIN file : Parseable(file[n])}
           lines == Select(file, at)
<1>1. at \in SUBSET (1..Len(file)) /\ file \in Seq(Seq(Piece))
  BY LinesAre
<1> HIDE DEF at
<1>2. lines \in Seq(Seq(Piece)) /\ \E pos : ComesFrom(lines, file, at, pos)
  BY <1>1, SelectionIs
<1>3. PICK pos : ComesFrom(lines, file, at, pos)
  BY <1>2
<1>4. readAll = [i \in DOMAIN lines |-> lines[i][1].event]
  BY DEF readAll, at
<1> HIDE DEF lines
<1> DEFINE m == Len(lines)
<1>5. m \in Nat /\ DOMAIN lines = 1..m
  BY <1>2
<1>6. ASSUME NEW i \in 1..m
      PROVE  /\ pos[i] \in DOMAIN file /\ Entry(pos[i])
             /\ lines[i][1].event = EventAt(pos[i]) /\ EventAt(pos[i]) \in Events
  <2>1. pos[i] \in at /\ lines[i] = file[pos[i]]
    BY <1>3 DEF ComesFrom
  <2> QED BY <2>1, LinesAre DEF at, Entry, EventAt
<1>7. readAll \in Seq(Events) /\ Len(readAll) = m /\ \A i \in 1..m : readAll[i] = EventAt(pos[i])
  BY <1>4, <1>5, <1>6
<1> QED BY <1>3, <1>6, <1>7 DEF ComesFrom, ReadFrom, at, Entry

\* A query without a limit gives the app's entries, the last one first.
LEMMA QueryIs ==
    ASSUME TypeOK, NEW app
    PROVE  LET all == query(app, NoLimit)
           IN  \E pos : /\ ReadFrom(all, pos)
                        /\ \A i \in 1..Len(all) : Matches(app, all[i])
                        /\ \A i, j \in 1..Len(all) : i < j => pos[i] > pos[j]
                        /\ \A n \in DOMAIN file : Entry(n) /\ Matches(app, EventAt(n)) =>
                             \E i \in 1..Len(all) : pos[i] = n
<1> DEFINE r == readAll
           at == {i \in DOMAIN r : Matches(app, r[i])}
           sel == Select(r, at)
           all == query(app, NoLimit)
<1>1. PICK from : /\ ReadFrom(r, from)
                  /\ \A i, j \in 1..Len(r) : i < j => from[i] < from[j]
                  /\ \A n \in DOMAIN file : Entry(n) => \E i \in 1..Len(r) : from[i] = n
  BY ReadAllIs
<1>2. all = Reverse(sel)
  BY DEF query
<1> HIDE DEF r, all
<1>3. r \in Seq(Events) /\ DOMAIN r = 1..Len(r) /\ Len(r) \in Nat
  BY <1>1 DEF ReadFrom
<1>4. at \in SUBSET (1..Len(r))
  BY <1>3
<1> HIDE DEF at
<1>5. sel \in Seq(Events) /\ \E pos : ComesFrom(sel, r, at, pos)
  BY <1>3, <1>4, SelectionIs
<1>6. PICK of : ComesFrom(sel, r, at, of)
  BY <1>5
<1> HIDE DEF sel
<1> DEFINE m == Len(sel)
           pos == [i \in 1..m |-> from[of[(m - i) + 1]]]
<1>7. m \in Nat /\ all \in Seq(Events) /\ Len(all) = m /\ \A i \in 1..m : all[i] = sel[(m - i) + 1]
  BY <1>2, <1>5 DEF Reverse
<1>8. ASSUME NEW k \in 1..m
      PROVE  /\ of[k] \in 1..Len(r) /\ sel[k] = r[of[k]] /\ Matches(app, sel[k])
             /\ from[of[k]] \in DOMAIN file /\ Entry(from[of[k]]) /\ sel[k] = EventAt(from[of[k]])
  <2>1. of[k] \in at /\ sel[k] = r[of[k]]
    BY <1>6 DEF ComesFrom
  <2> QED BY <1>1, <1>3, <2>1 DEF at, ReadFrom
<1>9. ASSUME NEW i \in 1..m
      PROVE  (m - i) + 1 \in 1..m /\ pos[i] = from[of[(m - i) + 1]]
  BY <1>7
<1> HIDE DEF pos
<1>10. pos \in [1..m -> DOMAIN file]
  BY <1>8, <1>9 DEF pos
<1>11. ReadFrom(all, pos) /\ \A i \in 1..m : Matches(app, all[i])
  BY <1>7, <1>8, <1>9, <1>10 DEF ReadFrom
<1>12. ASSUME NEW i \in 1..m, NEW j \in 1..m, i < j PROVE pos[i] > pos[j]
  <2> DEFINE k == (m - i) + 1
             l == (m - j) + 1
  <2>1. k \in 1..m /\ l \in 1..m /\ l < k /\ pos[i] = from[of[k]] /\ pos[j] = from[of[l]]
    <3>1. m \in Nat /\ i \in 1..m /\ j \in 1..m /\ i < j
      BY <1>7, <1>12
    <3>2. pos[i] = from[of[k]] /\ pos[j] = from[of[l]]
      BY <1>9
    <3> HIDE DEF m
    <3>3. k \in 1..m /\ l \in 1..m /\ l < k
      BY <3>1
    <3> QED BY <3>2, <3>3
  <2> HIDE DEF k, l
  <2>2. of[l] < of[k] /\ of[l] \in 1..Len(r) /\ of[k] \in 1..Len(r)
    BY <1>6, <1>8, <2>1 DEF ComesFrom
  <2>3. from[of[l]] < from[of[k]]
    BY <1>1, <2>2
  <2>4. from[of[l]] \in Nat /\ from[of[k]] \in Nat
    BY <1>8, <2>1, LinesAre
  <2> QED BY <2>1, <2>3, <2>4
<1>13. ASSUME NEW n \in DOMAIN file, Entry(n), Matches(app, EventAt(n))
       PROVE  \E i \in 1..m : pos[i] = n
  <2>1. PICK p \in 1..Len(r) : from[p] = n
    BY <1>1, <1>13
  <2>2. r[p] = EventAt(n)
    BY <1>1, <2>1 DEF ReadFrom
  <2>3. p \in at
    BY <1>3, <1>13, <2>2 DEF at
  <2>4. PICK k \in 1..m : of[k] = p
    BY <1>6, <2>3 DEF ComesFrom
  <2>5. (m - k) + 1 \in 1..m /\ (m - ((m - k) + 1)) + 1 = k
    BY <1>7
  <2> QED BY <1>9, <2>1, <2>4, <2>5
<1> QED BY <1>7, <1>11, <1>12, <1>13 DEF all

-----------------------------------------------------------------------------
(* What a write does to the file *)

\* An append adds one piece to the last line.
LEMMA AppendPieceIs ==
    ASSUME TypeOK, NEW p \in Piece, NEW g, g = AppendPiece(p)
    PROVE  /\ g \in Seq(Seq(Piece)) /\ Len(g) = Len(file)
           /\ \A n \in 1..Len(file) : n # Len(file) => g[n] = file[n]
           /\ g[Len(file)] = Append(file[Len(file)], p)
           /\ \A n \in 1..Len(file) : \A i \in DOMAIN g[n] :
                \/ i \in DOMAIN file[n] /\ g[n][i] = file[n][i]
                \/ n = Len(file) /\ g[n][i] = p
<1> DEFINE L == Len(file)
           last == file[L]
           k == Len(last)
<1>1. file \in Seq(Seq(Piece)) /\ L \in 1..L /\ L \in Nat
  BY LinesAre
<1>2. last \in Seq(Piece) /\ k \in Nat /\ DOMAIN last = 1..k
  BY <1>1, ElementOfSeq
<1>3. g = [file EXCEPT ![L] = Append(last, p)]
  BY DEF AppendPiece
<1>4. /\ Append(last, p) \in Seq(Piece) /\ Len(Append(last, p)) = k + 1
      /\ \A i \in 1..k : Append(last, p)[i] = last[i]
      /\ Append(last, p)[k + 1] = p
  BY <1>2, AppendProperties
<1> HIDE DEF last
<1>5. /\ g \in Seq(Seq(Piece)) /\ Len(g) = L
      /\ \A n \in 1..L : g[n] = IF n = L THEN Append(last, p) ELSE file[n]
  BY <1>1, <1>3, <1>4, ExceptSeq
<1>6. ASSUME NEW n \in 1..L, NEW i \in DOMAIN g[n]
      PROVE  \/ i \in DOMAIN file[n] /\ g[n][i] = file[n][i]
             \/ n = L /\ g[n][i] = p
  <2>1. CASE n # L
    BY <1>5, <2>1
  <2>2. CASE n = L
    <3>1. g[n] = Append(last, p) /\ file[n] = last
      BY <1>5, <2>2 DEF last
    <3>2. i \in 1..(k + 1)
      BY <1>4, <3>1
    <3>3. i \in 1..k \/ i = k + 1
      BY <1>2, <3>2
    <3> QED BY <1>2, <1>4, <2>2, <3>1, <3>3
  <2> QED BY <2>1, <2>2
<1> QED BY <1>1, <1>5, <1>6 DEF last

\* The lines before the last one stay; what is new in the last one is e's.
Written(e) ==
    /\ \A n \in DOMAIN file : n # Len(file) => n \in DOMAIN file' /\ file'[n] = file[n]
    /\ \A n \in DOMAIN file' : \A i \in DOMAIN file'[n] :
         \/ /\ n \in DOMAIN file /\ i \in DOMAIN file[n]
            /\ file'[n][i].event = file[n][i].event
         \/ n = Len(file) /\ file'[n][i].event = e

LEMMA CutWrites ==
    ASSUME TypeOK, NEW e \in Events, Cut(e)
    PROVE  /\ Written(e) /\ Len(file') = Len(file)
           /\ file' \in Seq(Seq(Piece)) /\ file' # <<>>
           /\ cuts' = cuts + 1 /\ cuts' \in 0..MaxCuts
<1>1. cuts' = cuts + 1 /\ cuts' \in 0..MaxCuts
  BY LimitAssumption DEF TypeOK, Cut
<1>2. CASE UNCHANGED file
  BY <1>1, <1>2 DEF Written, TypeOK
<1>3. CASE \E whole \in BOOLEAN : file' = AppendPiece([event |-> e, whole |-> whole])
  <2>1. PICK whole \in BOOLEAN : file' = AppendPiece([event |-> e, whole |-> whole])
    BY <1>3
  <2>2. PICK p \in Piece : p.event = e /\ file' = AppendPiece(p)
    BY <2>1 DEF Piece
  <2>3. /\ file' \in Seq(Seq(Piece)) /\ Len(file') = Len(file)
        /\ \A n \in 1..Len(file) : n # Len(file) => file'[n] = file[n]
        /\ \A n \in 1..Len(file) : \A i \in DOMAIN file'[n] :
             \/ i \in DOMAIN file[n] /\ file'[n][i] = file[n][i]
             \/ n = Len(file) /\ file'[n][i] = p
    BY <2>2, AppendPieceIs
  <2>4. DOMAIN file = 1..Len(file) /\ DOMAIN file' = 1..Len(file) /\ file' # <<>>
    BY <2>3, LinesAre
  <2>5. Written(e)
    BY <2>2, <2>3, <2>4 DEF Written
  <2> QED BY <1>1, <2>3, <2>4, <2>5
<1> QED BY <1>2, <1>3 DEF Cut

LEMMA AppendEntryWrites ==
    ASSUME TypeOK, NEW e \in Events, AppendEntry(e)
    PROVE  /\ Written(e) /\ Len(file') = Len(file) + 1
           /\ file' \in Seq(Seq(Piece)) /\ file' # <<>> /\ file'[Len(file')] = <<>>
           /\ file[Len(file)] = <<>> =>
                Parseable(file'[Len(file)]) /\ file'[Len(file)][1].event = e
<1> DEFINE L == Len(file)
<1>1. PICK p \in Piece : p = [event |-> e, whole |-> TRUE]
  BY DEF Piece
<1>2. PICK g : g = AppendPiece(p)
  OBVIOUS
<1>3. file' = Append(g, <<>>)
  BY <1>1, <1>2 DEF AppendEntry
<1>4. /\ g \in Seq(Seq(Piece)) /\ Len(g) = L
      /\ \A n \in 1..L : n # L => g[n] = file[n]
      /\ g[L] = Append(file[L], p)
      /\ \A n \in 1..L : \A i \in DOMAIN g[n] :
           \/ i \in DOMAIN file[n] /\ g[n][i] = file[n][i]
           \/ n = L /\ g[n][i] = p
  <2>1. TypeOK /\ p \in Piece /\ g = AppendPiece(p)
    BY <1>1, <1>2
  <2> HIDE DEF L
  <2> QED BY <2>1, AppendPieceIs DEF L
<1>5. L \in Nat \ {0} /\ DOMAIN file = 1..L /\ L \in 1..L
  BY LinesAre
<1>6. /\ file' \in Seq(Seq(Piece)) /\ file' # <<>> /\ Len(file') = L + 1
      /\ \A n \in 1..L : file'[n] = g[n]
      /\ file'[L + 1] = <<>>
  <2>1. <<>> \in Seq(Piece)
    OBVIOUS
  <2> QED BY <1>3, <1>4, <2>1, AppendProperties
<1>7. DOMAIN file' = 1..(L + 1)
  BY <1>6
<1> HIDE DEF L
<1>8. ASSUME NEW n \in DOMAIN file, n # L PROVE n \in DOMAIN file' /\ file'[n] = file[n]
  BY <1>4, <1>5, <1>6, <1>7, <1>8
<1>9. ASSUME NEW n \in DOMAIN file', NEW i \in DOMAIN file'[n]
      PROVE  \/ /\ n \in DOMAIN file /\ i \in DOMAIN file[n]
                /\ file'[n][i].event = file[n][i].event
             \/ n = L /\ file'[n][i].event = e
  <2>1. n \in 1..L
    <3>1. n # L + 1
      <4>1. DOMAIN file'[L + 1] = {}
        BY <1>6
      <4> QED BY <1>9, <4>1
    <3> QED BY <1>5, <1>7, <3>1
  <2>2. file'[n] = g[n]
    BY <1>6, <2>1
  <2> QED BY <1>1, <1>4, <1>5, <2>1, <2>2
<1>10. ASSUME file[L] = <<>> PROVE Parseable(file'[L]) /\ file'[L][1].event = e
  <2>1. file'[L] = <<p>>
    BY <1>4, <1>5, <1>6, <1>10
  <2> QED BY <1>1, <2>1 DEF Parseable
<1> QED BY <1>6, <1>8, <1>9, <1>10 DEF Written, L

-----------------------------------------------------------------------------
(* The invariant *)

Ended == {"recorded", "swallowed", "lost"}

\* A piece's event has ended; in the last line it is not recorded.
LEMMA PiecesAre ==
    ASSUME LogInv, NEW n \in DOMAIN file, NEW i \in DOMAIN file[n]
    PROVE  /\ file[n][i].event \in Events
           /\ state[file[n][i].event] \in Ended
           /\ n = Len(file) => state[file[n][i].event] # "recorded"
<1>1. file[n] \in Seq(Piece) /\ i \in 1..Len(file[n])
  BY LinesAre DEF LogInv
<1>2. file[n][i] \in Piece
  BY <1>1, ElementOfSeq
<1> QED BY <1>2 DEF LogInv, PiecesAreEnded, Ended, Piece

\* A step that ends e's append, and other appends perhaps with it.
Ends(e) ==
    /\ state[e] = "appending" /\ state'[e] \in Ended
    /\ \A d \in Events : state[d] \in Ended => state'[d] = state[d]
    /\ UNCHANGED earlier

LEMMA PiecesStayEnded ==
    ASSUME LogInv, TypeOK', NEW e \in Events, Ends(e), Written(e),
           state'[e] # "recorded" \/ file'[Len(file')] = <<>>,
           Len(file') \in {Len(file), Len(file) + 1}
    PROVE  PiecesAreEnded'
<1> SUFFICES ASSUME NEW n \in DOMAIN file', NEW i \in DOMAIN file'[n]
             PROVE  /\ state'[file'[n][i].event] \in Ended
                    /\ n = Len(file') => state'[file'[n][i].event] # "recorded"
  BY DEF PiecesAreEnded, Ended
<1>1. Len(file) \in Nat /\ DOMAIN file = 1..Len(file) /\ DOMAIN <<>> = {}
  BY LinesAre DEF LogInv
<1>2. CASE n \in DOMAIN file /\ i \in DOMAIN file[n] /\ file'[n][i].event = file[n][i].event
  <2>1. /\ file[n][i].event \in Events /\ state[file[n][i].event] \in Ended
        /\ n = Len(file) => state[file[n][i].event] # "recorded"
    BY <1>2, PiecesAre
  <2>2. state'[file'[n][i].event] = state[file[n][i].event]
    BY <1>2, <2>1 DEF Ends
  <2>3. n = Len(file') => n = Len(file)
    BY <1>1, <1>2
  <2> QED BY <2>1, <2>2, <2>3
<1>3. CASE n = Len(file) /\ file'[n][i].event = e
  BY <1>1, <1>3 DEF Ends
<1> QED BY <1>2, <1>3 DEF Written

LEMMA LinesStayInOrder ==
    ASSUME LogInv, TypeOK', NEW e \in Events, Ends(e), Written(e)
    PROVE  LinesAreInOrder'
<1>1. ASSUME NEW d \in Events
      PROVE  earlier'[d] \subseteq With("recorded")' \cup With("swallowed")' /\ d \notin earlier'[d]
  <2>1. earlier'[d] = earlier[d] /\ earlier[d] \subseteq With("recorded") \cup With("swallowed")
        /\ d \notin earlier[d]
    BY DEF Ends, LogInv, LinesAreInOrder
  <2>2. \A s \in {"recorded", "swallowed"} : With(s) \subseteq With(s)'
    BY DEF With, Ends, Ended
  <2> QED BY <2>1, <2>2
<1>2. \A d \in Events : e \notin earlier[d]
  BY DEF Ends, LogInv, LinesAreInOrder, With
<1>3. ASSUME NEW m \in DOMAIN file', NEW n \in DOMAIN file',
             NEW i \in DOMAIN file'[m], NEW j \in DOMAIN file'[n],
             file'[m][i].event \in earlier'[file'[n][j].event]
      PROVE  m <= n
  <2> DEFINE Old(l, k) == l \in DOMAIN file /\ k \in DOMAIN file[l]
                          /\ file'[l][k].event = file[l][k].event
             New(l, k) == l = Len(file) /\ file'[l][k].event = e
  <2>1. (Old(m, i) \/ New(m, i)) /\ (Old(n, j) \/ New(n, j))
    BY DEF Written
  <2>2. earlier' = earlier /\ Len(file) \in Nat /\ DOMAIN file = 1..Len(file)
    BY LinesAre DEF Ends, LogInv
  <2>3. file'[n][j].event \in Events
    BY <2>1, PiecesAre
  <2>4. Old(m, i)
    BY <1>2, <1>3, <2>1, <2>2, <2>3
  <2>5. CASE Old(n, j)
    BY <1>3, <2>2, <2>4, <2>5 DEF LogInv, LinesAreInOrder
  <2>6. CASE New(n, j)
    BY <2>2, <2>4, <2>6
  <2> QED BY <2>1, <2>5, <2>6
<1> QED BY <1>1, <1>3 DEF LinesAreInOrder

\* An event that was recorded and not missed is not missed after a write.
LEMMA OnlyNewOnesAreMissed ==
    ASSUME LogInv, TypeOK', NEW e \in Events, Written(e)
    PROVE  \A d \in Missed' : state[d] = "recorded" => d \in Missed
<1> SUFFICES ASSUME NEW d \in Missed', state[d] = "recorded", d \notin Missed PROVE FALSE
  OBVIOUS
<1>1. d \in Events
  BY DEF Missed, With
<1>2. PICK n \in DOMAIN file : Parseable(file[n]) /\ file[n][1].event = d
  BY <1>1 DEF Missed, With
<1>3. n # Len(file)
  <2>1. 1 \in DOMAIN file[n]
    <3>1. file[n] \in Seq(Piece) /\ Len(file[n]) = 1
      BY <1>2, LinesAre DEF LogInv, Parseable
    <3> QED BY <3>1
  <2> QED BY <1>2, <2>1, PiecesAre
<1>4. n \in DOMAIN file' /\ file'[n] = file[n]
  BY <1>3 DEF Written
<1> QED BY <1>2, <1>4 DEF Missed, Parseable

\* How many events are missed.
LEMMA MissedAre ==
    ASSUME LogInv
    PROVE  IsFiniteSet(Missed) /\ Cardinality(Missed) \in Nat /\ Missed \subseteq With("recorded")
<1>1. Missed \subseteq With("recorded") /\ IsFiniteSet(With("recorded"))
  BY DEF Missed, LogInv, LossIsPaidFor
<1> QED BY <1>1, FS_Subset, FS_CardinalityType

LEMMA RecordKeeps ==
    ASSUME LogInv, NEW e \in Events, Record(e) PROVE LogInv'
<1>1. state[e] = "new" /\ state' = [state EXCEPT ![e] = "appending"] /\ UNCHANGED <<file, cuts>>
      /\ earlier' = [earlier EXCEPT ![e] = With("recorded") \cup With("swallowed")]
  BY DEF Record
<1>2. TypeOK'
  BY <1>1 DEF LogInv, TypeOK, With
<1>3. \A d \in Events \ {e} : state'[d] = state[d] /\ earlier'[d] = earlier[d]
  BY <1>1 DEF LogInv, TypeOK
<1>4. /\ state'[e] = "appending"
      /\ earlier'[e] = With("recorded") \cup With("swallowed") /\ e \notin earlier'[e]
  BY <1>1 DEF LogInv, TypeOK, With
<1>5. With("recorded")' = With("recorded") /\ With("swallowed")' = With("swallowed")
  BY <1>1, <1>3, <1>4 DEF With
<1>6. ASSUME NEW n \in DOMAIN file, NEW i \in DOMAIN file[n]
      PROVE  file[n][i].event \in Events \ {e}
  BY <1>1, PiecesAre DEF Ended
<1>7. PiecesAreEnded'
  <2>1. \A n \in DOMAIN file : \A i \in DOMAIN file[n] :
          state'[file[n][i].event] = state[file[n][i].event]
    BY <1>3, <1>6
  <2> QED BY <1>1, <2>1 DEF LogInv, PiecesAreEnded
<1>8. LinesAreInOrder'
  <2>1. \A d \in Events : earlier'[d] \subseteq With("recorded")' \cup With("swallowed")'
                          /\ d \notin earlier'[d]
    BY <1>3, <1>4, <1>5 DEF LogInv, LinesAreInOrder
  <2>2. \A n \in DOMAIN file : \A i \in DOMAIN file[n] :
          earlier'[file[n][i].event] = earlier[file[n][i].event]
    BY <1>3, <1>6
  <2> QED BY <1>1, <2>1, <2>2 DEF LogInv, LinesAreInOrder
<1>9. LossIsPaidFor'
  <2>1. Missed' = Missed
    BY <1>1, <1>5 DEF Missed, Parseable
  <2> QED BY <1>1, <1>5, <2>1 DEF LogInv, LossIsPaidFor
<1> QED BY <1>2, <1>7, <1>8, <1>9 DEF LogInv

LEMMA AppendEntryKeeps ==
    ASSUME LogInv, NEW e \in Events, AppendEntry(e) PROVE LogInv'
<1>1. state[e] = "appending" /\ state' = [state EXCEPT ![e] = "recorded"]
      /\ UNCHANGED <<earlier, cuts>>
  BY DEF AppendEntry
<1>2. /\ Written(e) /\ Len(file') = Len(file) + 1
      /\ file' \in Seq(Seq(Piece)) /\ file' # <<>> /\ file'[Len(file')] = <<>>
      /\ file[Len(file)] = <<>> =>
           Parseable(file'[Len(file)]) /\ file'[Len(file)][1].event = e
  BY AppendEntryWrites DEF LogInv
<1>3. TypeOK'
  BY <1>1, <1>2 DEF LogInv, TypeOK
<1>4. state'[e] = "recorded" /\ \A d \in Events \ {e} : state'[d] = state[d]
  BY <1>1 DEF LogInv, TypeOK
<1>5. Ends(e)
  BY <1>1, <1>4 DEF Ends, Ended
<1>6. PiecesAreEnded' /\ LinesAreInOrder'
  BY <1>2, <1>3, <1>5, PiecesStayEnded, LinesStayInOrder
<1>7. LossIsPaidFor'
  <2>1. With("recorded")' = With("recorded") \cup {e}
    BY <1>4 DEF With
  <2>2. IsFiniteSet(With("recorded")')
    BY <2>1, FS_AddElement DEF LogInv, LossIsPaidFor
  <2>3. \A d \in Missed' : d \in Missed \/ d = e
    BY <1>2, <1>3, <2>1, OnlyNewOnesAreMissed DEF Missed, With
  <2>4. cuts \in Nat
    BY LimitAssumption DEF LogInv, TypeOK
  <2>5. CASE file[Len(file)] = <<>>
    <3>1. e \notin Missed'
      <4>1. Len(file) \in DOMAIN file'
        BY <1>2, LinesAre DEF LogInv
      <4> QED BY <1>2, <2>5, <4>1 DEF Missed, Parseable
    <3>2. Missed' \subseteq Missed
      BY <2>3, <3>1
    <3>3. Cardinality(Missed') <= Cardinality(Missed) /\ Cardinality(Missed') \in Nat
      BY <3>2, MissedAre, FS_Subset, FS_CardinalityType
    <3>4. Cardinality(Missed) <= cuts
      BY <2>5, MissedAre DEF LogInv, LossIsPaidFor
    <3> QED BY <1>1, <1>2, <2>2, <2>4, <3>3, <3>4, MissedAre DEF LossIsPaidFor
  <2>6. CASE file[Len(file)] # <<>>
    <3>1. Missed' \subseteq Missed \cup {e}
      BY <2>3
    <3>2. IsFiniteSet(Missed \cup {e}) /\ Cardinality(Missed \cup {e}) <= Cardinality(Missed) + 1
      BY MissedAre, FS_AddElement
    <3>3. /\ Cardinality(Missed') <= Cardinality(Missed \cup {e})
          /\ Cardinality(Missed') \in Nat /\ Cardinality(Missed \cup {e}) \in Nat
      BY <3>1, <3>2, FS_Subset, FS_CardinalityType
    <3>4. Cardinality(Missed) + 1 <= cuts
      BY <2>6, MissedAre DEF LogInv, LossIsPaidFor
    <3> QED BY <1>1, <1>2, <2>2, <2>4, <3>2, <3>3, <3>4, MissedAre DEF LossIsPaidFor
  <2> QED BY <2>5, <2>6
<1> QED BY <1>3, <1>6, <1>7 DEF LogInv

\* An append is cut short and its event does not get recorded, nor does any
\* other event in this step.
LEMMA CutKeeps ==
    ASSUME LogInv, NEW e \in Events, Cut(e), Ends(e), state'[e] # "recorded",
           state' \in [Events -> {"new", "appending", "recorded", "swallowed", "lost"}],
           With("recorded")' = With("recorded")
    PROVE  LogInv'
<1>1. /\ Written(e) /\ Len(file') = Len(file)
      /\ file' \in Seq(Seq(Piece)) /\ file' # <<>>
      /\ cuts' = cuts + 1 /\ cuts' \in 0..MaxCuts
  BY CutWrites DEF LogInv
<1>2. TypeOK'
  BY <1>1 DEF LogInv, TypeOK, Ends
<1>3. PiecesAreEnded' /\ LinesAreInOrder'
  BY <1>1, <1>2, PiecesStayEnded, LinesStayInOrder
<1>4. LossIsPaidFor'
  <2>1. Missed' \subseteq Missed
    BY <1>1, <1>2, OnlyNewOnesAreMissed DEF Missed, With
  <2>2. Cardinality(Missed') <= Cardinality(Missed) /\ Cardinality(Missed') \in Nat
    BY <2>1, MissedAre, FS_Subset, FS_CardinalityType
  <2>3. Cardinality(Missed) <= cuts /\ cuts \in Nat
    BY MissedAre, LimitAssumption DEF LogInv, LossIsPaidFor, TypeOK
  <2>4. IsFiniteSet(With("recorded")')
    BY DEF LogInv, LossIsPaidFor
  <2> QED BY <1>1, <2>2, <2>3, <2>4, MissedAre DEF LossIsPaidFor
<1> QED BY <1>2, <1>3, <1>4 DEF LogInv

LEMMA AppendFailsKeeps ==
    ASSUME LogInv, NEW e \in Events, AppendFails(e) PROVE LogInv'
<1>1. state[e] = "appending" /\ Cut(e) /\ state' = [state EXCEPT ![e] = "swallowed"]
      /\ UNCHANGED earlier
  BY DEF AppendFails
<1>2. state'[e] = "swallowed" /\ \A d \in Events \ {e} : state'[d] = state[d]
  BY <1>1 DEF LogInv, TypeOK
<1>3. state' \in [Events -> {"new", "appending", "recorded", "swallowed", "lost"}]
  BY <1>1 DEF LogInv, TypeOK
<1>4. Ends(e) /\ With("recorded")' = With("recorded")
  BY <1>1, <1>2 DEF Ends, Ended, With
<1> QED BY <1>1, <1>2, <1>3, <1>4, CutKeeps

LEMMA CrashKeeps == ASSUME LogInv, CrashAndRestart PROVE LogInv'
<1>1. PICK e \in Events : state[e] = "appending" /\ Cut(e)
  BY DEF CrashAndRestart, With
<1>2. \A d \in Events : state'[d] = IF state[d] = "appending" THEN "lost" ELSE state[d]
  BY DEF CrashAndRestart
<1>3. state' \in [Events -> {"new", "appending", "recorded", "swallowed", "lost"}]
  BY DEF CrashAndRestart, LogInv, TypeOK
<1>4. Ends(e) /\ With("recorded")' = With("recorded") /\ state'[e] # "recorded"
  BY <1>1, <1>2 DEF Ends, Ended, With, CrashAndRestart
<1> QED BY <1>1, <1>3, <1>4, CutKeeps

LEMMA InitIsSound == Init => LogInv
<1> SUFFICES ASSUME Init PROVE LogInv
  OBVIOUS
<1>1. file \in Seq(Seq(Piece)) /\ Len(file) = 1 /\ file[1] = <<>> /\ DOMAIN file = {1}
      /\ file # <<>>
  BY DEF Init
<1>2. TypeOK
  BY <1>1, LimitAssumption DEF Init, TypeOK
<1>3. PiecesAreEnded /\ LinesAreInOrder
  BY <1>1 DEF Init, PiecesAreEnded, LinesAreInOrder
<1>4. With("recorded") = {} /\ Missed = {}
  BY DEF Init, With, Missed
<1>5. LossIsPaidFor
  <2>1. IsFiniteSet({}) /\ Cardinality({}) = 0 /\ cuts = 0 /\ file[Len(file)] = <<>>
    BY <1>1, FS_EmptySet DEF Init
  <2>2. Cardinality(Missed) = 0 /\ IsFiniteSet(With("recorded"))
    BY <1>4, <2>1
  <2> QED BY <2>1, <2>2 DEF LossIsPaidFor
<1> QED BY <1>2, <1>3, <1>5 DEF LogInv

LEMMA StepsKeep == LogInv /\ [Next]_vars => LogInv'
<1> SUFFICES ASSUME LogInv, [Next]_vars PROVE LogInv'
  OBVIOUS
<1>1. ASSUME NEW e \in Events, Record(e) \/ AppendEntry(e) \/ AppendFails(e) PROVE LogInv'
  BY <1>1, RecordKeeps, AppendEntryKeeps, AppendFailsKeeps
<1>2. CASE CrashAndRestart
  BY <1>2, CrashKeeps
<1>3. CASE UNCHANGED vars
  BY <1>3 DEF vars, LogInv, TypeOK, PiecesAreEnded, LinesAreInOrder, With, LossIsPaidFor, Missed,
              Parseable
<1> QED BY <1>1, <1>2, <1>3 DEF Next

-----------------------------------------------------------------------------
(* The theorems *)

\* However many appends are cut short, by a full disk or by the death of the
\* process, the file, the events and their order fit.
THEOREM LogInvariant == Spec => []LogInv
<1>1. Init => LogInv
  BY InitIsSound
<1>2. LogInv /\ [Next]_vars => LogInv'
  BY StepsKeep
<1> QED BY <1>1, <1>2, PTL DEF Spec

\* What is listed, and what is missed, in terms of the lines.
LEMMA ListedAre ==
    ASSUME TypeOK, NEW e
    PROVE  Listed(e) <=> \E n \in DOMAIN file : Entry(n) /\ EventAt(n) = e
<1>1. PICK pos : /\ ReadFrom(readAll, pos)
                 /\ \A n \in DOMAIN file : Entry(n) => \E i \in 1..Len(readAll) : pos[i] = n
  BY ReadAllIs
<1>2. DOMAIN readAll = 1..Len(readAll)
  BY <1>1 DEF ReadFrom
<1>3. Listed(e) <=> \E i \in 1..Len(readAll) : readAll[i] = e
  BY <1>2 DEF Listed, listed
<1> QED BY <1>1, <1>3 DEF ReadFrom

\* The same as a statement about one state, to be used of the next one too.
ListingIsRight ==
    TypeOK => \A e \in Events : Listed(e) <=> \E n \in DOMAIN file : Entry(n) /\ EventAt(n) = e

LEMMA AllListedAre == ListingIsRight
BY ListedAre DEF ListingIsRight

\* Each append that is cut short costs one recorded event at most: the damage
\* does not spread beyond the line it is in.
THEOREM CutsCostOneEventEach == Spec => []LossIsBoundedByCuts
<1>1. LogInv => LossIsBoundedByCuts
  <2> SUFFICES ASSUME LogInv
               PROVE  Cardinality({e \in With("recorded") : ~Listed(e)}) <= cuts
    BY DEF LossIsBoundedByCuts
  <2>1. {e \in With("recorded") : ~Listed(e)} = Missed
    BY ListedAre DEF Missed, Entry, EventAt, LogInv
  <2>2. Cardinality(Missed) <= cuts
    BY MissedAre, LimitAssumption DEF LogInv, LossIsPaidFor, TypeOK
  <2> QED BY <2>1, <2>2
<1> QED BY <1>1, LogInvariant, PTL

\* Newest first is by causality, not by the clock: what had been recorded when
\* an event began comes after it.
THEOREM AuditFollowsCausality == Spec => []CausalOrder
<1>1. LogInv => CausalOrder
  <2> DEFINE all == query(NoApp, NoLimit)
  <2> SUFFICES ASSUME LogInv, NEW i \in DOMAIN all, NEW j \in DOMAIN all,
                      all[i] \in earlier[all[j]]
               PROVE  j < i
    BY DEF CausalOrder, getAudit
  <2>1. PICK pos : /\ ReadFrom(all, pos)
                   /\ \A k, l \in 1..Len(all) : k < l => pos[k] > pos[l]
    BY QueryIs DEF LogInv
  <2> HIDE DEF all
  <2>2. i \in 1..Len(all) /\ j \in 1..Len(all) /\ Len(all) \in Nat /\ all[j] \in Events
    BY <2>1 DEF ReadFrom
  <2>3. /\ pos[i] \in DOMAIN file /\ all[i] = file[pos[i]][1].event /\ 1 \in DOMAIN file[pos[i]]
        /\ pos[j] \in DOMAIN file /\ all[j] = file[pos[j]][1].event /\ 1 \in DOMAIN file[pos[j]]
    <3>1. /\ pos[i] \in DOMAIN file /\ Entry(pos[i]) /\ all[i] = EventAt(pos[i])
          /\ pos[j] \in DOMAIN file /\ Entry(pos[j]) /\ all[j] = EventAt(pos[j])
      BY <2>1, <2>2 DEF ReadFrom
    <3>2. \A n \in DOMAIN file : Entry(n) => 1 \in DOMAIN file[n]
      BY LinesAre DEF LogInv, Entry, Parseable
    <3> QED BY <3>1, <3>2 DEF EventAt
  <2>4. pos[i] <= pos[j]
    BY <2>3 DEF LogInv, LinesAreInOrder
  <2>5. i # j
    BY <2>2 DEF LogInv, LinesAreInOrder
  <2>6. pos[i] \in Nat /\ pos[j] \in Nat
    BY <2>3, LinesAre DEF LogInv
  <2>7. ~(i < j)
    BY <2>1, <2>2, <2>4, <2>6
  <2> QED BY <2>2, <2>5, <2>7
<1> QED BY <1>1, LogInvariant, PTL

\* A query with a limit gives an app the newest of its own events, all of them
\* up to the limit, and nobody else's.
THEOREM AppsGetTheirNewestEvents == Spec => []NewestOfApp
<1>1. LogInv => NewestOfApp
  <2> SUFFICES ASSUME LogInv, NEW app \in Apps, NEW limit \in 0..MaxLimit
               PROVE  LET answer == getAudit(app, limit)
                          all    == getAudit(app, NoLimit).events
                      IN  /\ answer.thrown <=> limit = 0
                          /\ ~answer.thrown =>
                               /\ IsPrefix(answer.events, all)
                               /\ Len(answer.events) = IF limit < Len(all) THEN limit ELSE Len(all)
                          /\ \A e \in Events :
                               Listed(e) /\ AppOf[e] = app <=> \E i \in DOMAIN all : all[i] = e
    BY DEF NewestOfApp
  <2> DEFINE answer == getAudit(app, limit)
             all == query(app, NoLimit)
  <2>1. getAudit(app, NoLimit).events = all
    BY DEF getAudit
  <2>2. limit \in Nat /\ limit # NoLimit /\ MaxLimit \in Nat
    BY LimitAssumption
  <2>3. answer.thrown <=> limit = 0
    <3>1. answer.thrown = (limit \notin (1..MaxLimit) \cup {NoLimit})
      BY DEF getAudit
    <3>2. limit \in (1..MaxLimit) \cup {NoLimit} <=> limit # 0
      BY <2>2
    <3> HIDE DEF answer
    <3> QED BY <3>1, <3>2
  <2>4. PICK pos : /\ ReadFrom(all, pos)
                   /\ \A i \in 1..Len(all) : Matches(app, all[i])
                   /\ \A n \in DOMAIN file : Entry(n) /\ Matches(app, EventAt(n)) =>
                        \E i \in 1..Len(all) : pos[i] = n
    BY QueryIs DEF LogInv
  <2>5. all \in Seq(Events) /\ Len(all) \in Nat /\ DOMAIN all = 1..Len(all)
    BY <2>4 DEF ReadFrom
  <2>6. ASSUME limit # 0
        PROVE  /\ IsPrefix(answer.events, all)
               /\ Len(answer.events) = IF limit < Len(all) THEN limit ELSE Len(all)
    <3> DEFINE m == IF limit < Len(all) THEN limit ELSE Len(all)
    <3>1. answer.events = query(app, limit)
      BY <2>2, <2>6 DEF getAudit
    <3>2. query(app, limit) = SubSeq(all, 1, m)
      BY <2>2 DEF query
    <3> HIDE DEF all
    <3>3. m \in Nat /\ m <= Len(all) /\ \A i \in 1..m : all[i] \in Events
      BY <2>2, <2>5
    <3>4. Len(SubSeq(all, 1, m)) = m
      BY <2>5, <3>3, SubSeqProperties
    <3> HIDE DEF m
    <3>5. SubSeq(all, 1, m) = SubSeq(SubSeq(all, 1, m), 1, m)
      <4>1. /\ SubSeq(all, 1, m) \in Seq(Events)
        BY <2>5, <3>3, SubSeqProperties
      <4> QED BY <3>4, <4>1, SubSeqFull
    <3>6. IsPrefix(SubSeq(all, 1, m), all)
      BY <3>3, <3>4, <3>5 DEF IsPrefix
    <3> QED BY <3>1, <3>2, <3>4, <3>6 DEF m, all
  <2>7. ASSUME NEW e \in Events
        PROVE  Listed(e) /\ AppOf[e] = app <=> \E i \in DOMAIN all : all[i] = e
    <3>1. Matches(app, e) <=> AppOf[e] = app
      BY AppsAssumption DEF Matches
    <3>2. Listed(e) <=> \E n \in DOMAIN file : Entry(n) /\ EventAt(n) = e
      BY ListedAre DEF LogInv
    <3> HIDE DEF all
    <3>3. ASSUME NEW i \in DOMAIN all, all[i] = e PROVE Listed(e) /\ AppOf[e] = app
      BY <2>4, <2>5, <3>1, <3>2, <3>3 DEF ReadFrom
    <3>4. ASSUME Listed(e), AppOf[e] = app PROVE \E i \in DOMAIN all : all[i] = e
      <4>1. PICK n \in DOMAIN file : Entry(n) /\ EventAt(n) = e
        BY <3>2, <3>4
      <4>2. PICK i \in 1..Len(all) : pos[i] = n
        BY <2>4, <3>1, <3>4, <4>1
      <4> QED BY <2>4, <2>5, <4>1, <4>2 DEF ReadFrom
    <3> QED BY <3>3, <3>4
  <2> QED BY <2>1, <2>3, <2>6, <2>7
<1> QED BY <1>1, LogInvariant, PTL

\* What a reader has seen of the recorded events it will see again: later
\* appends, cut short or not, never take it away.
THEOREM SeenEventsStay == Spec => RecordedStaysListed
<1>1. ASSUME LogInv, LogInv', [Next]_vars, NEW e \in Events, state[e] = "recorded", Listed(e)
      PROVE  Listed(e)'
  <2>1. PICK n \in DOMAIN file : Entry(n) /\ EventAt(n) = e
    BY <1>1, ListedAre DEF LogInv
  <2>2. n # Len(file)
    <3>1. 1 \in DOMAIN file[n]
      BY <1>1, <2>1, LinesAre DEF LogInv, Entry, Parseable
    <3> QED BY <1>1, <2>1, <3>1, PiecesAre DEF EventAt
  <2>3. file' = file \/ \E d \in Events : Written(d)
    <3>1. ASSUME NEW d \in Events, Record(d) \/ AppendEntry(d) \/ AppendFails(d)
          PROVE  file' = file \/ Written(d)
      BY <1>1, <3>1, AppendEntryWrites, CutWrites DEF LogInv, Record, AppendFails
    <3>2. CASE CrashAndRestart
      BY <1>1, <3>2, CutWrites DEF LogInv, CrashAndRestart, With
    <3>3. CASE UNCHANGED vars
      BY <3>3 DEF vars
    <3> QED BY <1>1, <3>1, <3>2, <3>3 DEF Next
  <2>4. n \in DOMAIN file' /\ file'[n] = file[n]
    BY <2>2, <2>3 DEF Written
  <2>5. n \in DOMAIN file' /\ Entry(n)' /\ EventAt(n)' = e
    BY <2>1, <2>4 DEF Entry, EventAt, Parseable
  <2>6. Listed(e)' <=> \E m \in (DOMAIN file)' : Entry(m)' /\ EventAt(m)' = e
    <3>1. ListingIsRight'
      BY AllListedAre, PTL
    <3> QED BY <1>1, <3>1 DEF ListingIsRight, LogInv
  <2> QED BY <2>5, <2>6
<1>2. LogInv /\ LogInv' /\ [Next]_vars =>
        [\A e \in Events : state[e] = "recorded" /\ Listed(e) => Listed(e)']_vars
  BY <1>1
<1> QED BY <1>2, LogInvariant, PTL DEF Spec, RecordedStaysListed
=============================================================================
