-------------------------- MODULE BlockFeedProofs --------------------------
(***************************************************************************)
(* Theorems about BlockFeed, for files, windows, openings and backlogs of  *)
(* any length.                                                             *)
(***************************************************************************)
EXTENDS BlockFeed, WellFoundedInduction, TLAPS

-----------------------------------------------------------------------------
(* Induction                                                               *)

\* Every set of naturals has a least member: what the proofs below use for
\* induction, on the set of the counterexamples.
LEMMA LeastMember ==
  ASSUME NEW T \in SUBSET Nat, T # {}
  PROVE  \E n \in T : \A k \in T : n <= k
<1> DEFINE R == OpToRel(<, Nat)
<1>1. IsWellFoundedOn(R, Nat)
  BY NatLessThanWellFounded, Zenon
<1>2. \A x, y \in Nat : x < y => <<x, y>> \in R
  BY Zenon DEF OpToRel
<1>3. T \subseteq Nat
  OBVIOUS
<1> HIDE DEF R
<1>4. \E x \in T : \A y \in T : ~ (<<y, x>> \in R)
  BY <1>1, <1>3, WFMin, Zenon
<1>5. PICK x \in T : \A y \in T : ~ (<<y, x>> \in R)
  BY <1>4, Zenon
<1>6. ASSUME NEW k \in T
      PROVE  x <= k
  <2>1. k \in Nat /\ x \in Nat
    OBVIOUS
  <2>2. ~ (k < x)
    BY <2>1, <1>2, <1>5, Zenon
  <2> QED
    BY <2>1, <2>2
<1> QED
  BY <1>6

\* What holds at zero, and at each number if at the one before, holds up to n.
LEMMA UpTo ==
  ASSUME NEW n \in Nat, NEW H \in SUBSET Nat, 0 \in H,
         \A k \in 1 .. n : k - 1 \in H => k \in H
  PROVE  \A k \in 0 .. n : k \in H
<1> DEFINE T == {k \in 0 .. n : k \notin H}
<1>1. SUFFICES ASSUME T # {}
               PROVE  FALSE
  OBVIOUS
<1>2. T \in SUBSET Nat
  OBVIOUS
<1>3. PICK k \in T : \A l \in T : k <= l
  BY <1>1, <1>2, LeastMember, Zenon
<1>4. k \in 1 .. n /\ k - 1 \notin T
  BY <1>3
<1> QED
  BY <1>4, <1>3

-----------------------------------------------------------------------------
(* The lines that parse                                                    *)

\* The equation of the loop in Parsed, for a function on 0 .. n.
Keeps(f, lines, n) ==
  f = [k \in 0 .. n |->
         IF k = 0 THEN <<>>
         ELSE IF lines[k] = Broken THEN f[k - 1]
         ELSE Append(f[k - 1], lines[k])]

LEMMA KeepsExists ==
  ASSUME NEW lines, NEW n \in Nat
  PROVE  \E f : Keeps(f, lines, n)
<1> DEFINE H == {k \in Nat : \E f : Keeps(f, lines, k)}
<1>1. 0 \in H
  <2> DEFINE f == [k \in 0 .. 0 |-> <<>>]
  <2>1. Keeps(f, lines, 0)
    BY DEF Keeps
  <2> QED
    BY <2>1
<1>2. ASSUME NEW k \in 1 .. n, k - 1 \in H
      PROVE  k \in H
  <2>1. PICK f : Keeps(f, lines, k - 1)
    BY <1>2
  <2> DEFINE last == IF lines[k] = Broken THEN f[k - 1]
                     ELSE Append(f[k - 1], lines[k])
             g == [i \in 0 .. k |-> IF i = k THEN last ELSE f[i]]
  <2>2. \A i \in 0 .. k : g[i] = IF i = 0 THEN <<>>
                                 ELSE IF lines[i] = Broken THEN g[i - 1]
                                 ELSE Append(g[i - 1], lines[i])
    <3> TAKE i \in 0 .. k
    <3>1. CASE i = k
      BY <3>1, <1>2
    <3>2. CASE i # k
      <4>1. i \in 0 .. k - 1 /\ g[i] = f[i]
        BY <3>2
      <4>2. f[i] = IF i = 0 THEN <<>>
                   ELSE IF lines[i] = Broken THEN f[i - 1]
                   ELSE Append(f[i - 1], lines[i])
        BY <2>1, <4>1 DEF Keeps
      <4>3. i # 0 => g[i - 1] = f[i - 1]
        BY <4>1
      <4> QED
        BY <4>1, <4>2, <4>3
    <3> QED
      BY <3>1, <3>2
  <2>3. Keeps(g, lines, k)
    BY <2>2 DEF Keeps
  <2> QED
    BY <2>3
<1>3. H \in SUBSET Nat
  OBVIOUS
<1> HIDE DEF H
<1>4. n \in 0 .. n /\ \A k \in 0 .. n : k \in H
  BY <1>1, <1>2, <1>3, UpTo
<1> QED
  BY <1>4 DEF H

\* A list without repetition, the oldest first.
Ascending(s) == \A i, j \in 1 .. Len(s) : i < j => s[i] < s[j]

\* The lines of the file are numbered.
Numbered(lines) == \A i \in 1 .. Len(lines) : lines[i] \in {Broken, i}

Run(s, k) ==
  /\ s \in Seq(Nat \ {Broken})
  /\ Ascending(s)
  /\ \A i \in 1 .. Len(s) : s[i] <= k

LEMMA RunGrows ==
  ASSUME NEW k \in Nat, NEW s, Run(s, k)
  PROVE  Run(s, k + 1) /\ Run(Append(s, k + 1), k + 1)
<1>1. s \in Seq(Nat) /\ Len(s) \in Nat /\ k + 1 \in Nat \ {Broken}
  BY DEF Run, Broken
<1>2. \A i \in 1 .. Len(s) : s[i] \in Nat /\ s[i] <= k
  BY <1>1 DEF Run
<1> DEFINE t == Append(s, k + 1)
<1>3. /\ t \in Seq(Nat \ {Broken})
      /\ Len(t) = Len(s) + 1
      /\ \A i \in 1 .. Len(s) : t[i] = s[i]
      /\ t[Len(s) + 1] = k + 1
  BY <1>1 DEF Run
<1> HIDE DEF t
<1>4. \A i \in 1 .. Len(t) : t[i] <= k + 1
  BY <1>1, <1>2, <1>3
<1>5. Ascending(t)
  <2> SUFFICES ASSUME NEW i \in 1 .. Len(t), NEW j \in 1 .. Len(t), i < j
               PROVE  t[i] < t[j]
    BY DEF Ascending
  <2>1. i \in 1 .. Len(s)
    BY <1>1, <1>3
  <2>2. CASE j \in 1 .. Len(s)
    BY <2>1, <2>2, <1>3 DEF Run, Ascending
  <2>3. CASE j = Len(s) + 1
    BY <2>1, <2>3, <1>2, <1>3
  <2>4. j \in 1 .. Len(s) \/ j = Len(s) + 1
    BY <1>1, <1>3
  <2> QED
    BY <2>2, <2>3, <2>4
<1>6. Run(t, k + 1)
  BY <1>3, <1>4, <1>5 DEF Run
<1>7. Run(s, k + 1)
  BY <1>2 DEF Run
<1> QED
  BY <1>6, <1>7 DEF t

LEMMA ParsedRuns ==
  ASSUME NEW lines \in Seq(Nat), Numbered(lines)
  PROVE  /\ Parsed(lines) \in Seq(Nat \ {Broken})
         /\ Ascending(Parsed(lines))
<1> DEFINE n == Len(lines)
           f == CHOOSE g : Keeps(g, lines, n)
<1>1. Keeps(f, lines, n)
  BY KeepsExists
<1>2. Parsed(lines) = f[n]
  BY DEF Parsed, Keeps
<1>3. n \in Nat /\ \A k \in 1 .. n : lines[k] \in {Broken, k}
  BY DEF Numbered
<1> HIDE DEF f, n
<1>4. \A k \in 0 .. n : f[k] = IF k = 0 THEN <<>>
                               ELSE IF lines[k] = Broken THEN f[k - 1]
                               ELSE Append(f[k - 1], lines[k])
  BY <1>1 DEF Keeps
<1> DEFINE H == {k \in 0 .. n : Run(f[k], k)}
<1>5. 0 \in H
  <2>1. Run(<<>>, 0)
    BY DEF Run, Ascending
  <2> QED
    BY <1>3, <1>4, <2>1
<1>6. ASSUME NEW k \in 1 .. n, k - 1 \in H
      PROVE  k \in H
  <2>1. k - 1 \in Nat /\ (k - 1) + 1 = k /\ k \in 0 .. n /\ k # 0
    BY <1>3
  <2>2. Run(f[k - 1], k) /\ Run(Append(f[k - 1], k), k)
    BY <1>6, <2>1, RunGrows
  <2>3. f[k] = f[k - 1] \/ f[k] = Append(f[k - 1], k)
    BY <1>3, <1>4, <2>1
  <2> QED
    BY <2>1, <2>2, <2>3
<1>7. H \in SUBSET Nat
  BY <1>3
<1> HIDE DEF H
<1>8. n \in Nat /\ \A k \in 1 .. n : k - 1 \in H => k \in H
  BY <1>3, <1>6
<1>9. \A k \in 0 .. n : k \in H
  BY <1>5, <1>7, <1>8, UpTo
<1> QED
  BY <1>2, <1>8, <1>9 DEF H, Run

-----------------------------------------------------------------------------
(* The window and the table *)

LEMMA PushRows ==
  ASSUME NEW S, NEW row \in S, NEW rows \in Seq(S), Len(rows) <= Window
  PROVE  /\ Push(row, rows) \in Seq(S)
         /\ Len(Push(row, rows)) =
              IF Len(rows) < Window THEN Len(rows) + 1 ELSE Window
         /\ \A i \in 1 .. Len(Push(row, rows)) :
              Push(row, rows)[i] = IF i = 1 THEN row ELSE rows[i - 1]
<1> DEFINE n == IF Len(rows) < Window THEN Len(rows) + 1 ELSE Window
           s == <<row>> \o rows
<1>1. /\ s \in Seq(S) /\ Len(s) = Len(rows) + 1
      /\ \A i \in 1 .. Len(s) : s[i] = IF i = 1 THEN row ELSE rows[i - 1]
  OBVIOUS
<1>2. n \in 1 .. Len(rows) + 1
  BY FeedAssumption
<1> HIDE DEF n, s
<1>3. /\ SubSeq(s, 1, n) \in Seq(S) /\ Len(SubSeq(s, 1, n)) = n
      /\ \A i \in 1 .. n : SubSeq(s, 1, n)[i] = s[i]
  BY <1>1, <1>2
<1>4. Push(row, rows) = SubSeq(s, 1, n)
  BY DEF Push, s, n
<1> QED
  BY <1>1, <1>2, <1>3, <1>4 DEF n

LEMMA Reversed ==
  ASSUME NEW S, NEW s \in Seq(S)
  PROVE  /\ Reverse(s) \in Seq(S)
         /\ Len(Reverse(s)) = Len(s)
         /\ \A i \in 1 .. Len(s) : Reverse(s)[i] = s[Len(s) + 1 - i]
<1>1. \A i \in 1 .. Len(s) : Len(s) - i + 1 \in 1 .. Len(s)
  OBVIOUS
<1> QED
  BY <1>1 DEF Reverse

Entry == [id : Nat, number : Nat]

\* The table of the DA page: its numbers run down from the latest.
Counted(d) ==
  /\ d \in [entries : Seq(Entry), latest : Nat, id : Nat]
  /\ d.latest = FirstNumber + d.id
  /\ Len(d.entries) = IF d.id < Window THEN d.id ELSE Window
  /\ \A i \in 1 .. Len(d.entries) : /\ d.entries[i].number = d.latest + 1 - i
                                     /\ d.entries[i].id + i = d.id

LEMMA EntryCounted ==
  ASSUME NEW d, Counted(d)
  PROVE  Counted(AddEntry(d)) /\ AddEntry(d).id = d.id + 1
<1> DEFINE row == [id |-> d.id, number |-> FirstNumber + d.id + 1]
           e == d.entries
           p == Push(row, e)
<1>1. d.id \in Nat /\ d.latest \in Nat /\ d.latest = FirstNumber + d.id
  BY DEF Counted
<1>2. row \in Entry
  BY <1>1, FeedAssumption DEF Entry
<1>3. /\ e \in Seq(Entry) /\ Len(e) <= Window
      /\ Len(e) = IF d.id < Window THEN d.id ELSE Window
  BY FeedAssumption DEF Counted
<1> HIDE DEF row, e
<1>4. /\ p \in Seq(Entry)
      /\ Len(p) = IF Len(e) < Window THEN Len(e) + 1 ELSE Window
      /\ \A i \in 1 .. Len(p) : p[i] = IF i = 1 THEN row ELSE e[i - 1]
  BY <1>2, <1>3, PushRows
<1>5. row.id = d.id /\ row.number = d.latest + 1
  BY <1>1, FeedAssumption DEF row
<1>6. AddEntry(d) = [entries |-> p, latest |-> d.latest + 1, id |-> d.id + 1]
  BY DEF AddEntry, row, e
<1> HIDE DEF p
<1>7. ASSUME NEW i \in 1 .. Len(p)
      PROVE  p[i].number = (d.latest + 1) + 1 - i /\ p[i].id + i = d.id + 1
  <2>1. Len(e) \in Nat /\ Window \in Nat
    BY <1>3, FeedAssumption
  <2>2. CASE i = 1
    BY <2>2, <1>1, <1>4, <1>5
  <2>3. CASE i # 1
    <3>1. i - 1 \in 1 .. Len(e) /\ p[i] = e[i - 1]
      BY <2>1, <2>3, <1>3, <1>4
    <3>2. /\ e[i - 1].number = d.latest + 1 - (i - 1)
          /\ e[i - 1].id + (i - 1) = d.id
      BY <3>1 DEF Counted, e
    <3>3. e[i - 1] \in Entry /\ i \in Nat
      BY <3>1, <1>3, <2>1
    <3>4. e[i - 1].id \in Nat
      BY <3>3 DEF Entry
    <3>5. /\ d.latest + 1 - (i - 1) = (d.latest + 1) + 1 - i
          /\ \A n \in Nat : n + (i - 1) = d.id => n + i = d.id + 1
      BY <3>3, <1>1
    <3> QED
      BY <3>1, <3>2, <3>4, <3>5, Zenon
  <2> QED
    BY <2>2, <2>3
<1>8. Len(p) = IF d.id + 1 < Window THEN d.id + 1 ELSE Window
  BY <1>1, <1>3, <1>4, FeedAssumption
<1>9. AddEntry(d) \in [entries : Seq(Entry), latest : Nat, id : Nat]
  BY <1>1, <1>4, <1>6
<1>10. /\ AddEntry(d).entries = p
       /\ AddEntry(d).latest = d.latest + 1
       /\ AddEntry(d).id = d.id + 1
  BY <1>6
<1>11. d.latest + 1 = FirstNumber + (d.id + 1)
  BY <1>1, FeedAssumption
<1> QED
  BY <1>7, <1>8, <1>9, <1>10, <1>11 DEF Counted

\* The table after n entries.
Table(n) ==
  [entries |-> [i \in 1 .. (IF n < Window THEN n ELSE Window) |->
                  [id |-> n - i, number |-> FirstNumber + n + 1 - i]],
   latest |-> FirstNumber + n, id |-> n]

LEMMA CountedIsTable ==
  ASSUME NEW d, Counted(d)
  PROVE  d = Table(d.id)
<1> DEFINE n == IF d.id < Window THEN d.id ELSE Window
           T(i) == [id |-> d.id - i, number |-> FirstNumber + d.id + 1 - i]
<1>1. /\ d = [entries |-> d.entries, latest |-> d.latest, id |-> d.id]
      /\ d.id \in Nat /\ d.latest = FirstNumber + d.id
  BY DEF Counted
<1>2. /\ d.entries \in Seq(Entry) /\ Len(d.entries) = n
      /\ \A i \in 1 .. Len(d.entries) : /\ d.entries[i].number = d.latest + 1 - i
                                         /\ d.entries[i].id + i = d.id
  BY DEF Counted
<1>3. ASSUME NEW i \in 1 .. n
      PROVE  d.entries[i] = T(i)
  <2>1. i \in 1 .. Len(d.entries) /\ d.entries[i] \in Entry /\ i \in Nat
    BY <1>1, <1>2, FeedAssumption
  <2>2. /\ d.entries[i] = [id |-> d.entries[i].id, number |-> d.entries[i].number]
        /\ d.entries[i].id \in Nat
    BY <2>1 DEF Entry
  <2>3. d.entries[i].number = d.latest + 1 - i /\ d.entries[i].id + i = d.id
    BY <1>2, <2>1
  <2>4. d.entries[i].id = d.id - i
    BY <2>1, <2>2, <2>3, <1>1
  <2> QED
    BY <2>2, <2>3, <2>4, <1>1
<1> DEFINE e == d.entries
<1>4. e \in Seq(Entry) /\ Len(e) = n /\ \A i \in 1 .. n : e[i] = T(i)
  BY <1>2, <1>3
<1> HIDE DEF e, n, T
<1>5. e = [i \in 1 .. n |-> e[i]]
  BY <1>4
<1>6. e = [i \in 1 .. n |-> T(i)]
  BY <1>4, <1>5
<1> QED
  BY <1>1, <1>6 DEF Table, e, n, T

LEMMA BlankCounted == Counted(BlankDA) /\ BlankDA.id = 0
BY FeedAssumption DEF Counted, BlankDA

LEMMA TableCounted ==
  ASSUME NEW n \in Nat
  PROVE  Counted(Table(n))
<1> DEFINE m == IF n < Window THEN n ELSE Window
           E(i) == [id |-> n - i, number |-> FirstNumber + n + 1 - i]
           t == [i \in 1 .. m |-> E(i)]
<1>1. m \in Nat /\ m <= n /\ FirstNumber \in Nat
  BY FeedAssumption
<1>2. \A i \in 1 .. m : n - i \in Nat /\ FirstNumber + n + 1 - i \in Nat
  BY <1>1
<1>3. \A i \in 1 .. m : E(i) \in Entry
  BY <1>2 DEF Entry
<1>4. \A i \in 1 .. m : /\ E(i).id + i = n
                         /\ E(i).number = FirstNumber + n + 1 - i
  BY <1>1
<1>5. Table(n) = [entries |-> t, latest |-> FirstNumber + n, id |-> n]
  BY DEF Table
<1> HIDE DEF E, m
<1>6. t \in Seq(Entry) /\ Len(t) = m
  BY <1>1, <1>3
<1>7. \A i \in 1 .. Len(t) : /\ t[i].id + i = n
                              /\ t[i].number = FirstNumber + n + 1 - i
  BY <1>4, <1>6
<1> HIDE DEF t
<1>8. /\ Table(n) \in [entries : Seq(Entry), latest : Nat, id : Nat]
      /\ Table(n).entries = t /\ Table(n).latest = FirstNumber + n
      /\ Table(n).id = n
  BY <1>1, <1>5, <1>6
<1> QED
  BY <1>6, <1>7, <1>8 DEF Counted, m

\* What the recursion in Filled computes.
LEMMA FilledCounted ==
  ASSUME NEW n \in Nat
  PROVE  Counted(Filled[n]) /\ Filled[n].id = n
<1> DEFINE Fills(f) == f = [k \in Nat |-> IF k = 0 THEN BlankDA
                                          ELSE AddEntry(f[k - 1])]
           g == [k \in Nat |-> Table(k)]
<1>1. \A k \in Nat : Counted(Table(k)) /\ Table(k).id = k
  BY TableCounted DEF Table
<1>2. BlankDA = Table(0)
  BY BlankCounted, CountedIsTable
<1>3. ASSUME NEW k \in Nat, k # 0
      PROVE  Table(k) = AddEntry(Table(k - 1))
  <2>1. k - 1 \in Nat /\ (k - 1) + 1 = k
    BY <1>3
  <2>2. Counted(AddEntry(Table(k - 1))) /\ AddEntry(Table(k - 1)).id = k
    BY <2>1, <1>1, EntryCounted
  <2> QED
    BY <2>2, CountedIsTable
<1>4. \A k \in Nat : k # 0 => g[k - 1] = Table(k - 1)
  OBVIOUS
<1>5. Fills(g)
  BY <1>2, <1>3, <1>4
<1>6. Filled = CHOOSE f : Fills(f)
  BY DEF Filled
<1> HIDE DEF g
<1>7. Fills(Filled)
  BY <1>5, <1>6
<1>8. \A k \in Nat : Filled[k] = IF k = 0 THEN BlankDA ELSE AddEntry(Filled[k - 1])
  BY <1>7
<1> DEFINE H == {k \in Nat : Filled[k] = Table(k)}
<1> HIDE DEF Fills
<1>9. 0 \in H
  BY <1>2, <1>8
<1>10. \A k \in 1 .. n : k - 1 \in H => k \in H
  BY <1>3, <1>8
<1>11. H \in SUBSET Nat
  OBVIOUS
<1> HIDE DEF H
<1>12. \A k \in 0 .. n : k \in H
  BY <1>9, <1>10, <1>11, UpTo
<1>13. n \in H
  BY <1>12
<1> QED
  BY <1>1, <1>13 DEF H

-----------------------------------------------------------------------------
(* The invariant *)

Block == Nat \ {Broken}

GPUState ==
  [loading : BOOLEAN, all : Seq(Block), visible : Seq(Block), position : Nat,
   fresh : Nat, selected : Nat, copied : SUBSET Field, fading : 0 .. MaxCopies]

Asking == [at : {"idle", "sent", "answered"}, ok : BOOLEAN, data : Seq(Block)]

Descending(s) == \A i, j \in 1 .. Len(s) : i < j => s[i] > s[j]

\* How many of its blocks a page has shown, and that its rows are the last of
\* these.
ShownBy(g) == IF g.position < Len(g.all) THEN g.position ELSE Len(g.all)

Streamed(g) ==
  /\ g \in GPUState
  /\ Len(g.visible) <= Window
  /\ Ascending(g.all)
  /\ g.all # <<>> =>
       /\ Len(g.visible) = IF ShownBy(g) < Window THEN ShownBy(g) ELSE Window
       /\ \A i \in 1 .. Len(g.visible) : g.visible[i] = g.all[ShownBy(g) + 1 - i]

\* The file is numbered, the answers run down and the stream runs up through
\* what it has been sent, and the table counts.
FeedInv ==
  /\ file \in Seq(Nat) /\ Len(file) <= MaxLines /\ Numbered(file)
  /\ page \in {"none", "gpu", "da"}
  /\ ask \in [Request -> Asking]
  /\ \A r \in Request : Descending(ask[r].data)
  /\ Streamed(gpu)
  /\ Counted(da)

LEMMA ReverseDescends ==
  ASSUME NEW s \in Seq(Block), Ascending(s)
  PROVE  Reverse(s) \in Seq(Block) /\ Descending(Reverse(s))
<1>1. /\ Reverse(s) \in Seq(Block) /\ Len(Reverse(s)) = Len(s)
      /\ \A i \in 1 .. Len(s) : Reverse(s)[i] = s[Len(s) + 1 - i]
  BY Reversed
<1>2. ASSUME NEW i \in 1 .. Len(s), NEW j \in 1 .. Len(s), i < j
      PROVE  s[Len(s) + 1 - i] > s[Len(s) + 1 - j]
  <2>1. /\ Len(s) + 1 - i \in 1 .. Len(s) /\ Len(s) + 1 - j \in 1 .. Len(s)
        /\ Len(s) + 1 - j < Len(s) + 1 - i
    BY <1>2
  <2>2. s[Len(s) + 1 - j] < s[Len(s) + 1 - i]
    BY <2>1 DEF Ascending
  <2>3. s[Len(s) + 1 - j] \in Nat /\ s[Len(s) + 1 - i] \in Nat
    BY <2>1 DEF Block
  <2> QED
    BY <2>2, <2>3
<1> QED
  BY <1>1, <1>2 DEF Descending

LEMMA ReverseAscends ==
  ASSUME NEW s \in Seq(Block), Descending(s)
  PROVE  Reverse(s) \in Seq(Block) /\ Ascending(Reverse(s))
<1>1. /\ Reverse(s) \in Seq(Block) /\ Len(Reverse(s)) = Len(s)
      /\ \A i \in 1 .. Len(s) : Reverse(s)[i] = s[Len(s) + 1 - i]
  BY Reversed
<1>2. ASSUME NEW i \in 1 .. Len(s), NEW j \in 1 .. Len(s), i < j
      PROVE  s[Len(s) + 1 - i] < s[Len(s) + 1 - j]
  <2>1. /\ Len(s) + 1 - i \in 1 .. Len(s) /\ Len(s) + 1 - j \in 1 .. Len(s)
        /\ Len(s) + 1 - j < Len(s) + 1 - i
    BY <1>2
  <2>2. s[Len(s) + 1 - j] > s[Len(s) + 1 - i]
    BY <2>1 DEF Descending
  <2>3. s[Len(s) + 1 - j] \in Nat /\ s[Len(s) + 1 - i] \in Nat
    BY <2>1 DEF Block
  <2> QED
    BY <2>2, <2>3
<1> QED
  BY <1>1, <1>2 DEF Ascending

\* A run that opens shows the first of its blocks, newest first.
LEMMA StreamOpens ==
  ASSUME NEW g, Streamed(g), NEW blocks \in Seq(Block), Ascending(blocks)
  PROVE  Streamed(Stream(g, blocks))
<1> DEFINE h == Stream(g, blocks)
           n == IF Len(blocks) < Opening THEN Len(blocks) ELSE Opening
           s == SubSeq(blocks, 1, n)
<1>1. g \in GPUState /\ Len(g.visible) <= Window
  BY DEF Streamed
<1>2. CASE blocks = <<>>
  <2>1. h = [g EXCEPT !.loading = FALSE, !.all = blocks]
    BY <1>2 DEF Stream
  <2>2. h \in GPUState /\ h.visible = g.visible /\ h.all = <<>>
    BY <1>1, <1>2, <2>1 DEF GPUState
  <2> QED
    BY <1>1, <1>2, <2>2 DEF Streamed
<1>3. CASE blocks # <<>>
  <2>1. n \in 0 .. Len(blocks) /\ n <= Opening /\ Opening \in Nat
    BY FeedAssumption
  <2>2. /\ s \in Seq(Block) /\ Len(s) = n
        /\ \A i \in 1 .. n : s[i] = blocks[i]
    BY <2>1
  <2> HIDE DEF s
  <2>3. /\ Reverse(s) \in Seq(Block) /\ Len(Reverse(s)) = n
        /\ \A i \in 1 .. n : Reverse(s)[i] = s[n + 1 - i]
    BY <2>2, Reversed
  <2>4. \A i \in 1 .. n : Reverse(s)[i] = blocks[n + 1 - i]
    <3> TAKE i \in 1 .. n
    <3>1. n + 1 - i \in 1 .. n
      BY <2>1
    <3> QED
      BY <3>1, <2>2, <2>3
  <2>5. h = [g EXCEPT !.loading = FALSE, !.all = blocks, !.position = Opening,
                      !.visible = Reverse(s)]
    BY <1>3 DEF Stream, s
  <2>6. /\ h \in GPUState /\ h.visible = Reverse(s) /\ h.all = blocks
        /\ h.position = Opening
    BY <1>1, <2>1, <2>3, <2>5 DEF GPUState
  <2>7. ShownBy(h) = n
    BY <2>1, <2>6 DEF ShownBy
  <2>8. n = (IF n < Window THEN n ELSE Window) /\ n <= Window
    BY <2>1, FeedAssumption
  <2> HIDE DEF h, n
  <2>9. Streamed(h)
    BY <2>3, <2>4, <2>6, <2>7, <2>8 DEF Streamed
  <2> QED
    BY <2>9 DEF h
<1> QED
  BY <1>2, <1>3

\* A step of the page that moves none of its blocks.
LEMMA StreamStays ==
  ASSUME NEW g, Streamed(g), NEW h \in GPUState, h.all = g.all,
         h.visible = g.visible, h.position = g.position
  PROVE  Streamed(h)
BY DEF Streamed, ShownBy

\* What a tick changes of the page.
Rewound(g) == [g EXCEPT !.position = 0, !.visible = <<>>]

Advanced(g, n, b, rows) ==
  [g EXCEPT !.position = n, !.fresh = b, !.visible = rows]

LEMMA GPUMoves ==
  ASSUME NEW g \in GPUState
  PROVE  /\ LET h == Rewound(g)
            IN h \in GPUState /\ h.all = g.all /\ h.position = 0 /\ h.visible = <<>>
         /\ \A n \in Nat, b \in Nat, rows \in Seq(Block) :
              /\ Advanced(g, n, b, rows) \in GPUState
              /\ Advanced(g, n, b, rows).all = g.all
              /\ Advanced(g, n, b, rows).position = n
              /\ Advanced(g, n, b, rows).visible = rows
<1>1. <<>> \in Seq(Block)
  OBVIOUS
<1>2. \A n \in Nat, b \in Nat, rows \in Seq(Block) :
        /\ Advanced(g, n, b, rows) \in GPUState
        /\ Advanced(g, n, b, rows).all = g.all
        /\ Advanced(g, n, b, rows).position = n
        /\ Advanced(g, n, b, rows).visible = rows
  BY DEF GPUState, Advanced
<1> DEFINE e == <<>>
<1>3. LET h == [g EXCEPT !.position = 0, !.visible = e]
      IN h \in GPUState /\ h.all = g.all /\ h.position = 0 /\ h.visible = e
  <2>1. e \in Seq(Block)
    BY <1>1
  <2> HIDE DEF e
  <2> QED
    BY <2>1 DEF GPUState
<1> QED
  BY <1>2, <1>3 DEF Rewound

LEMMA TickStreams ==
  ASSUME FeedInv, Tick
  PROVE  Streamed(gpu')
<1>1. /\ gpu \in GPUState /\ Len(gpu.visible) <= Window /\ Ascending(gpu.all)
      /\ gpu.all \in Seq(Block) /\ gpu.visible \in Seq(Block)
      /\ gpu.position \in Nat /\ gpu.all # <<>> /\ Len(gpu.all) \in Nat
  BY DEF FeedInv, Streamed, GPUState, Tick
<1>2. /\ Len(gpu.visible) = IF ShownBy(gpu) < Window THEN ShownBy(gpu) ELSE Window
      /\ \A i \in 1 .. Len(gpu.visible) :
           gpu.visible[i] = gpu.all[ShownBy(gpu) + 1 - i]
  BY <1>1 DEF FeedInv, Streamed
<1>3. CASE gpu.position >= Len(gpu.all)
  <2>1. gpu' = Rewound(gpu)
    BY <1>3 DEF Tick, Rewound
  <2>2. /\ gpu' \in GPUState /\ gpu'.visible = <<>> /\ gpu'.all = gpu.all
        /\ gpu'.position = 0
    BY <1>1, <2>1, GPUMoves
  <2>3. ShownBy(gpu') = 0
    BY <1>1, <2>2 DEF ShownBy
  <2>4. 0 = (IF 0 < Window THEN 0 ELSE Window) /\ 0 <= Window
    BY FeedAssumption
  <2> QED
    BY <1>1, <2>2, <2>3, <2>4 DEF Streamed
<1>4. CASE ~ (gpu.position >= Len(gpu.all))
  <2> DEFINE n == gpu.position
             rows == gpu.visible
             block == gpu.all[n + 1]
             new == Push(block, rows)
  <2>1. /\ n \in Nat /\ n < Len(gpu.all) /\ ShownBy(gpu) = n
        /\ block \in Block /\ rows \in Seq(Block) /\ Len(rows) <= Window
    BY <1>1, <1>4 DEF ShownBy
  <2>2. gpu' = Advanced(gpu, n + 1, block, new)
    BY <1>4 DEF Tick, Advanced
  <2> HIDE DEF block, rows
  <2>3. /\ new \in Seq(Block)
        /\ Len(new) = IF Len(rows) < Window THEN Len(rows) + 1 ELSE Window
        /\ \A i \in 1 .. Len(new) : new[i] = IF i = 1 THEN block ELSE rows[i - 1]
    BY <2>1, PushRows
  <2> HIDE DEF new
  <2>4. /\ gpu' \in GPUState /\ gpu'.visible = new /\ gpu'.all = gpu.all
        /\ gpu'.position = n + 1
    <3>1. block \in Nat /\ n + 1 \in Nat
      BY <2>1 DEF Block
    <3>2. \A m \in Nat, b \in Nat, r \in Seq(Block) :
            /\ Advanced(gpu, m, b, r) \in GPUState
            /\ Advanced(gpu, m, b, r).all = gpu.all
            /\ Advanced(gpu, m, b, r).position = m
            /\ Advanced(gpu, m, b, r).visible = r
      BY <1>1, GPUMoves
    <3>3. /\ Advanced(gpu, n + 1, block, new) \in GPUState
          /\ Advanced(gpu, n + 1, block, new).all = gpu.all
          /\ Advanced(gpu, n + 1, block, new).position = n + 1
          /\ Advanced(gpu, n + 1, block, new).visible = new
      BY <2>3, <3>1, <3>2
    <3> QED
      BY <2>2, <3>3
  <2>5. ShownBy(gpu') = n + 1
    BY <1>1, <2>1, <2>4 DEF ShownBy
  <2>6. Len(rows) = IF n < Window THEN n ELSE Window
    BY <1>2, <2>1 DEF rows
  <2>7. Window \in Nat /\ Len(rows) \in Nat
    BY <2>1, FeedAssumption
  <2>8. /\ Len(new) = IF n + 1 < Window THEN n + 1 ELSE Window
        /\ Len(new) <= Window
    BY <2>1, <2>3, <2>6, <2>7
  <2>9. ASSUME NEW i \in 1 .. Len(new)
        PROVE  new[i] = gpu.all[(n + 1) + 1 - i]
    <3>1. CASE i = 1
      BY <2>1, <2>3, <3>1 DEF block
    <3>2. CASE i # 1
      <4>1. i - 1 \in 1 .. Len(rows) /\ n + 1 - (i - 1) = (n + 1) + 1 - i
        BY <2>1, <2>3, <2>7, <3>2
      <4>2. new[i] = rows[i - 1]
        BY <2>3, <3>2
      <4>3. rows[i - 1] = gpu.all[n + 1 - (i - 1)]
        BY <1>2, <2>1, <4>1 DEF rows
      <4> QED
        BY <4>1, <4>2, <4>3
    <3> QED
      BY <3>1, <3>2
  <2> QED
    BY <1>1, <2>4, <2>5, <2>8, <2>9 DEF Streamed
<1> QED
  BY <1>3, <1>4

LEMMA FileStep ==
  ASSUME FeedInv, WriteLine \/ FinishLine
  PROVE  FeedInv'
<1>1. /\ file \in Seq(Nat) /\ Len(file) \in Nat /\ MaxLines \in Nat
      /\ Len(file) <= MaxLines
      /\ \A i \in 1 .. Len(file) : file[i] \in {Broken, i}
  BY FeedAssumption DEF FeedInv, Numbered
<1>2. CASE WriteLine
  <2>1. PICK line \in {Broken, Len(file) + 1} : file' = Append(file, line)
    BY <1>2 DEF WriteLine
  <2>2. /\ file' \in Seq(Nat) /\ Len(file') = Len(file) + 1
        /\ \A i \in 1 .. Len(file') :
             file'[i] = IF i <= Len(file) THEN file[i] ELSE line
    BY <1>1, <2>1 DEF Broken
  <2>3. Numbered(file') /\ Len(file') <= MaxLines
    BY <1>1, <1>2, <2>1, <2>2 DEF Numbered, WriteLine
  <2> QED
    BY <1>2, <2>2, <2>3 DEF WriteLine, FeedInv
<1>3. CASE FinishLine
  <2>1. Len(file) \in 1 .. Len(file) /\ file' = [file EXCEPT ![Len(file)] = Len(file)]
    BY <1>1, <1>3 DEF FinishLine
  <2>2. /\ file' \in Seq(Nat) /\ Len(file') = Len(file)
        /\ \A i \in 1 .. Len(file') :
             file'[i] = IF i = Len(file) THEN Len(file) ELSE file[i]
    BY <1>1, <2>1
  <2>3. Numbered(file') /\ Len(file') <= MaxLines
    BY <1>1, <2>2 DEF Numbered
  <2> QED
    BY <1>3, <2>2, <2>3 DEF FinishLine, FeedInv
<1> QED
  BY <1>2, <1>3

LEMMA IdleDescends ==
  /\ Idle \in Asking /\ Descending(Idle.data)
  /\ Sent \in Asking /\ Descending(Sent.data)
<1>1. <<>> \in Seq(Block) /\ Descending(<<>>)
  BY DEF Descending
<1>2. Idle \in Asking /\ Idle.data = <<>>
  BY <1>1 DEF Idle, Asking
<1>3. Sent \in Asking /\ Sent.data = Idle.data
  BY <1>2 DEF Sent, Asking
<1> QED
  BY <1>1, <1>2, <1>3

LEMMA AnswerStep ==
  ASSUME FeedInv, NEW r \in Request, Answer(r)
  PROVE  FeedInv'
<1>1. Parsed(file) \in Seq(Block) /\ Ascending(Parsed(file))
  BY ParsedRuns DEF FeedInv, Block
<1>2. MerkleData \in Seq(Block) /\ Descending(MerkleData)
  BY <1>1, ReverseDescends DEF MerkleData
<1>3. PICK ok \in BOOLEAN :
        ask' = [ask EXCEPT ![r] =
                  [at |-> "answered", ok |-> ok,
                   data |-> IF ok THEN MerkleData ELSE <<>>]]
  BY DEF Answer
<1> DEFINE data == IF ok THEN MerkleData ELSE <<>>
           answer == [at |-> "answered", ok |-> ok, data |-> data]
<1>4. data \in Seq(Block) /\ Descending(data)
  BY <1>2 DEF Descending
<1>5. ask' = [ask EXCEPT ![r] = answer]
  BY <1>3
<1> HIDE DEF data
<1>6. answer \in Asking /\ answer.data = data
  BY <1>4 DEF Asking
<1> HIDE DEF answer
<1>7. ask \in [Request -> Asking] /\ \A q \in Request : Descending(ask[q].data)
  BY DEF FeedInv
<1>8. ask' \in [Request -> Asking]
  BY <1>5, <1>6, <1>7
<1>9. \A q \in Request : Descending(ask'[q].data)
  BY <1>4, <1>5, <1>6, <1>7
<1> QED
  BY <1>8, <1>9 DEF FeedInv, Answer

LEMMA ReceiveStep ==
  ASSUME FeedInv, NEW r \in Request, Receive(r)
  PROVE  FeedInv'
<1>1. ask \in [Request -> Asking] /\ \A q \in Request : Descending(ask[q].data)
  BY DEF FeedInv
<1>2. ask' = [ask EXCEPT ![r] = Idle]
  BY DEF Receive
<1>3. ask' \in [Request -> Asking] /\ \A q \in Request : Descending(ask'[q].data)
  BY <1>1, <1>2, IdleDescends
<1>4. ask[r].data \in Seq(Block) /\ Descending(ask[r].data)
  BY <1>1 DEF Asking
<1>5. Reverse(ask[r].data) \in Seq(Block) /\ Ascending(Reverse(ask[r].data))
  BY <1>4, ReverseAscends
<1>6. Streamed(Stream(gpu, Reverse(ask[r].data)))
  BY <1>5, StreamOpens DEF FeedInv
<1>7. Streamed([gpu EXCEPT !.loading = FALSE])
  <2>1. gpu \in GPUState
    BY DEF FeedInv, Streamed
  <2> DEFINE h == [gpu EXCEPT !.loading = FALSE]
  <2>2. /\ h \in GPUState /\ h.all = gpu.all /\ h.visible = gpu.visible
        /\ h.position = gpu.position
    BY <2>1 DEF GPUState
  <2> HIDE DEF h
  <2>3. Streamed(h)
    BY <2>2, StreamStays DEF FeedInv
  <2> QED
    BY <2>3 DEF h
<1>8. Streamed(gpu')
  BY <1>6, <1>7 DEF Receive
<1> QED
  BY <1>3, <1>8 DEF FeedInv, Receive

\* The highlight, the modal and the copy marks.
LEMMA MarkStep ==
  ASSUME FeedInv, Fade \/ Select \/ CloseModal \/ Copy \/ CopyFades
  PROVE  FeedInv'
<1>1. gpu \in GPUState /\ MaxCopies \in Nat
  BY FeedAssumption DEF FeedInv, Streamed
<1>2. gpu' \in GPUState /\ gpu'.all = gpu.all /\ gpu'.visible = gpu.visible
      /\ gpu'.position = gpu.position
  <2>1. CASE Fade
    BY <1>1, <2>1 DEF Fade, GPUState, None
  <2>2. CASE Select
    <3>1. PICK block \in Rows : gpu' = [gpu EXCEPT !.selected = block]
      BY <2>2 DEF Select
    <3>2. \A i \in DOMAIN gpu.visible : gpu.visible[i] \in Nat
      BY <1>1 DEF GPUState, Block
    <3>3. block \in Nat
      BY <3>2 DEF Rows
    <3> QED
      BY <1>1, <3>1, <3>3 DEF GPUState
  <2>3. CASE CloseModal
    BY <1>1, <2>3 DEF CloseModal, GPUState, None
  <2>4. CASE Copy
    <3>1. PICK f \in CopyButtons :
            gpu' = [gpu EXCEPT !.copied = {f}, !.fading = gpu.fading + 1]
      BY <2>4 DEF Copy
    <3>2. {f} \in SUBSET Field
      BY DEF CopyButtons
    <3>3. gpu.fading + 1 \in 0 .. MaxCopies
      <4>1. gpu.fading \in 0 .. MaxCopies
        BY <1>1 DEF GPUState
      <4>2. gpu.fading < MaxCopies
        BY <2>4 DEF Copy
      <4> QED
        BY <1>1, <4>1, <4>2
    <3> QED
      BY <1>1, <3>1, <3>2, <3>3 DEF GPUState
  <2>5. CASE CopyFades
    <3>1. gpu.fading - 1 \in 0 .. MaxCopies
      BY <1>1, <2>5 DEF CopyFades, GPUState
    <3> QED
      BY <1>1, <2>5, <3>1 DEF CopyFades, GPUState
  <2> QED
    BY <2>1, <2>2, <2>3, <2>4, <2>5
<1>3. Streamed(gpu')
  BY <1>2, StreamStays DEF FeedInv
<1> QED
  BY <1>3 DEF FeedInv, Fade, Select, CloseModal, Copy, CopyFades

LEMMA BlankStreamed == Streamed(BlankGPU)
<1>1. BlankGPU \in GPUState
  BY FeedAssumption DEF BlankGPU, GPUState, None
<1>2. BlankGPU.all = <<>> /\ BlankGPU.visible = <<>>
  BY DEF BlankGPU
<1> QED
  BY <1>1, <1>2, FeedAssumption DEF Streamed, Ascending

\* Both pages, opened and left.
LEMMA PageStep ==
  ASSUME FeedInv, VisitGPU \/ VisitDA \/ Leave \/ DATick
  PROVE  FeedInv'
<1>1. CASE VisitGPU
  <2>1. PICK sent \in {{1}, Request} :
          ask' = [r \in Request |-> IF r \in sent THEN Sent ELSE Idle]
    BY <1>1 DEF VisitGPU
  <2> HIDE DEF Sent, Idle
  <2>2. ask' \in [Request -> Asking] /\ \A r \in Request : Descending(ask'[r].data)
    BY <2>1, IdleDescends
  <2> QED
    BY <1>1, <2>2 DEF FeedInv, VisitGPU
<1>2. CASE VisitDA
  <2>1. PICK times \in {1, 2} : da' = Filled[times * Backlog]
    BY <1>2 DEF VisitDA
  <2>2. times * Backlog \in Nat
    BY <2>1, FeedAssumption
  <2>3. Counted(da')
    BY <2>1, <2>2, FilledCounted
  <2> QED
    BY <1>2, <2>3 DEF FeedInv, VisitDA
<1>3. CASE Leave
  <2>1. ask' \in [Request -> Asking] /\ \A r \in Request : Descending(ask'[r].data)
    BY <1>3, IdleDescends DEF Leave
  <2> QED
    BY <1>3, <2>1, BlankStreamed, BlankCounted DEF FeedInv, Leave
<1>4. CASE DATick
  <2>1. Counted(da')
    BY <1>4, EntryCounted DEF FeedInv, DATick
  <2> QED
    BY <1>4, <2>1 DEF FeedInv, DATick
<1> QED
  BY <1>1, <1>2, <1>3, <1>4

LEMMA FeedInvHolds == Spec => []FeedInv
<1>1. Init => FeedInv
  <2> SUFFICES ASSUME Init
               PROVE  FeedInv
    OBVIOUS
  <2>1. ask \in [Request -> Asking] /\ \A r \in Request : Descending(ask[r].data)
    BY IdleDescends DEF Init
  <2>2. file \in Seq(Nat) /\ Len(file) <= MaxLines /\ Numbered(file)
    BY FeedAssumption DEF Init, Numbered
  <2> QED
    BY <2>1, <2>2, BlankStreamed, BlankCounted DEF Init, FeedInv
<1>2. FeedInv /\ [Next]_vars => FeedInv'
  <2> SUFFICES ASSUME FeedInv, [Next]_vars
               PROVE  FeedInv'
    OBVIOUS
  <2>1. CASE WriteLine \/ FinishLine
    BY <2>1, FileStep
  <2>2. ASSUME NEW r \in Request, Answer(r)
        PROVE  FeedInv'
    BY <2>2, AnswerStep
  <2>3. ASSUME NEW r \in Request, Receive(r)
        PROVE  FeedInv'
    BY <2>3, ReceiveStep
  <2>4. CASE Tick
    BY <2>4, TickStreams DEF FeedInv, Tick
  <2>5. CASE Fade \/ Select \/ CloseModal \/ Copy \/ CopyFades
    BY <2>5, MarkStep
  <2>6. CASE VisitGPU \/ VisitDA \/ Leave \/ DATick
    BY <2>6, PageStep
  <2>7. CASE UNCHANGED vars
    BY <2>7 DEF FeedInv, vars
  <2> QED
    BY <2>1, <2>2, <2>3, <2>4, <2>5, <2>6, <2>7 DEF Next
<1> QED
  BY <1>1, <1>2, PTL DEF Spec

-----------------------------------------------------------------------------
(* The theorems *)

\* In every reachable state every variable has its type, whatever the length
\* of file and window; neither page ever holds more rows than its window.
THEOREM FeedTypes == Spec => []FeedTypeOK
<1>1. FeedInv => FeedTypeOK
  <2> SUFFICES ASSUME FeedInv
               PROVE  FeedTypeOK
    OBVIOUS
  <2>1. Len(da.entries) <= Window
    BY FeedAssumption DEF FeedInv, Counted
  <2> QED
    BY <2>1 DEF FeedInv, FeedTypeOK, Streamed, Counted, GPUState, Asking, Block,
                Entry
<1> QED
  BY <1>1, FeedInvHolds, PTL

\* The rows of the GPU page are always the last blocks of the run up to the
\* stream's position, newest first and without a gap, whichever answers came
\* late, twice or empty, and whether the file is shorter than the opening or
\* longer than the window.
THEOREM WindowHoldsTheRun == Spec => []WindowIsContiguous
<1>1. FeedInv => WindowIsContiguous
  <2> SUFFICES ASSUME FeedInv, gpu.all # <<>>
               PROVE  /\ VerifiedBlocks = IF Shown < Window THEN Shown ELSE Window
                      /\ \A i \in 1 .. Len(gpu.visible) :
                           gpu.visible[i] = gpu.all[Shown + 1 - i]
                      /\ \A i \in 1 .. Len(gpu.visible) :
                           gpu.visible[i] <= LatestSequence
    BY DEF WindowIsContiguous
  <2>1. /\ gpu.all \in Seq(Block) /\ gpu.visible \in Seq(Block)
        /\ gpu.position \in Nat /\ Ascending(gpu.all)
        /\ Len(gpu.visible) = IF Shown < Window THEN Shown ELSE Window
        /\ \A i \in 1 .. Len(gpu.visible) :
             gpu.visible[i] = gpu.all[Shown + 1 - i]
    BY DEF FeedInv, Streamed, GPUState, ShownBy, Shown
  <2>2. Shown \in 0 .. Len(gpu.all) /\ Window \in Nat
    BY <2>1, FeedAssumption DEF Shown
  <2>3. ASSUME NEW i \in 1 .. Len(gpu.visible)
        PROVE  gpu.visible[i] <= LatestSequence
    <3>1. /\ 1 \in 1 .. Len(gpu.visible) /\ gpu.visible # <<>>
          /\ Shown \in 1 .. Len(gpu.all) /\ Shown + 1 - 1 = Shown
          /\ Shown + 1 - i \in 1 .. Len(gpu.all) /\ Shown + 1 - i <= Shown
      BY <2>1, <2>2
    <3>2. LatestSequence = gpu.all[Shown]
      BY <2>1, <3>1 DEF LatestSequence
    <3>3. gpu.all[Shown] \in Nat /\ gpu.all[Shown + 1 - i] \in Nat
      BY <2>1, <3>1 DEF Block
    <3>4. gpu.all[Shown + 1 - i] <= gpu.all[Shown]
      <4>1. CASE Shown + 1 - i = Shown
        BY <4>1, <3>3
      <4>2. CASE Shown + 1 - i < Shown
        <5>1. gpu.all[Shown + 1 - i] < gpu.all[Shown]
          BY <4>2, <2>1, <3>1 DEF Ascending
        <5> QED
          BY <5>1, <3>3
      <4> QED
        BY <3>1, <4>1, <4>2
    <3> QED
      BY <2>1, <3>2, <3>4
  <2> QED
    BY <2>1, <2>3 DEF VerifiedBlocks
<1> QED
  BY <1>1, FeedInvHolds, PTL

\* The numbers of the DA page's table run down without a gap from the figure
\* it shows as its latest block, after one or two fillings and any number of
\* ticks, although addEntry computes them from a value that does not change.
THEOREM NumbersMeet == Spec => []NumbersMeetTheCounter
<1>1. FeedInv => NumbersMeetTheCounter
  BY DEF FeedInv, Counted, NumbersMeetTheCounter, BlockLog, LatestBlock
<1> QED
  BY <1>1, FeedInvHolds, PTL
=============================================================================
