-------------------------- MODULE RecordPathProofs --------------------------
(* Rows that obey the contract survive the cleaning in Spark unchanged, and *)
(* the files of the writer are one log, for every clock, every rotation     *)
(* setting and every order of captured and replayed rows.                   *)
EXTENDS RecordPath, FiniteSetTheorems, WellFoundedInduction, TLAPS

-----------------------------------------------------------------------------
LEMMA MinOfNat ==
  ASSUME NEW S, S \subseteq Nat, S # {}
  PROVE  Min(S) \in S
<1>1. PICK m \in S : \A z \in S : ~(<<z, m>> \in OpToRel(<, Nat))
  BY WFMin, NatLessThanWellFounded
<1>2. \A z \in S : ~(z < m) BY <1>1 DEF OpToRel
<1>3. \A z \in S : m <= z BY <1>2
<1>. QED BY <1>3 DEF Min

(* Contract and cleaning.                                                  *)

LEMMA BetweenTrue ==
  ASSUME NEW x, IsInt(x), NEW low, NEW high, Num(x) \in low..high
  PROVE  Between(x, low, high) = "true"
<1>1. x # Null BY DEF IsInt, Kind, Null
<1>. QED BY <1>1 DEF Between, Holds

LEMMA PortIsClean ==
  ASSUME NEW x, PortOk(x)
  PROVE  /\ PortCondition(SparkInt(x)) = "true"
         /\ SparkInt(x) = IF x = None THEN Null ELSE x
<1>1. CASE x = None
  <2>1. SparkInt(x) = Null BY <1>1 DEF SparkInt, IsInt, Kind, None
  <2>2. \A p : Or("true", p) = "true" BY DEF Or
  <2>3. Holds(SparkInt(x) = Null) = "true" BY <2>1 DEF Holds
  <2>4. PortCondition(SparkInt(x)) = "true" BY <2>2, <2>3, Zenon DEF PortCondition
  <2>. QED BY <1>1, <2>1, <2>4
<1>2. CASE x # None
  <2>1. IsInt(x) /\ Num(x) \in 0..MaxWord BY <1>2, Zenon DEF PortOk
  <2>2. SparkInt(x) = x BY <2>1, Zenon DEF SparkInt
  <2>3. Between(x, 0, MaxWord) = "true" BY <2>1, BetweenTrue, Zenon
  <2>4. \A p : Or(p, "true") = "true" BY DEF Or
  <2>5. PortCondition(SparkInt(x)) = "true" BY <2>2, <2>3, <2>4, Zenon DEF PortCondition
  <2>. QED BY <1>2, <2>2, <2>5, Zenon
<1>. QED BY <1>1, <1>2, Zenon

\* A row of the contract is true for is_valid, and its numbers are read as they are.
LEMMA ContractIsClean ==
  ASSUME NEW row, ValidRow(row)
  PROVE  /\ IsValid(row) = "true"
         /\ SparkInt(row.packet_length) = row.packet_length
         /\ \A p \in {"src_port", "dst_port"} :
              SparkInt(row[p]) = IF row[p] = None THEN Null ELSE row[p]
<1>. DEFINE len == row.packet_length
<1>1. Holds(Kind(row.timestamp) \in {"ms", "s"}) = "true" BY DEF ValidRow, Holds
<1>2. Holds(row.src_ip # None) = "true" /\ Holds(row.dst_ip # None) = "true"
  <2>1. IsAddress(row.src_ip) /\ IsAddress(row.dst_ip) BY DEF ValidRow
  <2>. QED BY <2>1 DEF Holds, IsAddress, Kind, None
<1>3. IsInt(len) /\ Num(len) \in 1..MaxWord BY Zenon DEF ValidRow, LengthOk
<1>4. SparkInt(len) = len BY <1>3, Zenon DEF SparkInt
<1>5. IsInt(len) BY <1>3, Zenon
<1>6. len # Null BY <1>5 DEF IsInt, Kind, Null
<1>7. Between(SparkInt(len), 1, MaxWord) = "true" BY <1>3, <1>4, BetweenTrue, Zenon
<1>8. Holds(SparkInt(len) # Null) = "true" BY <1>4, <1>6 DEF Holds
<1>9. (IF row.protocol = "" THEN "null"
       ELSE Holds(row.protocol \in {"TCP", "UDP", "ICMP", "OTHER"})) = "true"
  BY DEF ValidRow, Holds
<1>10. PortOk(row.src_port) /\ PortOk(row.dst_port) BY DEF ValidRow
<1>11. /\ PortCondition(SparkInt(row.src_port)) = "true"
       /\ PortCondition(SparkInt(row.dst_port)) = "true"
       /\ SparkInt(row.src_port) = IF row.src_port = None THEN Null ELSE row.src_port
       /\ SparkInt(row.dst_port) = IF row.dst_port = None THEN Null ELSE row.dst_port
  BY <1>10, PortIsClean
<1>12. IsValid(row) = And({"true", "true", "true", "true", "true", "true", "true", "true"})
  BY <1>1, <1>2, <1>7, <1>8, <1>9, <1>11, Zenon DEF IsValid
<1>13. IsValid(row) = "true" BY <1>12 DEF And
<1>. QED BY <1>4, <1>11, <1>13

\* A line is a record only if no check of the parser fails, the contract's included.
LEMMA ParsedIsValid ==
  ASSUME NEW line, ParseLine(line) = "RECORD"
  PROVE  ValidRow(RecordOf(line))
<1>1. \A i \in 1..8 : Checks(line)[i][1] # "RECORD"
  <2>1. \A i \in 1..8 : i = 1 \/ i = 2 \/ i = 3 \/ i = 4 \/ i = 5 \/ i = 6 \/ i = 7 \/ i = 8
    OBVIOUS
  <2>. QED BY <2>1 DEF Checks
<1>2. Failing(line) \subseteq 1..8 BY DEF Failing, Checks
<1>3. Failing(line) = {}
  <2>1. SUFFICES ASSUME Failing(line) # {} PROVE FALSE
    OBVIOUS
  <2>2. Min(Failing(line)) \in 1..8
    <3>1. Failing(line) \subseteq Nat BY <1>2
    <3>. QED BY <1>2, <2>1, <3>1, MinOfNat
  <2>3. ParseLine(line) \in {"WRONG_COLUMNS", Checks(line)[Min(Failing(line))][1]}
    BY <2>1, Zenon DEF ParseLine
  <2>. QED BY <1>1, <2>2, <2>3
<1>4. 8 \in DOMAIN Checks(line) /\ Checks(line)[8][2] = ValidRow(RecordOf(line))
  BY DEF Checks
<1>. QED BY <1>3, <1>4 DEF Failing

-----------------------------------------------------------------------------
(* FlattenSeq by its last element.                                         *)

\* f holds the flattened prefixes of s up to n.
FlatPrefix(f, s, n) == f = [i \in 1..n |-> IF i = 1 THEN s[i] ELSE f[i-1] \o s[i]]

LEMMA PrefixValue ==
  ASSUME NEW f, NEW s, NEW n, FlatPrefix(f, s, n), NEW i \in 1..n
  PROVE  f[i] = IF i = 1 THEN s[i] ELSE f[i-1] \o s[i]
<1>. DEFINE v(h) == [j \in 1..n |-> IF j = 1 THEN s[j] ELSE h[j-1] \o s[j]]
<1>1. f = v(f) BY DEF FlatPrefix
<1>2. v(f)[i] = IF i = 1 THEN s[i] ELSE f[i-1] \o s[i] OBVIOUS
<1>. HIDE DEF v
<1>. QED BY <1>1, <1>2

LEMMA PrefixExists ==
  ASSUME NEW s, NEW n \in Nat
  PROVE  \E f : FlatPrefix(f, s, n)
<1>. DEFINE Bad == {m \in Nat : ~ \E f : FlatPrefix(f, s, m)}
<1>1. SUFFICES ASSUME Bad # {} PROVE FALSE
  OBVIOUS
<1>2. PICK m \in Bad : \A z \in Bad : ~(<<z, m>> \in OpToRel(<, Nat))
  BY <1>1, WFMin, NatLessThanWellFounded
<1>3. m \in Nat /\ \A z \in Nat : z < m => \E f : FlatPrefix(f, s, z)
  BY <1>2 DEF OpToRel
<1>4. \E f : FlatPrefix(f, s, m)
  <2>1. CASE m = 0
    <3>1. FlatPrefix([i \in 1..m |-> s[i]], s, m) BY <2>1 DEF FlatPrefix
    <3>. QED BY <3>1
  <2>2. CASE m # 0
    <3>1. m - 1 \in Nat /\ m - 1 < m BY <1>3, <2>2
    <3>2. PICK f : FlatPrefix(f, s, m - 1) BY <1>3, <3>1
    <3>. DEFINE g == [i \in 1..m |-> IF i < m THEN f[i]
                                     ELSE IF i = 1 THEN s[i] ELSE f[i-1] \o s[i]]
    <3>3. \A i \in 1 .. m - 1 : f[i] = IF i = 1 THEN s[i] ELSE f[i-1] \o s[i]
      BY <3>2 DEF FlatPrefix
    <3>4. \A i \in 1..m : g[i] = IF i = 1 THEN s[i] ELSE g[i-1] \o s[i]
      <4>1. \A i \in 1..m : g[i] = IF i < m THEN f[i]
                                   ELSE IF i = 1 THEN s[i] ELSE f[i-1] \o s[i]
        OBVIOUS
      <4>. HIDE DEF g
      <4>2. \A i \in 1..m : i # 1 => g[i-1] = f[i-1] BY <1>3, <4>1
      <4>. QED BY <1>3, <3>3, <4>1, <4>2
    <3>5. g = [i \in 1..m |-> g[i]] OBVIOUS
    <3>. HIDE DEF g
    <3>6. FlatPrefix(g, s, m) BY <3>4, <3>5 DEF FlatPrefix
    <3>. QED BY <3>6
  <2>. QED BY <2>1, <2>2
<1>. QED BY <1>2, <1>4

\* The prefixes of a longer sequence begin with those of the shorter one.
LEMMA PrefixesAgree ==
  ASSUME NEW s, NEW t, NEW n \in Nat, \A i \in 1..n : s[i] = t[i],
         NEW f, FlatPrefix(f, s, n), NEW g, FlatPrefix(g, t, n + 1)
  PROVE  \A i \in 1..n : f[i] = g[i]
<1>. DEFINE Bad == {i \in Nat : i \in 1..n /\ f[i] # g[i]}
<1>1. SUFFICES ASSUME Bad # {} PROVE FALSE
  OBVIOUS
<1>2. PICK j \in Bad : \A z \in Bad : ~(<<z, j>> \in OpToRel(<, Nat))
  BY <1>1, WFMin, NatLessThanWellFounded
<1>3. j \in Nat /\ j \in 1..n /\ f[j] # g[j] OBVIOUS
<1>4. \A z \in 1..n : z < j => f[z] = g[z]
  <2>1. \A z \in Bad : ~(z < j)
    <3>1. Bad \subseteq Nat OBVIOUS
    <3>. HIDE DEF Bad
    <3>. QED BY <1>2, <1>3, <3>1 DEF OpToRel
  <2>. QED BY <2>1
<1>5. /\ f[j] = IF j = 1 THEN s[j] ELSE f[j-1] \o s[j]
      /\ g[j] = IF j = 1 THEN t[j] ELSE g[j-1] \o t[j]
  <2>1. j \in 1..n /\ j \in 1 .. n + 1 BY <1>3
  <2>. HIDE DEF Bad
  <2>. QED BY <2>1, PrefixValue
<1>6. s[j] = t[j] BY <1>3
<1>7. j # 1 => f[j-1] = g[j-1] BY <1>3, <1>4
<1>. QED BY <1>3, <1>5, <1>6, <1>7

LEMMA FlattenIsPrefix ==
  ASSUME NEW s, Len(s) \in Nat \ {0}
  PROVE  \E f : FlatPrefix(f, s, Len(s)) /\ FlattenSeq(s) = f[Len(s)]
<1>. DEFINE n == Len(s)
            f == CHOOSE h : h = [i \in 1..n |-> IF i = 1 THEN s[i] ELSE h[i-1] \o s[i]]
<1>1. FlatPrefix(f, s, n)
  <2>1. \E h : h = [i \in 1..n |-> IF i = 1 THEN s[i] ELSE h[i-1] \o s[i]]
    BY PrefixExists DEF FlatPrefix
  <2>2. f = [i \in 1..n |-> IF i = 1 THEN s[i] ELSE f[i-1] \o s[i]] BY <2>1
  <2>. QED BY <2>2 DEF FlatPrefix
<1>2. FlattenSeq(s) = f[n] BY DEF FlattenSeq
<1>. QED BY <1>1, <1>2

LEMMA PrefixTyped ==
  ASSUME NEW T, NEW s \in Seq(Seq(T)), NEW n \in Nat, n <= Len(s), NEW f, FlatPrefix(f, s, n)
  PROVE  \A i \in 1..n : f[i] \in Seq(T)
<1>. DEFINE Bad == {i \in Nat : i \in 1..n /\ f[i] \notin Seq(T)}
<1>1. SUFFICES ASSUME Bad # {} PROVE FALSE
  OBVIOUS
<1>2. PICK j \in Bad : \A z \in Bad : ~(<<z, j>> \in OpToRel(<, Nat))
  BY <1>1, WFMin, NatLessThanWellFounded
<1>3. j \in Nat /\ j \in 1..n /\ f[j] \notin Seq(T) OBVIOUS
<1>4. \A z \in 1..n : z < j => f[z] \in Seq(T)
  <2>1. \A z \in Bad : ~(z < j)
    <3>1. Bad \subseteq Nat OBVIOUS
    <3>. HIDE DEF Bad
    <3>. QED BY <1>2, <1>3, <3>1 DEF OpToRel
  <2>. QED BY <2>1
<1>5. f[j] = IF j = 1 THEN s[j] ELSE f[j-1] \o s[j]
  <2>1. j \in 1..n BY <1>3
  <2>. HIDE DEF Bad
  <2>. QED BY <2>1, PrefixValue
<1>6. s[j] \in Seq(T) BY <1>3
<1>7. j # 1 => f[j-1] \in Seq(T) BY <1>3, <1>4
<1>. QED BY <1>3, <1>5, <1>6, <1>7

LEMMA FlattenStep ==
  ASSUME NEW s, NEW t, NEW n \in Nat \ {0}, Len(s) = n, Len(t) = n + 1,
         \A i \in 1..n : s[i] = t[i]
  PROVE  FlattenSeq(t) = FlattenSeq(s) \o t[n + 1]
<1>1. PICK f : FlatPrefix(f, s, n) /\ FlattenSeq(s) = f[n] BY FlattenIsPrefix
<1>2. PICK g : FlatPrefix(g, t, n + 1) /\ FlattenSeq(t) = g[n + 1]
  <2>1. n + 1 \in Nat \ {0} OBVIOUS
  <2>. QED BY <2>1, FlattenIsPrefix
<1>3. \A i \in 1..n : f[i] = g[i] BY <1>1, <1>2, PrefixesAgree
<1>4. n \in 1..n /\ n + 1 \in 1 .. n + 1 /\ n + 1 # 1 /\ (n + 1) - 1 = n OBVIOUS
<1>5. g[n + 1] = IF n + 1 = 1 THEN t[n + 1] ELSE g[(n + 1) - 1] \o t[n + 1]
  <2>1. \A i \in 1 .. n + 1 : g[i] = IF i = 1 THEN t[i] ELSE g[i-1] \o t[i]
    BY <1>2, PrefixValue
  <2>. QED BY <1>4, <2>1
<1>. QED BY <1>1, <1>2, <1>3, <1>4, <1>5

LEMMA FlattenAppend ==
  ASSUME NEW T, NEW s \in Seq(Seq(T)), NEW x \in Seq(T)
  PROVE  /\ FlattenSeq(s) \in Seq(T)
         /\ FlattenSeq(Append(s, x)) = FlattenSeq(s) \o x
<1>. DEFINE t == Append(s, x)
            n == Len(s)
<1>1. /\ n \in Nat /\ Len(t) = n + 1 /\ t[n + 1] = x
      /\ \A i \in 1..n : s[i] = t[i]
  OBVIOUS
<1>. SUFFICES FlattenSeq(s) \in Seq(T) /\ FlattenSeq(t) = FlattenSeq(s) \o x
  BY Zenon
<1>. HIDE DEF t
<1>2. CASE n = 0
  <2>1. s = <<>> BY <1>2
  <2>2. FlattenSeq(s) = s
    <3>1. Len(s) = 0 BY <1>2
    <3>. QED BY <3>1, Zenon DEF FlattenSeq
  <2>3. FlattenSeq(t) = x
    <3>1. PICK g : FlatPrefix(g, t, n + 1) /\ FlattenSeq(t) = g[n + 1]
      BY <1>1, FlattenIsPrefix
    <3>2. n + 1 = 1 /\ n + 1 \in 1 .. n + 1 BY <1>2
    <3>3. g[n + 1] = t[n + 1] BY <3>1, <3>2, PrefixValue
    <3>. QED BY <1>1, <3>1, <3>3
  <2>4. s \o x = x /\ s \in Seq(T) BY <2>1
  <2>. QED BY <2>2, <2>3, <2>4, Zenon
<1>3. CASE n # 0
  <2>1. n \in Nat \ {0} /\ n <= n /\ n \in 1..n BY <1>1, <1>3
  <2>2. FlattenSeq(s) \in Seq(T)
    <3>1. PICK f : FlatPrefix(f, s, n) /\ FlattenSeq(s) = f[n] BY <2>1, FlattenIsPrefix
    <3>2. f[n] \in Seq(T) BY <1>1, <2>1, <3>1, PrefixTyped
    <3>. QED BY <3>1, <3>2
  <2>3. FlattenSeq(t) = FlattenSeq(s) \o t[n + 1] BY <1>1, <2>1, FlattenStep
  <2>. QED BY <1>1, <2>2, <2>3
<1>. QED BY <1>1, <1>2, <1>3

-----------------------------------------------------------------------------
(* The writer.                                                             *)

Parsed == {RecordOf(line) : line \in {l \in Lines : ParseLine(l) = "RECORD"}}

AllRows ==
  Parsed \union ReplayRows
    \union {Restamped(row, now, gap) : row \in ReplayRows, now \in 0..MaxClock, gap \in Gaps}

Contents == [i \in DOMAIN opened |-> files[opened[i]]]

\* The files are those that were opened, each opened once; the last of them is the one that
\* is open, if any is.
FilesOpened ==
  /\ clock \in 0..MaxClock
  /\ IsFiniteSet(DOMAIN files) /\ \A n \in DOMAIN files : files[n] \in Seq(AllRows)
  /\ opened \in Seq(DOMAIN files)
  /\ \A i, j \in DOMAIN opened : opened[i] = opened[j] => i = j
  /\ open # NoFile => opened # <<>> /\ open = opened[Len(opened)]

\* However many files of one second there are, the next number is found.
LEMMA NewNameFree ==
  ASSUME NEW now, IsFiniteSet(DOMAIN files)
  PROVE  NewName(now) \notin DOMAIN files
<1>. DEFINE second == now \div TicksPerSecond
            D == DOMAIN files
            c == Cardinality(D)
            free == {n \in 0..c : <<second, n>> \notin D}
<1>1. c \in Nat BY FS_CardinalityType
<1>2. free # {}
  <2>1. SUFFICES ASSUME \A n \in 0..c : <<second, n>> \in D PROVE FALSE
    OBVIOUS
  <2>. DEFINE f == [n \in 0..c |-> <<second, n>>]
  <2>2. f \in Injection(0..c, D)
    <3>. HIDE DEF second, D, c
    <3>1. f \in [0..c -> D] BY <2>1
    <3>2. \A m, n \in 0..c : f[m] = f[n] => m = n OBVIOUS
    <3>3. DOMAIN f = 0..c OBVIOUS
    <3>. HIDE DEF f
    <3>. QED BY <3>1, <3>2, <3>3 DEF Injection, IsInjective
  <2>. HIDE DEF f, second
  <2>3. Cardinality(0..c) <= c
    <3>1. IsFiniteSet(D) OBVIOUS
    <3>. HIDE DEF D
    <3>. QED BY <2>2, <3>1, FS_Injection
  <2>4. Cardinality(0..c) = c + 1
    <3>. HIDE DEF c
    <3>1. Cardinality(0..c) = IF 0 > c THEN 0 ELSE c - 0 + 1 BY <1>1, FS_Interval
    <3>. QED BY <1>1, <3>1
  <2>. HIDE DEF c
  <2>. QED BY <1>1, <2>3, <2>4
<1>3. NewName(now) = <<second, Min(free)>> BY DEF NewName
<1>4. Min(free) \in free
  <2>1. free \subseteq Nat OBVIOUS
  <2>. HIDE DEF free
  <2>. QED BY <1>2, <2>1, MinOfNat
<1>. QED BY <1>3, <1>4


LEMMA ContentsTyped ==
  ASSUME FilesOpened
  PROVE  /\ Contents \in Seq(Seq(AllRows)) /\ Len(Contents) = Len(opened)
         /\ Written = FlattenSeq(Contents) /\ Written \in Seq(AllRows)
<1>1. Len(opened) \in Nat /\ DOMAIN opened = 1..Len(opened)
      /\ \A i \in 1..Len(opened) : opened[i] \in DOMAIN files
  BY DEF FilesOpened
<1>2. Contents = [i \in 1..Len(opened) |-> files[opened[i]]]
  BY <1>1, Zenon DEF Contents
<1>3. \A i \in 1..Len(opened) : files[opened[i]] \in Seq(AllRows)
  BY <1>1 DEF FilesOpened
<1>4. Contents \in Seq(Seq(AllRows)) /\ Len(Contents) = Len(opened) BY <1>1, <1>2, <1>3
<1>5. Written = FlattenSeq(Contents) BY Zenon DEF Written, Contents
<1>6. FlattenSeq(Contents) \in Seq(AllRows) BY <1>4, FlattenAppend
<1>. QED BY <1>4, <1>5, <1>6

\* A row that is written is the last of the log, whether a file is opened for it or not.
LEMMA WriteAppends ==
  ASSUME FilesOpened, NEW row \in AllRows, Write(row), UNCHANGED clock
  PROVE  FilesOpened' /\ Written \in Seq(AllRows) /\ Written' = Append(Written, row)
<1>. DEFINE k == Len(opened)
            old == Contents
            new == Contents'
<1>1. /\ k \in Nat /\ DOMAIN opened = 1..k
      /\ \A i \in 1..k : opened[i] \in DOMAIN files
      /\ \A n \in DOMAIN files : files[n] \in Seq(AllRows)
  BY DEF FilesOpened
<1>2. /\ old \in Seq(Seq(AllRows)) /\ Len(old) = k
      /\ \A i \in 1..k : old[i] = files[opened[i]]
  BY <1>1, ContentsTyped DEF Contents
<1>3. Written = FlattenSeq(old) /\ Written \in Seq(AllRows) BY ContentsTyped
<1>4. Written' = FlattenSeq(new) BY DEF Written, Contents
<1>5. CASE ShouldRotate
  <2>. DEFINE name == NewName(clock)
  <2>1. name \notin DOMAIN files BY NewNameFree DEF FilesOpened
  <2>2. /\ files' = Appended(name, row) /\ open' = name /\ opened' = Append(opened, name)
    BY <1>5 DEF Write
  <2>. HIDE DEF name
  <2>3. /\ DOMAIN files' = DOMAIN files \union {name}
        /\ files'[name] = <<row>>
        /\ \A n \in DOMAIN files : files'[n] = files[n]
    BY <2>1, <2>2 DEF Appended, RowsIn
  <2>4. /\ opened \in Seq(DOMAIN files)
        /\ \A i, j \in 1..k : opened[i] = opened[j] => i = j
    BY <1>1 DEF FilesOpened
  <2>5. /\ DOMAIN opened' = 1 .. k + 1 /\ Len(opened') = k + 1
        /\ opened' \in Seq(DOMAIN files')
        /\ opened'[k + 1] = name /\ \A i \in 1..k : opened'[i] = opened[i]
    <3>1. opened \in Seq(DOMAIN files') /\ name \in DOMAIN files' BY <2>3, <2>4
    <3>. QED BY <2>2, <3>1
  <2>6. FilesOpened'
    <3>1. clock' \in 0..MaxClock BY DEF FilesOpened
    <3>2. IsFiniteSet(DOMAIN files') BY <2>3, FS_AddElement DEF FilesOpened
    <3>3. \A n \in DOMAIN files' : files'[n] \in Seq(AllRows)
      <4>1. <<row>> \in Seq(AllRows) OBVIOUS
      <4>2. \A n \in DOMAIN files : files'[n] \in Seq(AllRows) BY <1>1, <2>3
      <4>. QED BY <2>3, <4>1, <4>2
    <3>4. \A i, j \in 1 .. k + 1 : opened'[i] = opened'[j] => i = j
      <4>1. \A i \in 1 .. k + 1 : i = k + 1 \/ i \in 1..k BY <1>1
      <4>. QED BY <1>1, <2>1, <2>4, <2>5, <4>1
    <3>5. opened' # <<>> /\ open' = opened'[Len(opened')] BY <1>1, <2>2, <2>5
    <3>. QED BY <2>5, <3>1, <3>2, <3>3, <3>4, <3>5 DEF FilesOpened
  <2>7. new = Append(old, <<row>>)
    <3>1. new = [i \in 1 .. k + 1 |-> files'[opened'[i]]] BY <2>5, Zenon DEF Contents
    <3>2. \A i \in 1..k : files'[opened'[i]] = old[i] BY <1>1, <1>2, <2>3, <2>5
    <3>3. files'[opened'[k + 1]] = <<row>> BY <2>3, <2>5
    <3>4. old \in Seq(Seq(AllRows)) /\ Len(old) = k BY <1>2
    <3>. HIDE DEF new, old, k
    <3>5. new = [i \in 1 .. k + 1 |-> IF i = k + 1 THEN <<row>> ELSE old[i]]
      <4>1. \A i \in 1 .. k + 1 : i = k + 1 \/ i \in 1..k BY <1>1
      <4>. QED BY <3>1, <3>2, <3>3, <4>1
    <3>. QED BY <1>1, <3>4, <3>5
  <2>8. <<row>> \in Seq(AllRows) OBVIOUS
  <2>9. FlattenSeq(new) = FlattenSeq(old) \o <<row>>
    <3>. HIDE DEF old, new
    <3>. QED BY <1>2, <2>7, <2>8, FlattenAppend
  <2>10. Written' = Append(Written, row)
    <3>1. Written' = Written \o <<row>> BY <1>3, <1>4, <2>9, Zenon
    <3>. QED BY <1>3, <3>1
  <2>. QED BY <1>3, <2>6, <2>10
<1>6. CASE ~ShouldRotate
  <2>1. open # NoFile BY <1>6 DEF ShouldRotate
  <2>2. k \in 1..k /\ k - 1 \in Nat /\ open = opened[k] /\ open \in DOMAIN files
    <3>1. opened # <<>> /\ open = opened[k] BY <2>1 DEF FilesOpened
    <3>2. k # 0 BY <3>1 DEF FilesOpened
    <3>. QED BY <1>1, <3>1, <3>2
  <2>3. files' = Appended(open, row) /\ open' = open /\ opened' = opened
    BY <1>6 DEF Write
  <2>4. /\ DOMAIN files' = DOMAIN files
        /\ files'[open] = Append(files[open], row)
        /\ \A n \in DOMAIN files : n # open => files'[n] = files[n]
    BY <2>2, <2>3 DEF Appended, RowsIn
  <2>5. FilesOpened'
    <3>1. Append(files[open], row) \in Seq(AllRows) BY <1>1, <2>2
    <3>2. \A n \in DOMAIN files' : files'[n] \in Seq(AllRows) BY <1>1, <2>4, <3>1
    <3>. QED BY <2>3, <2>4, <3>2 DEF FilesOpened
  <2>. DEFINE front == [i \in 1 .. k - 1 |-> files[opened[i]]]
              x == files[open]
  <2>6. x \in Seq(AllRows) /\ Append(x, row) \in Seq(AllRows) BY <1>1, <2>2
  <2>7. front \in Seq(Seq(AllRows))
    <3>1. \A i \in 1 .. k - 1 : files[opened[i]] \in Seq(AllRows) BY <1>1, <2>2
    <3>. QED BY <2>2, <3>1
  <2>8. old = Append(front, x)
    <3>1. old = [i \in 1..k |-> files[opened[i]]] BY <1>1, Zenon DEF Contents
    <3>2. files[opened[k]] = x BY <2>2
    <3>. HIDE DEF old, k
    <3>. QED BY <1>1, <2>2, <3>1, <3>2
  <2>9. new = Append(front, Append(x, row))
    <3>1. new = [i \in 1..k |-> files'[opened[i]]] BY <1>1, <2>3, Zenon DEF Contents
    <3>2. files'[opened[k]] = Append(x, row) BY <2>2, <2>4
    <3>3. \A i \in 1 .. k - 1 : files'[opened[i]] = files[opened[i]]
      <4>1. \A i \in 1 .. k - 1 : i \in DOMAIN opened /\ i # k
        <5>1. k \in Nat /\ DOMAIN opened = 1..k BY <1>1
        <5>. HIDE DEF k
        <5>. QED BY <5>1
      <4>2. \A i \in 1 .. k - 1 : opened[i] # open BY <1>1, <2>2, <4>1 DEF FilesOpened
      <4>. QED BY <1>1, <2>4, <4>1, <4>2
    <3>. HIDE DEF new, k
    <3>. QED BY <1>1, <2>2, <3>1, <3>2, <3>3
  <2>10. /\ FlattenSeq(front) \in Seq(AllRows)
         /\ FlattenSeq(old) = FlattenSeq(front) \o x
         /\ FlattenSeq(new) = FlattenSeq(front) \o Append(x, row)
    <3>. HIDE DEF front, x, old, new
    <3>. QED BY <2>6, <2>7, <2>8, <2>9, FlattenAppend
  <2>11. FlattenSeq(front) \o Append(x, row) = Append(FlattenSeq(front) \o x, row)
    <3>. HIDE DEF front, x
    <3>. QED BY <2>6, <2>10
  <2>12. Written' = Append(Written, row) BY <1>3, <1>4, <2>10, <2>11, Zenon
  <2>. QED BY <1>3, <2>5, <2>12
<1>. QED BY <1>5, <1>6

-----------------------------------------------------------------------------
LEMMA FilesOpenedInit == Init => FilesOpened
<1>. SUFFICES ASSUME Init PROVE FilesOpened
  OBVIOUS
<1>1. DOMAIN files = {} BY DEF Init
<1>2. IsFiniteSet(DOMAIN files) BY <1>1, FS_EmptySet
<1>. QED BY <1>1, <1>2 DEF Init, FilesOpened

\* What a step of the system does to the log.
LEMMA StepOfLog ==
  ASSUME FilesOpened, [Next]_vars
  PROVE  /\ FilesOpened'
         /\ \/ Written' = Written
            \/ \E row \in AllRows : Written \in Seq(AllRows) /\ Written' = Append(Written, row)
<1>1. ASSUME UNCHANGED <<files, opened>>
      PROVE  Written' = Written
  BY <1>1 DEF Written
<1>2. ASSUME NEW line \in Lines, Capture(line)
      PROVE  /\ FilesOpened'
             /\ \/ Written' = Written
                \/ \E row \in AllRows : Written \in Seq(AllRows) /\ Written' = Append(Written, row)
  <2>1. CASE ParseLine(line) = "RECORD"
    <3>1. RecordOf(line) \in AllRows BY <2>1 DEF AllRows, Parsed
    <3>2. Write(RecordOf(line)) /\ UNCHANGED clock BY <1>2, <2>1 DEF Capture
    <3>. QED BY <3>1, <3>2, WriteAppends
  <2>2. CASE ParseLine(line) # "RECORD"
    <3>1. UNCHANGED <<clock, files, open, opened>> BY <1>2, <2>2 DEF Capture
    <3>. QED BY <1>1, <3>1 DEF FilesOpened
  <2>. QED BY <2>1, <2>2
<1>3. ASSUME NEW row \in ReplayRows, Replay(row)
      PROVE  /\ FilesOpened'
             /\ \E new \in AllRows : Written \in Seq(AllRows) /\ Written' = Append(Written, new)
  <2>1. UNCHANGED clock BY <1>3 DEF Replay
  <2>2. PICK new : Write(new) /\ (new = row \/ \E gap \in Gaps : new = Restamped(row, clock, gap))
    BY <1>3, Zenon DEF Replay
  <2>3. new \in AllRows
    <3>1. clock \in 0..MaxClock BY DEF FilesOpened
    <3>2. \A gap \in Gaps : Restamped(row, clock, gap) \in AllRows BY <3>1 DEF AllRows
    <3>3. row \in AllRows BY DEF AllRows
    <3>. QED BY <2>2, <3>2, <3>3, Zenon
  <2>. QED BY <2>1, <2>2, <2>3, WriteAppends
<1>4. ASSUME Close
      PROVE  FilesOpened' /\ Written' = Written
  BY <1>1, <1>4 DEF Close, FilesOpened
<1>5. ASSUME Tick
      PROVE  FilesOpened' /\ Written' = Written
  BY <1>1, <1>5 DEF Tick, FilesOpened
<1>6. ASSUME UNCHANGED vars
      PROVE  FilesOpened' /\ Written' = Written
  BY <1>1, <1>6 DEF vars, FilesOpened
<1>. QED BY <1>2, <1>3, <1>4, <1>5, <1>6, Zenon DEF Next

\* FilesAreOneLog: with every rotation setting, however the clock is set back and however
\* often the writer is closed and opened, a step leaves the files in the order they were
\* opened (CsvRotatingWriter of capture/writers.py) as they are or adds one row at the end.
THEOREM OneLog == Spec => FilesAreOneLog
<1>1. ASSUME FilesOpened, [Next]_vars
      PROVE  [Written' = Written \/ (Written' # <<>> /\ Front(Written') = Written)]_vars
  <2>1. ASSUME NEW row \in AllRows, Written \in Seq(AllRows), Written' = Append(Written, row)
        PROVE  Written' # <<>> /\ Front(Written') = Written
    <3>. DEFINE W == Written
    <3>1. W \in Seq(AllRows) BY <2>1
    <3>. HIDE DEF W
    <3>2. Append(W, row) # <<>> /\ Front(Append(W, row)) = W BY <3>1 DEF Front
    <3>. QED BY <2>1, <3>2 DEF W
  <2>. QED BY <1>1, <2>1, StepOfLog
<1>2. FilesOpened /\ [Next]_vars => FilesOpened' BY StepOfLog
<1>. QED BY <1>1, <1>2, FilesOpenedInit, PTL DEF Spec, FilesAreOneLog

\* ContractRowsAreClean: what the parser (capture/parser.py) lets through obeys the contract
\* (contracts/record_schema.py), and a row in the files that obeys it is kept by split_valid
\* (streaming/common/cleaning.py) with its length and ports as they were written.
THEOREM CleanRows == Spec => []ContractRowsAreClean
<1>. DEFINE CapturedValid == \A row \in captured : ValidRow(row)
<1>1. Init => CapturedValid BY DEF Init
<1>2. CapturedValid /\ [Next]_vars => CapturedValid'
  <2>. SUFFICES ASSUME CapturedValid, [Next]_vars PROVE CapturedValid'
    OBVIOUS
  <2>1. ASSUME NEW line \in Lines, Capture(line) PROVE CapturedValid'
    <3>1. CASE ParseLine(line) = "RECORD"
      <4>1. captured' = captured \union {RecordOf(line)} BY <2>1, <3>1 DEF Capture
      <4>. QED BY <3>1, <4>1, ParsedIsValid
    <3>2. CASE ParseLine(line) # "RECORD"
      <4>1. UNCHANGED captured BY <2>1, <3>2 DEF Capture
      <4>. QED BY <4>1
    <3>. QED BY <3>1, <3>2
  <2>2. ASSUME UNCHANGED captured PROVE CapturedValid'
    BY <2>2
  <2>3. ASSUME NEW row \in ReplayRows, Replay(row) PROVE UNCHANGED captured
    BY <2>3 DEF Replay
  <2>4. (Close \/ Tick \/ UNCHANGED vars) => UNCHANGED captured BY DEF Close, Tick, vars
  <2>. HIDE DEF CapturedValid
  <2>. QED BY <2>1, <2>2, <2>3, <2>4, Zenon DEF Next
<1>3. CapturedValid => ContractRowsAreClean
  <2>. SUFFICES ASSUME CapturedValid, NEW row \in ToSet(Written), ValidRow(row)
       PROVE  /\ row \in SplitValid(ToSet(Written))[1]
              /\ SparkInt(row.packet_length) = row.packet_length
              /\ \A p \in {"src_port", "dst_port"} :
                   SparkInt(row[p]) = IF row[p] = None THEN Null ELSE row[p]
    BY Zenon DEF ContractRowsAreClean
  <2>1. row \in SplitValid(ToSet(Written))[1] BY ContractIsClean DEF SplitValid
  <2>. QED BY <2>1, ContractIsClean, Zenon
<1>. HIDE DEF CapturedValid
<1>. QED BY <1>1, <1>2, <1>3, PTL DEF Spec
=============================================================================
