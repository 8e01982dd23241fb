--------------------------- MODULE PacketPagesProofs ---------------------------
(***************************************************************************)
(* Proofs about PacketPages, for any packets, rules, pages and bounds.     *)
(*                                                                         *)
(* SqlAgreesWithMatcher follows from BaseInv, the types of the state, and  *)
(* SameRule, which is about one row and one rule.                          *)
(* The other properties are about places: Place(x) is the number of rows   *)
(* that are read before x, RefPlace(id) the number of rows that come       *)
(* before that of id in the answer.  A chunk is known by the places of its *)
(* rows, and a row that is only added behind all others moves none of      *)
(* them.                                                                   *)
(*   ApartInv   what was collected was read before what is read now:       *)
(*              NoRowTwice                                                 *)
(*   ExportInv  what is due was collected or is still to be read, with     *)
(*              StartInv (what was stored when the query began) and        *)
(*              RankInv (rows have the risk of their flow):                *)
(*              ExportIsComplete                                           *)
(*   ScanInv    the scan has counted and cut out what it has read, and     *)
(*              AnswerInv, every path shows a page of what was there at    *)
(*              some time since the query began, on the page that PageInv  *)
(*              says: AnswerExact and OldestFirstIsStable                  *)
(***************************************************************************)
EXTENDS PacketPages, FiniteSetTheorems, SequenceTheorems, TLAPS

-------------------------------------------------------------------------------
(* One row and one rule *)

\* A packet with the id SQL gives it: what the proofs need of its columns
TextColumns == {"src_ip", "dst_ip", "process", "source", "proto"}
NumberColumns == {"src_port", "dst_port", "length", "id"}
IsRow(row) ==
  /\ \A c \in TextColumns : c \in DOMAIN row /\ row[c] \in Texts
  /\ \A c \in NumberColumns : c \in DOMAIN row /\ row[c] \in Numbers
  /\ row.proto.capitals

\* What a row has in the columns of a field that SQL knows
LEMMA ColumnsOf ==
  ASSUME NEW row, IsRow(row), NEW field
  PROVE  /\ field \in NumberFields => Values(row, field) \subseteq Numbers
         /\ field \in TextFields => Values(row, field) \subseteq Texts
         /\ field = "proto" => Values(row, field) = {row.proto}
<1>1. Columns(field) =
        IF field = "ip" THEN {"src_ip", "dst_ip"}
        ELSE IF field = "port" THEN {"src_port", "dst_port"} ELSE {field}
  BY DEF Columns
<1>2. field \in NumberFields => Columns(field) \subseteq NumberColumns
  BY <1>1 DEF NumberFields, NumberColumns
<1>3. field \in TextFields => Columns(field) \subseteq TextColumns
  BY <1>1 DEF TextFields, TextColumns
<1>4. Values(row, field) =
        {IF c \in DOMAIN row THEN row[c] ELSE Empty : c \in Columns(field)}
  BY DEF Values
<1>5. field = "proto" => Values(row, field) = {row.proto}
  BY <1>1, <1>4 DEF IsRow, TextColumns
<1> QED
  BY <1>2, <1>3, <1>4, <1>5 DEF IsRow

\* A value is a text or a number, never both.
LEMMA KindOf ==
  /\ \A v \in Texts : ~IsNumber(v)
  /\ \A v \in Numbers : IsNumber(v)
BY DEF Texts, Numbers, IsNumber

\* What coerce_value makes of the literal of a comparison
LEMMA LiteralOf ==
  ASSUME NEW term \in Terms, term.is = "compare"
  PROVE  /\ term.op \in Operators
         /\ IF IsNumber(term.literal) THEN term.literal \in Numbers ELSE term.literal \in Texts
         /\ term.field \in NumberFields => SqlLiteral(term) = Truncated(term.literal)
         /\ term.field \notin NumberFields =>
              SqlLiteral(term) = IF term.field = "proto" /\ ~IsNumber(term.literal)
                                 THEN Upper(term.literal) ELSE term.literal
<1>1. term.op \in Operators /\ (term.literal \in Numbers \/ term.literal \in Texts)
  BY DEF Terms
<1> QED
  BY <1>1, KindOf DEF SqlLiteral

\* A whole number is not changed by int().
LEMMA WholeLiteral ==
  ASSUME NEW n \in Numbers, n.halves % 2 = 0
  PROVE  Truncated(n).halves = n.halves
<1>1. n.halves \in Int
  BY DEF Numbers
<1> DEFINE h == n.halves
<1> HIDE DEF h
<1>2. h \in Int /\ h % 2 = 0 => 2 * (IF h < 0 THEN -((-h) \div 2) ELSE h \div 2) = h
  OBVIOUS
<1> QED
  BY <1>1, <1>2 DEF h, Truncated, Number

\* A protocol is stored in capitals: raising the literal compares like lowering both.
LEMMA SameText ==
  ASSUME NEW v \in Texts, NEW w \in Texts
  PROVE  /\ v.capitals => (v = Upper(w) <=> Lower(v) = Lower(w))
         /\ v = w => Lower(v) = Lower(w)
         /\ Lower(v) = Lower(w) <=> v.word = w.word
         /\ ~v.capitals => Lower(v) = v
BY DEF Texts, Upper, Lower

\* SQL and matcher agree on a term that is compiled, field by field and kind by kind.
LEMMA SameTerm ==
  ASSUME NEW row, IsRow(row), NEW term \in Terms, NEW inDuck \in BOOLEAN,
         TermInSql(term), SpeltAlike(row, term, inDuck)
  PROVE  /\ MatchTerm(row, term) \in BOOLEAN
         /\ SqlTerm(row, term, inDuck) <=> MatchTerm(row, term)
<1>1. CASE term.is = "proto"
  <2>1. term.literal \in Texts /\ row.proto \in Texts /\ row.proto.capitals
    BY <1>1 DEF Terms, IsRow, TextColumns
  <2>2. /\ MatchTerm(row, term) <=> Lower(row.proto) = Lower(term.literal)
        /\ MatchTerm(row, term) \in BOOLEAN
    BY <1>1 DEF MatchTerm
  <2>3. SqlTerm(row, term, inDuck) <=> row.proto = Upper(term.literal)
    BY <1>1 DEF SqlTerm
  <2> QED
    BY <2>1, <2>2, <2>3, SameText
<1>2. CASE term.is = "contains"
  <2>1. term.field \in TextFields
    BY <1>2 DEF TermInSql, TextFields
  <2>2. \A v \in Values(row, term.field) : ~IsNumber(v)
    BY <2>1, ColumnsOf, KindOf
  <2>3. \A v \in Values(row, term.field) :
          /\ <<term.literal.word, v.word>> \notin Wild
          /\ inDuck /\ Mentioned(v, term.literal) => v.capitals = term.literal.capitals
    BY <1>2 DEF SpeltAlike
  <2>4. /\ MatchTerm(row, term) <=>
             \E v \in Values(row, term.field) : Mentioned(v, term.literal)
        /\ MatchTerm(row, term) \in BOOLEAN
    BY <1>2 DEF MatchTerm
  <2>5. SqlTerm(row, term, inDuck) <=>
          \E v \in Values(row, term.field) : Like(v, term.literal, inDuck)
    BY <1>2 DEF SqlTerm
  <2>6. \A v \in Values(row, term.field) :
          Like(v, term.literal, inDuck) <=> Mentioned(v, term.literal)
    BY <2>2, <2>3 DEF Like, Mentioned
  <2> QED
    BY <2>4, <2>5, <2>6
<1>3. CASE term.is = "compare"
  <2> DEFINE values == Values(row, term.field)
  <2>1. /\ term.op # "!="
        /\ \/ term.field \in NumberFields /\ IsNumber(term.literal)
           \/ term.field \in TextFields
    BY <1>3 DEF TermInSql
  <2>2. /\ MatchTerm(row, term) <=>
             \E v \in values : Satisfies(v, term.op, term.literal)
        /\ MatchTerm(row, term) \in BOOLEAN
    BY <1>3, <2>1 DEF MatchTerm
  <2>3. SqlTerm(row, term, inDuck) <=>
          \E v \in values : IF term.field \in NumberFields
                            THEN Compare(v.halves, term.op, SqlLiteral(term).halves)
                            ELSE TextCompare(v, term.op, SqlLiteral(term))
    BY <1>3 DEF SqlTerm
  <2>4. /\ term.field \in NumberFields => term.literal.halves % 2 = 0
        /\ term.field \in TextFields /\ term.op # "==" =>
             /\ ~IsNumber(term.literal) /\ term.field # "proto"
             /\ \A text \in values \cup {term.literal} : ~text.capitals
        /\ term.field \in TextFields \ {"proto"} /\ ~IsNumber(term.literal) =>
             \A v \in values : Lower(v) = Lower(term.literal) => v = term.literal
    BY <1>3 DEF SpeltAlike
  <2> HIDE DEF values
  <2>5. CASE term.field \in NumberFields
    <3>1. term.field \notin TextFields
      BY <2>5 DEF NumberFields, TextFields
    <3>2. IsNumber(term.literal) /\ term.literal \in Numbers
      BY <1>3, <2>1, <3>1, LiteralOf
    <3>3. SqlLiteral(term).halves = term.literal.halves
      BY <1>3, <2>4, <2>5, <3>2, LiteralOf, WholeLiteral
    <3>4. \A v \in values : IsNumber(v)
      BY <2>5, ColumnsOf, KindOf DEF values
    <3>5. \A v \in values : Satisfies(v, term.op, term.literal) <=>
                            Compare(v.halves, term.op, term.literal.halves)
      BY <3>2, <3>4 DEF Satisfies
    <3> QED
      BY <2>2, <2>3, <2>5, <3>3, <3>5
  <2>6. CASE term.field \notin NumberFields
    <3>1. /\ \A v \in values : v \in Texts /\ ~IsNumber(v)
          /\ term.field \in TextFields /\ term.op \in Operators
      BY <1>3, <2>1, <2>6, ColumnsOf, KindOf, LiteralOf DEF values
    <3>2. CASE IsNumber(term.literal)
      <4>1. \A v \in values : ~Satisfies(v, term.op, term.literal)
        BY <3>1, <3>2 DEF Satisfies
      <4>2. term.op = "==" /\ SqlLiteral(term) = term.literal
        BY <1>3, <2>4, <2>6, <3>1, <3>2, LiteralOf
      <4>3. \A v \in values : ~TextCompare(v, term.op, SqlLiteral(term))
        BY <3>1, <3>2, <4>2 DEF TextCompare
      <4> QED
        BY <2>2, <2>3, <2>6, <4>1, <4>3
    <3>3. CASE ~IsNumber(term.literal)
      <4>1. /\ term.literal \in Texts
            /\ SqlLiteral(term) = IF term.field = "proto" THEN Upper(term.literal)
                                        ELSE term.literal
        BY <1>3, <2>6, <3>3, LiteralOf
      <4>2. \A v \in values : Satisfies(v, term.op, term.literal) <=>
                              TextCompare(Lower(v), term.op, Lower(term.literal))
        BY <3>1, <3>3, <4>1 DEF Satisfies
      <4>3. ASSUME NEW v \in values
            PROVE  TextCompare(v, term.op, SqlLiteral(term)) <=>
                   TextCompare(Lower(v), term.op, Lower(term.literal))
        <5>1. CASE term.field = "proto"
          <6>1. v.capitals /\ term.op = "=="
            BY <2>4, <3>1, <5>1, ColumnsOf DEF values, IsRow
          <6>2. v = SqlLiteral(term) <=> Lower(v) = Lower(term.literal)
            BY <3>1, <4>1, <5>1, <6>1, SameText
          <6> QED
            BY <6>1, <6>2 DEF TextCompare
        <5>2. CASE term.field # "proto" /\ term.op = "=="
          <6>1. v = SqlLiteral(term) <=> Lower(v) = Lower(term.literal)
            BY <2>4, <3>1, <3>3, <4>1, <5>2, SameText
          <6> QED
            BY <5>2, <6>1 DEF TextCompare
        <5>3. CASE term.field # "proto" /\ term.op # "=="
          <6>1. ~v.capitals /\ ~term.literal.capitals
            BY <2>4, <3>1, <5>3
          <6>2. Lower(v) = v /\ Lower(term.literal) = term.literal
            BY <3>1, <4>1, <6>1, SameText
          <6> QED
            BY <4>1, <5>3, <6>2
        <5> QED
          BY <5>1, <5>2, <5>3
      <4> QED
        BY <2>2, <2>3, <2>6, <4>2, <4>3
    <3> QED
      BY <3>2, <3>3
  <2> QED
    BY <2>5, <2>6
<1>4. term.is \in {"proto", "contains", "compare"}
  BY DEF Terms, TermInSql
<1> QED
  BY <1>1, <1>2, <1>3, <1>4

\* A compiled rule has one alternative, and no term of it is negated.
LEMMA SameRule ==
  ASSUME NEW row, IsRow(row), NEW rule, IsRule(rule), NEW inDuck \in BOOLEAN
  PROVE  SameInBoth(row, rule, inDuck)
<1> SUFFICES ASSUME InSql(rule), SpeltLike(row, rule, inDuck)
             PROVE  SqlRule(row, rule, inDuck) <=> MatchRule(row, rule, FALSE)
  BY DEF SameInBoth
<1>1. PICK alternative : rule = {alternative}
  BY FS_Singleton DEF InSql, IsRule
<1>2. \A t \in alternative :
        /\ t.nots = 0 /\ TermInSql(t.term) /\ t.term \in Terms
        /\ SpeltAlike(row, t.term, inDuck)
  BY <1>1 DEF InSql, SpeltLike, IsRule
<1>3. \A t \in alternative :
        /\ MatchTerm(row, t.term) \in BOOLEAN
        /\ SqlTerm(row, t.term, inDuck) <=> MatchTerm(row, t.term)
  BY <1>2, SameTerm
<1>4. SqlRule(row, rule, inDuck) <=>
        \A t \in alternative : SqlTerm(row, t.term, inDuck)
  BY <1>1 DEF SqlRule
<1>5. MatchRule(row, rule, FALSE) <=>
        \A t \in alternative : MatchTerm(row, t.term) # (t.nots % 2 = 1)
  BY <1>1 DEF MatchRule
<1>6. \A t \in alternative : ~(t.nots % 2 = 1)
  BY <1>2
<1> QED
  BY <1>3, <1>4, <1>5, <1>6

\* Two rows with the same columns but for the id and the risk, which SQL may not ask for
SameColumns(row, other, inDuck) ==
  \A c \in TextColumns \cup NumberColumns : c # "id" \/ ~inDuck => row[c] = other[c]

\* Such rows have the same values in a field.
LEMMA SameValues ==
  ASSUME NEW row, IsRow(row), NEW other, IsRow(other), NEW inDuck \in BOOLEAN,
         SameColumns(row, other, inDuck), NEW field \in NumberFields \cup TextFields,
         field # "id" \/ ~inDuck
  PROVE  Values(row, field) = Values(other, field)
<1>1. Columns(field) =
        IF field = "ip" THEN {"src_ip", "dst_ip"}
        ELSE IF field = "port" THEN {"src_port", "dst_port"} ELSE {field}
  BY DEF Columns
<1>2. \A c \in Columns(field) : c \in TextColumns \cup NumberColumns /\ (c # "id" \/ ~inDuck)
  BY <1>1 DEF NumberFields, TextFields, TextColumns, NumberColumns
<1>3. \A c \in Columns(field) : c \in DOMAIN row /\ c \in DOMAIN other /\ row[c] = other[c]
  BY <1>2 DEF SameColumns, IsRow
<1> QED
  BY <1>3 DEF Values

\* Such rows are the same to a term that SQL can ask.
LEMMA SameSql ==
  ASSUME NEW row, IsRow(row), NEW other, IsRow(other), NEW inDuck \in BOOLEAN,
         SameColumns(row, other, inDuck), NEW term \in Terms, TermInSql(term),
         SpeltAlike(other, term, inDuck)
  PROVE  /\ SpeltAlike(row, term, inDuck)
         /\ SqlTerm(row, term, inDuck) <=> SqlTerm(other, term, inDuck)
<1>1. CASE term.is = "proto"
  <2>1. row.proto = other.proto
    BY DEF SameColumns, TextColumns, NumberColumns
  <2> QED
    BY <1>1, <2>1 DEF SqlTerm, SpeltAlike
<1>2. CASE term.is = "contains"
  <2>1. term.field \in {"ip", "process", "proto", "source"}
    BY <1>2 DEF TermInSql
  <2>2. Values(row, term.field) = Values(other, term.field)
    BY <2>1, SameValues DEF TextFields
  <2> QED
    BY <1>2, <2>2 DEF SqlTerm, SpeltAlike
<1>3. CASE term.is = "compare"
  <2>1. term.field \in NumberFields \cup TextFields
    BY <1>3 DEF TermInSql
  <2>2. term.field = "id" => ~inDuck
    BY <1>3 DEF SpeltAlike, NumberFields
  <2>3. Values(row, term.field) = Values(other, term.field)
    BY <2>1, <2>2, SameValues
  <2> QED
    BY <1>3, <2>3 DEF SqlTerm, SpeltAlike
<1>4. term.is \in {"proto", "contains", "compare"}
  BY DEF Terms, TermInSql
<1> QED
  BY <1>1, <1>2, <1>3, <1>4

\* What is stored of a packet, and what the matcher sees of it, have the columns of SQL.
LEMMA PacketRow ==
  ASSUME NEW c \in Packets, NEW row, DOMAIN c \subseteq DOMAIN row,
         \A x \in DOMAIN c : row[x] = c[x],
         "id" \in DOMAIN row, row["id"] \in Numbers
  PROVE  IsRow(row)
<1>1. /\ DOMAIN c = {"ts", "src_port", "dst_port", "length", "src_ip", "dst_ip", "process",
                     "source", "proto"}
      /\ c.src_ip \in Texts /\ c.dst_ip \in Texts /\ c.process \in Texts
      /\ c.source \in Texts /\ c.proto \in Texts /\ c.proto.capitals
      /\ c.src_port \in Numbers /\ c.dst_port \in Numbers
      /\ c.length \in Numbers
  BY DEF Packets, Texts
<1> QED
  BY <1>1 DEF IsRow, TextColumns, NumberColumns

-------------------------------------------------------------------------------
(* Putting a finite set in order *)

\* below is a strict order on its domain in which any two members compare.
Ordering(below) ==
  /\ IsFiniteSet(DOMAIN below)
  /\ \A x \in DOMAIN below : below[x] \subseteq DOMAIN below /\ x \notin below[x]
  /\ \A x \in DOMAIN below : \A y \in below[x] : below[y] \subseteq below[x]
  /\ \A x \in DOMAIN below : \A y \in DOMAIN below : x = y \/ x \in below[y] \/ y \in below[x]

\* s has the members of DOMAIN below, each behind as many as come before it.
InOrder(s, below) ==
  /\ s \in Seq(DOMAIN below) /\ Len(s) = Cardinality(DOMAIN below)
  /\ \A n \in 1 .. Len(s) : s[n] \in DOMAIN below /\ Cardinality(below[s[n]]) = n - 1
  /\ \A x \in DOMAIN below : /\ Cardinality(below[x]) \in 0 .. Len(s) - 1
                             /\ s[Cardinality(below[x]) + 1] = x

\* What comes before x is finite, and fewer come before what comes before x.
LEMMA FewerBelow ==
  ASSUME NEW below, Ordering(below), NEW x \in DOMAIN below
  PROVE  /\ IsFiniteSet(below[x])
         /\ Cardinality(below[x]) \in Nat
         /\ Cardinality(DOMAIN below) \in Nat
         /\ Cardinality(below[x]) < Cardinality(DOMAIN below)
         /\ \A y \in below[x] : Cardinality(below[y]) < Cardinality(below[x])
<1>1. \A S, T : IsFiniteSet(S) /\ T \in SUBSET S /\ T # S =>
        IsFiniteSet(T) /\ Cardinality(T) \in Nat /\ Cardinality(S) \in Nat
        /\ Cardinality(T) < Cardinality(S)
  BY FS_Subset, FS_CardinalityType
<1>2. below[x] \in SUBSET DOMAIN below /\ below[x] # DOMAIN below
  BY DEF Ordering
<1>3. \A y \in below[x] : below[y] \in SUBSET below[x] /\ below[y] # below[x]
  BY DEF Ordering
<1> QED
  BY <1>1, <1>2, <1>3 DEF Ordering

\* Counting what comes before numbers the members from 0, none twice and none left out.
LEMMA Arrangement ==
  ASSUME NEW below, Ordering(below)
  PROVE  InOrder(Arranged(below), below)
<1> DEFINE D == DOMAIN below
           N == Cardinality(D)
           count == [x \in D |-> Cardinality(below[x])]
<1>1. N \in Nat /\ IsFiniteSet(D)
  BY FS_CardinalityType DEF Ordering
<1>2. \A x \in D : Cardinality(below[x]) \in 0 .. N - 1
  BY <1>1, FewerBelow
<1>3. \A x \in D : \A y \in below[x] : Cardinality(below[y]) < Cardinality(below[x])
  BY FewerBelow
<1>4. count \in [D -> 0 .. N - 1]
  BY <1>2
<1>5. ASSUME NEW x \in D, NEW y \in D, count[x] = count[y] PROVE x = y
  <2>1. Cardinality(below[x]) = Cardinality(below[y]) /\ Cardinality(below[x]) \in Int
    BY <1>2, <1>5
  <2> QED
    BY <1>3, <2>1 DEF Ordering
<1>6. count \in Injection(D, 0 .. N - 1)
  BY <1>4, <1>5 DEF Injection, IsInjective
<1>7. IsFiniteSet(0 .. N - 1) /\ Cardinality(0 .. N - 1) = N
  <2>1. 0 \in Int /\ N - 1 \in Int
    BY <1>1
  <2> HIDE DEF N
  <2> QED
    BY <1>1, <2>1, FS_Interval
<1>8. count \in Surjection(D, 0 .. N - 1)
  BY <1>6, <1>7, FS_Injection
<1>9. \A n \in 1 .. N : \E x \in D : Cardinality(below[x]) = n - 1
  <2> TAKE n \in 1 .. N
  <2>1. n - 1 \in 0 .. N - 1
    BY <1>1
  <2>2. PICK x \in D : count[x] = n - 1
    BY <1>8, <2>1 DEF Surjection
  <2> QED
    BY <2>2
<1> DEFINE s == Arranged(below)
<1>10. /\ DOMAIN s = 1 .. N
       /\ \A n \in 1 .. N : s[n] = CHOOSE x \in D : Cardinality(below[x]) = n - 1
  BY DEF Arranged
<1> HIDE DEF s, N
<1>11. \A n \in 1 .. N : s[n] \in D /\ Cardinality(below[s[n]]) = n - 1
  BY <1>9, <1>10
<1>12. s \in Seq(D) /\ Len(s) = N
  <2>1. s = [n \in 1 .. N |-> s[n]]
    BY <1>10 DEF s, Arranged, N
  <2>2. s \in [1 .. N -> D]
    BY <2>1, <1>11
  <2> QED
    BY <2>2, <1>1, SeqDef
<1>13. ASSUME NEW x \in D PROVE s[Cardinality(below[x]) + 1] = x
  <2>1. Cardinality(below[x]) \in 0 .. N - 1
    BY <1>2
  <2> DEFINE n == Cardinality(below[x]) + 1
  <2>2. n \in 1 .. N /\ n - 1 = Cardinality(below[x])
    BY <1>1, <2>1
  <2>3. s[n] \in D /\ Cardinality(below[s[n]]) = Cardinality(below[x])
    BY <1>11, <2>2
  <2> QED
    BY <1>5, <2>3
<1> QED
  BY <1>1, <1>2, <1>11, <1>12, <1>13 DEF InOrder, N, s

\* A sequence rearranged has its own elements, at the places the order says.
LEMMA Rearrangement ==
  ASSUME NEW S, NEW s \in Seq(S), NEW below, Ordering(below), DOMAIN below \subseteq 1 .. Len(s)
  PROVE  /\ InOrder(Arranged(below), below)
         /\ Rearranged(s, below) \in Seq(S)
         /\ Len(Rearranged(s, below)) = Cardinality(DOMAIN below)
         /\ Cardinality(DOMAIN below) \in Nat
         /\ \A n \in 1 .. Cardinality(DOMAIN below) :
              Rearranged(s, below)[n] = s[Arranged(below)[n]]
<1> DEFINE order == Arranged(below)
           N == Cardinality(DOMAIN below)
<1>1. InOrder(order, below)
  BY Arrangement
<1>2. N \in Nat
  BY FS_CardinalityType DEF Ordering
<1>3. order \in Seq(DOMAIN below) /\ Len(order) = N /\ DOMAIN order = 1 .. N
  <2>1. order \in Seq(DOMAIN below) /\ Len(order) = N
    BY <1>1 DEF InOrder
  <2> QED
    BY <2>1, LenProperties
<1>4. \A n \in 1 .. N : order[n] \in 1 .. Len(s)
  BY <1>1, <1>3 DEF InOrder
<1>5. Rearranged(s, below) = [n \in 1 .. N |-> s[order[n]]]
  BY <1>3 DEF Rearranged
<1> HIDE DEF order, N
<1>6. \A n \in 1 .. N : s[order[n]] \in S
  BY <1>4, ElementOfSeq
<1>7. [n \in 1 .. N |-> s[order[n]]] \in [1 .. N -> S]
  BY <1>6
<1>8. Rearranged(s, below) \in Seq(S)
  BY <1>2, <1>5, <1>7, SeqDef
<1>9. Len(Rearranged(s, below)) = N
  BY <1>2, <1>5, <1>8, LenProperties
<1> QED
  BY <1>1, <1>2, <1>5, <1>8, <1>9 DEF order, N

\* LIMIT and OFFSET
LEMMA SliceOf ==
  ASSUME NEW S, NEW s \in Seq(S), NEW limit \in Nat, NEW skip \in Nat
  PROVE  /\ Slice(s, limit, skip) \in Seq(S)
         /\ Len(Slice(s, limit, skip)) =
              IF Len(s) <= skip THEN 0 ELSE IF skip + limit < Len(s) THEN limit ELSE Len(s) - skip
         /\ \A n \in 1 .. Len(Slice(s, limit, skip)) :
              /\ Slice(s, limit, skip)[n] = s[skip + n]
              /\ skip + n \in 1 .. Len(s)
<1> DEFINE m == skip + 1
           k == IF skip + limit < Len(s) THEN skip + limit ELSE Len(s)
<1>1. Len(s) \in Nat
  BY LenProperties
<1>2. m \in Int /\ k \in Int
  BY <1>1
<1>3. \A i \in m .. k : i \in 1 .. Len(s)
  BY <1>1
<1>4. \A i \in m .. k : s[i] \in S
  BY <1>3, ElementOfSeq
<1>5. Slice(s, limit, skip) = SubSeq(s, m, k)
  BY DEF Slice
<1> HIDE DEF m, k
<1>6. /\ SubSeq(s, m, k) \in Seq(S)
      /\ Len(SubSeq(s, m, k)) = IF m <= k THEN k - m + 1 ELSE 0
      /\ \A i \in 1 .. k - m + 1 : SubSeq(s, m, k)[i] = s[m + i - 1]
  BY <1>2, <1>4, SubSeqProperties
<1>7. Len(SubSeq(s, m, k)) =
        IF Len(s) <= skip THEN 0 ELSE IF skip + limit < Len(s) THEN limit ELSE Len(s) - skip
  BY <1>1, <1>6 DEF m, k
<1>8. ASSUME NEW n \in 1 .. Len(SubSeq(s, m, k))
      PROVE  SubSeq(s, m, k)[n] = s[skip + n] /\ skip + n \in 1 .. Len(s)
  <2>1. n \in 1 .. k - m + 1
    BY <1>2, <1>6
  <2>2. m + n - 1 = skip + n
    BY <2>1 DEF m
  <2>3. skip + n \in 1 .. Len(s)
    BY <1>1, <2>1 DEF m, k
  <2> QED
    BY <1>6, <2>1, <2>2, <2>3
<1> QED
  BY <1>5, <1>6, <1>7, <1>8

-------------------------------------------------------------------------------
(* The order of rows *)

PageRow == [id : Nat, content : Contents, rank : Risk]
Sorts == {"ts", "length", "risk"}
\* Rows that can be put in order by a column: frames have no length.
Sortable(x, sort) == x \in PageRow /\ (sort = "length" => ~IsFrame(x.content))

\* Rows are compared by whole numbers.
LEMMA KeyInt ==
  ASSUME PagesAssumption, NEW sort \in Sorts, NEW x, Sortable(x, sort)
  PROVE  /\ Key(x, sort) \in Int /\ x.id \in Int
         /\ Key(x, IF sort = "risk" THEN "ts" ELSE sort) \in Int
<1>1. x \in PageRow /\ x.content \in Packets \cup Frames
  BY DEF Sortable, PageRow, PagesAssumption
<1>2. x.content.ts \in Numbers
  BY <1>1 DEF Packets, Frames
<1>3. sort = "length" => x.content.length \in Numbers
  BY <1>1 DEF Sortable, Packets, Frames, IsFrame
<1>4. Key(x, "ts") = x.content.ts.halves /\ Key(x, "length") = x.content.length.halves
      /\ Key(x, "risk") = x.rank
  BY DEF Key
<1>5. x.rank \in Int /\ x.id \in Int
  BY <1>1 DEF PageRow, Risk
<1>6. Key(x, "ts") \in Int /\ Key(x, "risk") \in Int /\ (sort = "length" => Key(x, "length") \in Int)
  BY <1>2, <1>3, <1>4, <1>5 DEF Numbers
<1> QED
  BY <1>5, <1>6 DEF Sorts

\* An order with ties broken by id compares any two rows, one way.
LEMMA RowOrder ==
  ASSUME PagesAssumption, NEW sort \in Sorts, NEW desc \in BOOLEAN,
         NEW x, NEW y, NEW z, Sortable(x, sort), Sortable(y, sort), Sortable(z, sort)
  PROVE  /\ ~Comes(x, x, sort, desc)
         /\ Comes(x, y, sort, desc) /\ Comes(y, z, sort, desc) => Comes(x, z, sort, desc)
         /\ x.id # y.id => Comes(x, y, sort, desc) \/ Comes(y, x, sort, desc)
<1> DEFINE tie == IF sort = "risk" THEN "ts" ELSE sort
<1>1. \A r \in {x, y, z} : Key(r, sort) \in Int /\ Key(r, tie) \in Int /\ r.id \in Int
  BY KeyInt
<1>2. \A r, q : Before(r, q, sort) <=>
         \/ Key(r, sort) < Key(q, sort)
         \/ Key(r, sort) = Key(q, sort) /\ Key(r, tie) < Key(q, tie)
         \/ Key(r, sort) = Key(q, sort) /\ Key(r, tie) = Key(q, tie) /\ r.id < q.id
  BY DEF Before
<1> HIDE DEF tie
<1>3. ~Before(x, x, sort)
  BY <1>1, <1>2
<1>4. Before(x, y, sort) /\ Before(y, z, sort) => Before(x, z, sort)
  BY <1>1, <1>2
<1>5. Before(z, y, sort) /\ Before(y, x, sort) => Before(z, x, sort)
  BY <1>1, <1>2
<1>6. x.id # y.id => Before(x, y, sort) \/ Before(y, x, sort)
  BY <1>1, <1>2
<1> QED
  BY <1>3, <1>4, <1>5, <1>6 DEF Comes

\* Rows with different ids that a column puts in order
Orderable(S, sort) ==
  /\ IsFiniteSet(S)
  /\ \A x \in S : Sortable(x, sort)
  /\ \A x \in S : \A y \in S : x.id = y.id => x = y
Ahead(S, sort, desc) == [x \in S |-> {y \in S : Comes(y, x, sort, desc)}]

\* Sorted puts such rows in order.
LEMMA RowsInOrder ==
  ASSUME PagesAssumption, NEW sort \in Sorts, NEW desc \in BOOLEAN, NEW S, Orderable(S, sort)
  PROVE  /\ Ordering(Ahead(S, sort, desc))
         /\ InOrder(Sorted(S, sort, desc), Ahead(S, sort, desc))
<1> DEFINE below == Ahead(S, sort, desc)
<1>1. DOMAIN below = S /\ \A x \in S : below[x] = {y \in S : Comes(y, x, sort, desc)}
  BY DEF Ahead
<1>2. Sorted(S, sort, desc) = Arranged(below)
  BY DEF Sorted, Ahead
<1>3. \A x \in S : \A y \in S : \A z \in S :
        /\ ~Comes(x, x, sort, desc)
        /\ Comes(x, y, sort, desc) /\ Comes(y, z, sort, desc) => Comes(x, z, sort, desc)
        /\ x # y => Comes(x, y, sort, desc) \/ Comes(y, x, sort, desc)
  BY RowOrder DEF Orderable
<1> HIDE DEF below
<1>4. Ordering(below)
  BY <1>1, <1>3 DEF Ordering, Orderable
<1> QED
  BY <1>2, <1>4, Arrangement DEF below

\* The rows that pass a test keep their order.
KeptOf(s, r) == {n \in 1 .. Len(s) : Kept(s[n], r)}
\* With the places the rows were at, and how many kept rows each of them follows
LEMMA FilteredPlaces ==
  ASSUME NEW S, NEW s \in Seq(S), NEW r
  PROVE  /\ Filtered(s, r) \in Seq(S)
         /\ Len(Filtered(s, r)) = Cardinality(KeptOf(s, r)) /\ Cardinality(KeptOf(s, r)) \in Nat
         /\ \E o \in [1 .. Len(Filtered(s, r)) -> KeptOf(s, r)] :
              /\ \A n \in 1 .. Len(Filtered(s, r)) :
                   /\ Filtered(s, r)[n] = s[o[n]]
                   /\ Cardinality({m \in KeptOf(s, r) : m < o[n]}) = n - 1
              /\ \A k \in KeptOf(s, r) : \E n \in 1 .. Len(Filtered(s, r)) : o[n] = k
              /\ \A m, n \in 1 .. Len(Filtered(s, r)) : m < n => o[m] < o[n]
<1> DEFINE kept == {n \in 1 .. Len(s) : Kept(s[n], r)}
           below == [n \in kept |-> {m \in kept : m < n}]
           o == Arranged(below)
<1>1. Len(s) \in Nat /\ DOMAIN s = 1 .. Len(s)
  BY LenProperties
<1>2. Ordering(below)
  <2>1. IsFiniteSet(1 .. Len(s))
    BY <1>1, FS_Interval
  <2>2. IsFiniteSet(kept)
    BY <2>1, FS_Subset
  <2>3. \A n \in kept : n \in Int
    OBVIOUS
  <2> HIDE DEF kept
  <2> QED
    BY <2>2, <2>3 DEF Ordering
<1>3. DOMAIN below = kept /\ kept \subseteq 1 .. Len(s)
  OBVIOUS
<1>4. Filtered(s, r) = Rearranged(s, below)
  BY <1>1 DEF Filtered
<1>5. \A n \in kept : below[n] = {m \in kept : m < n} /\ n \in Int
  OBVIOUS
<1> HIDE DEF below, kept
<1>6. /\ InOrder(o, below)
      /\ Filtered(s, r) \in Seq(S)
      /\ Len(Filtered(s, r)) = Cardinality(kept) /\ Cardinality(kept) \in Nat
      /\ \A n \in 1 .. Cardinality(kept) : Filtered(s, r)[n] = s[o[n]]
  BY <1>2, <1>3, <1>4, Rearrangement
<1> HIDE DEF o
<1> DEFINE N == Len(Filtered(s, r))
<1>7. o \in [1 .. N -> kept]
  <2>1. o \in Seq(kept) /\ Len(o) = N
    BY <1>3, <1>6 DEF InOrder
  <2> QED
    BY <2>1, LenProperties
<1>8. N \in Nat /\ N = Len(o)
  BY <1>3, <1>6 DEF InOrder
<1>9. \A n \in 1 .. N : Cardinality({m \in kept : m < o[n]}) = n - 1
  BY <1>3, <1>5, <1>6, <1>7, <1>8 DEF InOrder
<1>10. ASSUME NEW k \in kept PROVE \E n \in 1 .. N : o[n] = k
  <2>1. Cardinality(below[k]) \in 0 .. N - 1 /\ o[Cardinality(below[k]) + 1] = k
    BY <1>3, <1>6, <1>8 DEF InOrder
  <2> QED
    BY <1>8, <2>1
<1>11. ASSUME NEW m \in 1 .. N, NEW n \in 1 .. N, m < n PROVE o[m] < o[n]
  <2>1. o[m] \in kept /\ o[n] \in kept
    BY <1>7
  <2>2. Cardinality(below[o[m]]) = m - 1 /\ Cardinality(below[o[n]]) = n - 1
    BY <1>6, <1>8 DEF InOrder
  <2>3. o[m] # o[n]
    BY <1>11, <2>2
  <2>4. ~(o[n] < o[m])
    <3> SUFFICES ASSUME o[n] < o[m] PROVE FALSE
      OBVIOUS
    <3>1. o[n] \in below[o[m]]
      BY <1>5, <2>1
    <3>2. Cardinality(below[o[n]]) < Cardinality(below[o[m]])
      BY <1>2, <1>3, <2>1, <3>1, FewerBelow
    <3> QED
      BY <1>11, <2>2, <3>2
  <2> QED
    BY <1>5, <2>1, <2>3, <2>4
<1> QED
  BY <1>6, <1>7, <1>9, <1>10, <1>11 DEF kept, KeptOf

\* The same, without counting
LEMMA FilteredOrder ==
  ASSUME NEW S, NEW s \in Seq(S), NEW r
  PROVE  \E o \in [1 .. Len(Filtered(s, r)) -> 1 .. Len(s)] :
           /\ \A n \in 1 .. Len(Filtered(s, r)) : Filtered(s, r)[n] = s[o[n]] /\ Kept(s[o[n]], r)
           /\ \A m, n \in 1 .. Len(Filtered(s, r)) : m < n => o[m] < o[n]
           /\ \A k \in 1 .. Len(s) :
                Kept(s[k], r) => \E n \in 1 .. Len(Filtered(s, r)) : o[n] = k
<1> DEFINE kept == KeptOf(s, r)
           F == Filtered(s, r)
<1>1. \E o \in [1 .. Len(F) -> kept] :
        /\ \A n \in 1 .. Len(F) : /\ F[n] = s[o[n]]
                                   /\ Cardinality({m \in kept : m < o[n]}) = n - 1
        /\ \A k \in kept : \E n \in 1 .. Len(F) : o[n] = k
        /\ \A m, n \in 1 .. Len(F) : m < n => o[m] < o[n]
  BY FilteredPlaces
<1> HIDE DEF F
<1>2. PICK o \in [1 .. Len(F) -> kept] :
        /\ \A n \in 1 .. Len(F) : F[n] = s[o[n]]
        /\ \A k \in kept : \E n \in 1 .. Len(F) : o[n] = k
        /\ \A m, n \in 1 .. Len(F) : m < n => o[m] < o[n]
  BY <1>1
<1>3. o \in [1 .. Len(F) -> 1 .. Len(s)] /\ \A n \in 1 .. Len(F) : Kept(s[o[n]], r)
  BY <1>2 DEF KeptOf
<1> QED
  BY <1>2, <1>3 DEF F, KeptOf

\* A sort by risk moves rows and leaves none out; rows of one risk keep their order.
Riskier(s, desc, m, n) == IF desc THEN s[n].rank < s[m].rank ELSE s[m].rank < s[n].rank
RiskBelow(s, desc) ==
  [n \in 1 .. Len(s) |->
     {m \in 1 .. Len(s) : Riskier(s, desc, m, n) \/ (s[m].rank = s[n].rank /\ m < n)}]
\* A sort by risk is a rearrangement of all the rows.
LEMMA ByRiskPlaces ==
  ASSUME NEW s \in Seq(PageRow), NEW desc \in BOOLEAN
  PROVE  LET o == Arranged(RiskBelow(s, desc))
         IN  /\ InOrder(o, RiskBelow(s, desc))
             /\ ByRisk(s, desc) \in Seq(PageRow)
             /\ Len(ByRisk(s, desc)) = Len(s)
             /\ o \in [1 .. Len(s) -> 1 .. Len(s)] /\ Len(o) = Len(s)
             /\ \A n \in 1 .. Len(s) : ByRisk(s, desc)[n] = s[o[n]]
<1> DEFINE below == RiskBelow(s, desc)
           N == Len(s)
<1>1. N \in Nat /\ DOMAIN s = 1 .. N
  BY LenProperties
<1>2. \A n \in 1 .. N : s[n].rank \in Int
  <2> TAKE n \in 1 .. N
  <2>1. s[n] \in PageRow
    BY ElementOfSeq
  <2> QED
    BY <2>1 DEF PageRow, Risk
<1>3. IsFiniteSet(1 .. N) /\ Cardinality(1 .. N) = N
  <2> HIDE DEF N
  <2>1. 1 \in Int /\ N \in Int
    BY <1>1
  <2> QED
    BY <1>1, <2>1, FS_Interval
<1>4. DOMAIN below = 1 .. N
  BY DEF RiskBelow
<1>5. \A m \in 1 .. N : \A n \in 1 .. N :
        m \in below[n] <=> Riskier(s, desc, m, n) \/ (s[m].rank = s[n].rank /\ m < n)
  BY DEF RiskBelow
<1>6. \A n \in 1 .. N : below[n] \subseteq 1 .. N
  BY DEF RiskBelow
<1>7. ByRisk(s, desc) = Rearranged(s, below)
  BY <1>1 DEF ByRisk, RiskBelow, Riskier
<1> HIDE DEF below
<1>8. Ordering(below)
  <2>1. \A n \in 1 .. N : n \notin below[n]
    BY <1>2, <1>5 DEF Riskier
  <2>2. \A n \in 1 .. N : \A m \in below[n] : below[m] \subseteq below[n]
    <3> SUFFICES ASSUME NEW n \in 1 .. N, NEW m \in below[n], NEW k \in below[m]
                 PROVE  k \in below[n]
      OBVIOUS
    <3>1. m \in 1 .. N /\ k \in 1 .. N
      BY <1>6
    <3> QED
      BY <1>2, <1>5, <3>1 DEF Riskier
  <2>3. \A m \in 1 .. N : \A n \in 1 .. N : m = n \/ m \in below[n] \/ n \in below[m]
    BY <1>2, <1>5 DEF Riskier
  <2> QED
    BY <1>3, <1>4, <1>6, <2>1, <2>2, <2>3 DEF Ordering
<1>9. /\ InOrder(Arranged(below), below)
      /\ ByRisk(s, desc) \in Seq(PageRow)
      /\ Len(ByRisk(s, desc)) = N
      /\ \A n \in 1 .. N : ByRisk(s, desc)[n] = s[Arranged(below)[n]]
  BY <1>3, <1>4, <1>7, <1>8, Rearrangement
<1> DEFINE o == Arranged(below)
<1>10. o \in Seq(1 .. N) /\ Len(o) = N
  BY <1>3, <1>4, <1>9 DEF InOrder
<1> HIDE DEF o
<1>11. o \in [1 .. N -> 1 .. N]
  BY <1>10, LenProperties
<1> QED
  BY <1>9, <1>10, <1>11 DEF below, o

-------------------------------------------------------------------------------
(* The query: what its variables hold *)

Steps == {"idle", "read", "attach", "count", "scan", "collect", "finish", "done"}
Movements == {"grown", "backdated", "shrunk", "reranked"}

\* Rows a query may hold: stored at some time, and unchanged if they are still there
HeldRows ==
  {x \in PageRow : /\ x.id \in 1 .. last
                   /\ x.id \in DOMAIN table => table[x.id] = x.content
                   /\ IsFrame(x.content) <=> request.op = "frames"}

StoreInv ==
  /\ duck \in BOOLEAN
  /\ last \in Nat /\ DOMAIN table \subseteq 1 .. last
  /\ \A id \in DOMAIN table : table[id] \in Contents
  /\ risk \in [Contents -> Risk]
  /\ \A c \in Contents : IsFrame(c) => risk[c] = 0
  /\ at # "idle" => request \in Requests
QueryInv ==
  /\ at \in Steps
  /\ chunk \in Seq(HeldRows) /\ rows \in Seq(HeldRows)
  /\ offset \in Nat /\ total \in Nat /\ page \in Nat \ {0} /\ pages \in Nat
  /\ at \in {"read", "attach", "count"} => Direct(request)
  /\ at \in {"scan", "collect", "finish"} => ~Direct(request)
  /\ at \notin {"attach", "collect"} => chunk = << >>
  /\ moved \subseteq Movements /\ (at = "idle" => moved = {} /\ rows = << >>)
BaseInv == StoreInv /\ QueryInv

\* What a request may hold
LEMMA RequestType ==
  ASSUME PagesAssumption, StoreInv, at # "idle"
  PROVE  /\ request.op \in {"page", "frames", "export"}
         /\ request.page \in Nat \ {0} /\ request.source \in {"", "live", "offline"}
         /\ request.sort \in Sorts /\ request.desc \in BOOLEAN /\ request.abnormal \in BOOLEAN
         /\ IsRule(request.rule)
         /\ request.op = "frames" => request.sort = "ts" /\ ~request.desc /\ ~request.abnormal
<1>1. request \in Requests /\ request \in Request
  BY DEF StoreInv, PagesAssumption
<1>2. /\ request.op \in {"page", "frames", "export"}
      /\ request.page \in Nat /\ request.source \in {"", "live", "offline"}
      /\ request.sort \in Sorts /\ request.desc \in BOOLEAN /\ request.abnormal \in BOOLEAN
  BY <1>1 DEF Request, Sorts
<1>3. /\ request.page > 0 /\ IsRule(request.rule)
      /\ request.op = "frames" => request.sort = "ts" /\ ~request.desc /\ ~request.abnormal
  BY <1>1 DEF PagesAssumption
<1>4. request.page \in Nat \ {0}
  <2>1. request.page \in Nat
    BY <1>2
  <2>2. request.page > 0
    BY <1>3
  <2> QED
    BY <2>1, <2>2
<1> QED
  BY <1>2, <1>3, <1>4

ReadSort == IF request.sort = "risk" THEN "ts" ELSE request.sort
PlainRows == {Plain(id) : id \in Selected(request)}
\* How many rows are read before x
PlaceIn(S, x, sort, desc) == Cardinality({y \in S : Comes(y, x, sort, desc)})
Place(x) == PlaceIn(PlainRows, x, ReadSort, request.desc)

\* Rows a query holds can be put in order by the columns it asks for.
LEMMA HeldSortable ==
  ASSUME PagesAssumption, StoreInv, at # "idle", NEW x \in HeldRows
  PROVE  Sortable(x, ReadSort) /\ Sortable(x, request.sort)
BY RequestType DEF HeldRows, Sortable, ReadSort, Sorts

\* So can the rows selected; there is one for each id.
LEMMA PlainOrderable ==
  ASSUME PagesAssumption, StoreInv, at # "idle"
  PROVE  /\ Orderable(PlainRows, ReadSort) /\ ReadSort \in Sorts
         /\ PlainRows \subseteq HeldRows
         /\ IsFiniteSet(Selected(request))
         /\ Cardinality(PlainRows) = Cardinality(Selected(request))
         /\ Cardinality(PlainRows) \in Nat
         /\ \A x \in PlainRows : x.rank = 0 /\ x.id \in Selected(request) /\ x = Plain(x.id)
<1>1. Selected(request) \subseteq DOMAIN table
  BY DEF Selected
<1>2. IsFiniteSet(1 .. last)
  BY FS_Interval DEF StoreInv
<1>3. IsFiniteSet(Selected(request))
  BY <1>1, <1>2, FS_Subset DEF StoreInv
<1> DEFINE f == [id \in Selected(request) |-> Plain(id)]
<1>4. \A id \in Selected(request) : Plain(id) = [id |-> id, content |-> table[id], rank |-> 0]
  BY DEF Plain
<1>5. f \in Surjection(Selected(request), PlainRows)
  BY DEF Surjection, PlainRows
<1>6. f \in Injection(Selected(request), PlainRows)
  <2>1. \A i \in Selected(request) : f[i].id = i
    BY <1>4
  <2>2. f \in [Selected(request) -> PlainRows]
    BY DEF PlainRows
  <2> QED
    BY <2>1, <2>2 DEF Injection, IsInjective
<1>7. IsFiniteSet(PlainRows) /\ Cardinality(PlainRows) = Cardinality(Selected(request))
  BY <1>3, <1>5, <1>6, FS_Surjection
<1>8. \A x \in PlainRows : /\ x.id \in Selected(request) /\ x.rank = 0
                           /\ x.content = table[x.id] /\ x = Plain(x.id)
  BY <1>4 DEF PlainRows
<1>9. PlainRows \subseteq HeldRows
  <2> SUFFICES ASSUME NEW id \in Selected(request) PROVE Plain(id) \in HeldRows
    BY DEF PlainRows
  <2>1. id \in 1 .. last /\ table[id] \in Contents /\ id \in DOMAIN table
    BY <1>1 DEF StoreInv
  <2>2. IsFrame(table[id]) <=> request.op = "frames"
    BY DEF Selected, Visible
  <2> QED
    BY <1>4, <2>1, <2>2 DEF HeldRows, PageRow, Risk
<1>10. \A x \in PlainRows : \A y \in PlainRows : x.id = y.id => x = y
  BY <1>8
<1>11. ReadSort \in Sorts
  BY RequestType DEF ReadSort, Sorts
<1> QED
  BY <1>3, <1>7, <1>8, <1>9, <1>10, <1>11, HeldSortable, FS_CardinalityType DEF Orderable

\* A statement with LIMIT and OFFSET reads the rows with the places from OFFSET on.
LEMMA ReadOf ==
  ASSUME PagesAssumption, StoreInv, at # "idle", NEW limit \in Nat, NEW skip \in Nat
  PROVE  LET c == Read(request, limit, skip)
             N == Cardinality(PlainRows)
         IN  /\ c \in Seq(PlainRows)
             /\ Len(c) = IF N <= skip THEN 0 ELSE IF skip + limit < N THEN limit ELSE N - skip
             /\ \A n \in 1 .. Len(c) : c[n] \in PlainRows /\ Place(c[n]) = skip + n - 1
             /\ \A x \in PlainRows :
                  /\ Place(x) \in 0 .. N - 1
                  /\ skip <= Place(x) /\ Place(x) < skip + Len(c) => c[Place(x) - skip + 1] = x
<1> DEFINE c == Read(request, limit, skip)
           N == Cardinality(PlainRows)
           below == Ahead(PlainRows, ReadSort, request.desc)
           s == Sorted(PlainRows, ReadSort, request.desc)
<1>1. c = Slice(s, limit, skip)
  BY DEF Read, PlainRows, ReadSort
<1>2. InOrder(s, below)
  BY PlainOrderable, RequestType, RowsInOrder
<1>3. N \in Nat
  BY PlainOrderable
<1>4. DOMAIN below = PlainRows /\ \A x \in PlainRows : Cardinality(below[x]) = Place(x)
  BY DEF Ahead, Place, PlaceIn
<1> HIDE DEF below, s, c, N
<1>5. /\ s \in Seq(PlainRows) /\ Len(s) = N
      /\ \A n \in 1 .. N : s[n] \in PlainRows /\ Place(s[n]) = n - 1
      /\ \A x \in PlainRows : Place(x) \in 0 .. N - 1 /\ s[Place(x) + 1] = x
  BY <1>2, <1>4 DEF InOrder, N
<1>6. /\ c \in Seq(PlainRows)
      /\ Len(c) = IF N <= skip THEN 0 ELSE IF skip + limit < N THEN limit ELSE N - skip
      /\ \A n \in 1 .. Len(c) : c[n] = s[skip + n] /\ skip + n \in 1 .. N
  <2> DEFINE t == Slice(s, limit, skip)
  <2>1. /\ t \in Seq(PlainRows)
        /\ Len(t) = IF Len(s) <= skip THEN 0 ELSE IF skip + limit < Len(s) THEN limit ELSE Len(s) - skip
        /\ \A n \in 1 .. Len(t) : t[n] = s[skip + n] /\ skip + n \in 1 .. Len(s)
    BY <1>5, SliceOf, Zenon
  <2> HIDE DEF t
  <2>2. c = t
    BY <1>1 DEF t
  <2> QED
    BY <1>5, <2>1, <2>2
<1>7. ASSUME NEW n \in 1 .. Len(c) PROVE c[n] \in PlainRows /\ Place(c[n]) = skip + n - 1
  <2>1. PICK i \in 1 .. N : i = skip + n /\ c[n] = s[i]
    BY <1>6
  <2>2. c[n] \in PlainRows /\ Place(c[n]) = i - 1
    BY <1>5, <2>1
  <2>3. i - 1 = skip + n - 1
    BY ONLY <2>1
  <2> QED
    BY <2>2, <2>3
<1>8. ASSUME NEW x \in PlainRows, skip <= Place(x), Place(x) < skip + Len(c)
      PROVE  c[Place(x) - skip + 1] = x
  <2>1. Place(x) \in 0 .. N - 1 /\ s[Place(x) + 1] = x
    BY <1>5
  <2>2. Len(c) \in Nat
    BY <1>6, LenProperties
  <2> DEFINE n == Place(x) - skip + 1
  <2>3. n \in 1 .. Len(c) /\ skip + n = Place(x) + 1
    BY <1>3, <1>8, <2>1, <2>2
  <2> QED
    BY <1>6, <2>1, <2>3
<1> QED
  BY <1>5, <1>6, <1>7, <1>8 DEF c, N

\* The risk is put on rows; their ids and contents stay.
LEMMA WithRiskOf ==
  ASSUME StoreInv, NEW s \in Seq(HeldRows)
  PROVE  /\ WithRisk(s, request) \in Seq(HeldRows)
         /\ Len(WithRisk(s, request)) = Len(s)
         /\ \A n \in 1 .. Len(s) :
              /\ WithRisk(s, request)[n].id = s[n].id
              /\ WithRisk(s, request)[n].content = s[n].content
              /\ WithRisk(s, request)[n].rank =
                   IF request.op = "frames" THEN s[n].rank ELSE risk[s[n].content]
<1>1. CASE request.op = "frames"
  BY <1>1 DEF WithRisk
<1>2. CASE request.op # "frames"
  <2> DEFINE w == [n \in 1 .. Len(s) |-> [s[n] EXCEPT !.rank = risk[s[n].content]]]
  <2>1. Len(s) \in Nat /\ DOMAIN s = 1 .. Len(s)
    BY LenProperties
  <2>2. WithRisk(s, request) = w
    BY <1>2, <2>1 DEF WithRisk
  <2>3. ASSUME NEW n \in 1 .. Len(s)
        PROVE  /\ w[n] \in HeldRows
               /\ w[n].id = s[n].id /\ w[n].content = s[n].content
               /\ w[n].rank = risk[s[n].content]
    <3>1. s[n] \in HeldRows /\ w[n] = [s[n] EXCEPT !.rank = risk[s[n].content]]
      BY ElementOfSeq
    <3>2. risk[s[n].content] \in Risk
      BY <3>1 DEF HeldRows, PageRow, StoreInv
    <3> QED
      BY <3>1, <3>2 DEF HeldRows, PageRow
  <2> HIDE DEF w
  <2>4. w \in [1 .. Len(s) -> HeldRows]
    <3>1. DOMAIN w = 1 .. Len(s) /\ w = [n \in 1 .. Len(s) |-> w[n]]
      BY DEF w
    <3> QED
      BY <2>3, <3>1
  <2>5. w \in Seq(HeldRows)
    BY <2>1, <2>4, SeqDef
  <2>6. Len(w) = Len(s)
    BY <2>1, <2>4, <2>5, LenProperties
  <2> QED
    BY <1>2, <2>2, <2>3, <2>5, <2>6
<1> QED
  BY <1>1, <1>2

\* The first state has the types.
LEMMA InitBase == ASSUME PagesAssumption, Init PROVE BaseInv
<1>1. StoreInv
  BY DEF PagesAssumption, Init, StoreInv, Risk
<1>2. chunk \in Seq(HeldRows) /\ rows \in Seq(HeldRows)
  BY EmptySeq DEF Init
<1>3. QueryInv
  BY <1>2 DEF Init, QueryInv, Steps, Movements
<1> QED
  BY <1>1, <1>3 DEF BaseInv

\* What the query does leaves the store alone, and the rows held are still rows.
LEMMA SameStore ==
  ASSUME StoreInv, UNCHANGED store, UNCHANGED request, at' # "idle" => at # "idle"
  PROVE  StoreInv' /\ HeldRows' = HeldRows
BY DEF StoreInv, store, HeldRows

\* Limits, places of a page and numbers of pages are numbers.
LEMMA LimitType == ASSUME PagesAssumption PROVE Limit \in Nat \ {0}
BY DEF PagesAssumption, Limit

\* A page begins at a number.
LEMMA SkipType ==
  ASSUME PagesAssumption, NEW pg \in Nat \ {0}
  PROVE  Skip(pg) \in Nat
BY DEF PagesAssumption, Skip

\* There is always a page.
LEMMA PagesOfType ==
  ASSUME PagesAssumption, NEW n \in Nat
  PROVE  /\ PagesOf(n) \in Nat \ {0}
         /\ \A m \in Nat \ {0} : Smaller(m, PagesOf(n)) \in Nat \ {0}
<1>1. PageSize \in Nat \ {0}
  BY DEF PagesAssumption
<1>2. n # 0 => (n + PageSize - 1) \div PageSize \in Nat \ {0}
  <2> SUFFICES ASSUME n # 0 PROVE (n + PageSize - 1) \div PageSize \in Nat \ {0}
    OBVIOUS
  <2> DEFINE q == (n + PageSize - 1) \div PageSize
  <2>1. q \in Int /\ PageSize * q <= n + PageSize - 1 /\ n + PageSize - 1 < PageSize * (q + 1)
    BY <1>1
  <2> HIDE DEF q
  <2>2. q >= 1
    <3>1. CASE q <= 0
      <4>1. PageSize * (q + 1) <= PageSize
        BY <1>1, <2>1, <3>1
      <4> QED
        BY <1>1, <2>1, <4>1
    <3> QED
      BY <2>1, <3>1
  <2> QED
    BY <2>1, <2>2 DEF q
<1> QED
  BY <1>2 DEF PagesOf, Smaller

\* The part of the kept rows that belongs to a page
LEMMA WindowOf ==
  ASSUME PagesAssumption, NEW S, NEW s \in Seq(S), NEW first \in Nat, total \in Nat
  PROVE  /\ Window(s, first) \in Seq(S)
         /\ LET d == IF first < total THEN 0 ELSE first - total
            IN  /\ Len(Window(s, first)) =
                     IF Smaller(Len(s), first + Limit - total) <= d THEN 0
                     ELSE Smaller(Len(s), first + Limit - total) - d
                /\ \A n \in 1 .. Len(Window(s, first)) :
                     Window(s, first)[n] = s[d + n] /\ d + n \in 1 .. Len(s)
<1> DEFINE d == IF first < total THEN 0 ELSE first - total
           k == Smaller(Len(s), first + Limit - total)
<1>1. Len(s) \in Nat /\ Limit \in Nat
  BY LenProperties, LimitType
<1>2. d \in Nat /\ k \in Int /\ k <= Len(s)
  BY <1>1 DEF Smaller
<1>3. Window(s, first) = SubSeq(s, d + 1, k)
  <2>1. (IF first - total < 0 THEN 1 ELSE first - total + 1) = d + 1
    OBVIOUS
  <2> QED
    BY <2>1 DEF Window
<1> HIDE DEF d, k
<1>4. \A i \in d + 1 .. k : i \in 1 .. Len(s)
  BY <1>1, <1>2
<1>5. \A i \in d + 1 .. k : s[i] \in S
  BY <1>4, ElementOfSeq
<1>6. /\ SubSeq(s, d + 1, k) \in Seq(S)
      /\ Len(SubSeq(s, d + 1, k)) = IF d + 1 <= k THEN k - (d + 1) + 1 ELSE 0
      /\ \A i \in 1 .. k - (d + 1) + 1 : SubSeq(s, d + 1, k)[i] = s[d + 1 + i - 1]
  <2>1. d + 1 \in Int
    BY <1>2
  <2> QED
    BY <1>2, <1>5, <2>1, SubSeqProperties
<1>7. Len(SubSeq(s, d + 1, k)) = IF k <= d THEN 0 ELSE k - d
  BY <1>2, <1>6
<1>8. ASSUME NEW n \in 1 .. Len(SubSeq(s, d + 1, k))
      PROVE  SubSeq(s, d + 1, k)[n] = s[d + n] /\ d + n \in 1 .. Len(s)
  <2>1. n \in 1 .. k - (d + 1) + 1 /\ d + 1 + n - 1 = d + n
    BY <1>2, <1>7
  <2> QED
    BY <1>1, <1>2, <1>6, <2>1
<1> QED
  BY <1>3, <1>6, <1>7, <1>8 DEF d, k

\* What passes a test is a sequence of rows.
LEMMA FilteredType ==
  ASSUME NEW S, NEW s \in Seq(S), NEW r
  PROVE  Filtered(s, r) \in Seq(S) /\ Len(Filtered(s, r)) \in Nat
<1>1. Filtered(s, r) \in Seq(S)
  BY FilteredPlaces
<1> QED
  BY <1>1, LenProperties

\* What is read are rows a query may hold.
LEMMA ReadHeld ==
  ASSUME PagesAssumption, StoreInv, at # "idle", NEW limit \in Nat, NEW skip \in Nat
  PROVE  Read(request, limit, skip) \in Seq(HeldRows)
<1>1. Read(request, limit, skip) \in Seq(PlainRows)
  BY ReadOf
<1>2. PlainRows \subseteq HeldRows
  BY PlainOrderable
<1> QED
  BY <1>1, <1>2, SeqMonotonic

\* The steps of the query keep what its variables hold.
LEMMA QueryBase ==
  ASSUME PagesAssumption, BaseInv, Query
  PROVE  BaseInv'
<1> USE DEF BaseInv
<1>1. CASE ReadPage
  <2>1. StoreInv' /\ HeldRows' = HeldRows
    BY <1>1, SameStore DEF ReadPage, Goes
  <2>2. chunk' \in Seq(HeldRows)
    BY <1>1, ReadHeld, LimitType, SkipType DEF ReadPage, QueryInv
  <2> QED
    BY <1>1, <2>1, <2>2 DEF ReadPage, QueryInv, Steps, Goes, result, history
<1>2. CASE AttachPage
  <2>1. StoreInv' /\ HeldRows' = HeldRows
    BY <1>2, SameStore DEF AttachPage, Goes
  <2>2. rows' \in Seq(HeldRows)
    BY <1>2, WithRiskOf DEF AttachPage, QueryInv
  <2>3. Len(rows') \in Nat /\ chunk' = << >> /\ << >> \in Seq(HeldRows)
    BY <1>2, <2>2, LenProperties, EmptySeq DEF AttachPage
  <2>4. total' \in Nat /\ pages' \in Nat /\ at' \in {"done", "count"}
    BY <1>2, <2>3 DEF AttachPage, QueryInv, Goes
  <2> QED
    BY <1>2, <2>1, <2>2, <2>3, <2>4 DEF AttachPage, QueryInv, Steps, history
<1>3. CASE Count
  <2>1. StoreInv' /\ HeldRows' = HeldRows
    BY <1>3, SameStore DEF Count, Goes
  <2>2. total' \in Nat
    BY <1>3, PlainOrderable DEF Count
  <2>3. pages' \in Nat \ {0} /\ page' \in Nat \ {0}
    BY <1>3, <2>2, PagesOfType DEF Count, QueryInv
  <2> QED
    BY <1>3, <2>1, <2>2, <2>3 DEF Count, QueryInv, Steps, Goes, history
<1>4. CASE ScanChunk
  <2>1. StoreInv' /\ HeldRows' = HeldRows
    BY <1>4, SameStore DEF ScanChunk, Goes
  <2>2. chunk' \in Seq(HeldRows)
    BY <1>4, ReadHeld DEF ScanChunk, QueryInv, PagesAssumption
  <2>3. Len(chunk') \in Nat
    BY <2>2, LenProperties
  <2> QED
    BY <1>4, <2>1, <2>2, <2>3 DEF ScanChunk, QueryInv, Steps, Goes, result, history
<1>5. CASE CollectChunk
  <2>1. StoreInv' /\ HeldRows' = HeldRows
    BY <1>5, SameStore DEF CollectChunk, Goes
  <2> DEFINE kept == Filtered(WithRisk(chunk, request), request)
             window == Window(kept, Skip(page))
  <2>2. kept \in Seq(HeldRows) /\ Len(kept) \in Nat
    <3>1. WithRisk(chunk, request) \in Seq(HeldRows)
      BY WithRiskOf DEF QueryInv
    <3> QED
      BY <3>1, FilteredType
  <2>3. Skip(page) \in Nat /\ total \in Nat
    BY SkipType DEF QueryInv
  <2> HIDE DEF kept
  <2>4. window \in Seq(HeldRows)
    BY <2>2, <2>3, WindowOf
  <2>5. /\ rows' = rows \o (IF request.sort = "risk" THEN kept ELSE window)
        /\ total' = total + Len(kept)
    BY <1>5 DEF CollectChunk, kept
  <2> HIDE DEF window
  <2>6. rows' \in Seq(HeldRows)
    BY <2>2, <2>4, <2>5, ConcatProperties DEF QueryInv
  <2>7. total' \in Nat
    BY <2>2, <2>3, <2>5
  <2>8. chunk' \in Seq(HeldRows)
    BY <1>5, EmptySeq DEF CollectChunk
  <2> QED
    BY <1>5, <2>1, <2>6, <2>7, <2>8 DEF CollectChunk, QueryInv, Steps, Goes, history
<1>6. CASE FinishPackets
  <2>1. StoreInv' /\ HeldRows' = HeldRows
    BY <1>6, SameStore DEF FinishPackets, Goes
  <2>2. pages' \in Nat \ {0} /\ page' \in Nat \ {0}
    BY <1>6, PagesOfType DEF FinishPackets, QueryInv
  <2>3. rows' \in Seq(HeldRows)
    <3>1. CASE request.sort = "risk"
      <4> DEFINE all == ByRisk(rows, request.desc)
      <4>1. rows \in Seq(HeldRows) /\ HeldRows \subseteq PageRow
        BY DEF QueryInv, HeldRows
      <4>2. rows \in Seq(PageRow)
        BY <4>1, SeqMonotonic
      <4>3. request.desc \in BOOLEAN
        BY <1>6, RequestType DEF FinishPackets
      <4> DEFINE o == Arranged(RiskBelow(rows, request.desc))
      <4>4. /\ all \in Seq(PageRow) /\ Len(all) = Len(rows)
            /\ o \in [1 .. Len(rows) -> 1 .. Len(rows)]
            /\ \A n \in 1 .. Len(rows) : all[n] = rows[o[n]]
        BY <4>2, <4>3, ByRiskPlaces
      <4> HIDE DEF o, all
      <4>5. \A n \in 1 .. Len(all) : all[n] \in HeldRows
        <5> TAKE n \in 1 .. Len(all)
        <5>1. o[n] \in 1 .. Len(rows) /\ all[n] = rows[o[n]]
          BY <4>4
        <5> QED
          BY <4>1, <5>1, ElementOfSeq
      <4>6. all \in Seq(HeldRows)
        <5>1. Len(all) \in Nat /\ all \in [1 .. Len(all) -> PageRow]
          BY <4>4, LenProperties
        <5>2. all \in [1 .. Len(all) -> HeldRows]
          BY <4>5, <5>1
        <5> QED
          BY <5>1, <5>2, SeqDef
      <4>7. Skip(page') \in Nat /\ Limit \in Nat
        BY <2>2, SkipType, LimitType
      <4>8. rows' = Slice(all, Limit, Skip(page'))
        BY <1>6, <3>1 DEF FinishPackets, all
      <4> QED
        BY <4>6, <4>7, <4>8, SliceOf
    <3>2. CASE request.sort # "risk"
      BY <1>6, <3>2 DEF FinishPackets, QueryInv
    <3> QED
      BY <3>1, <3>2
  <2> QED
    BY <1>6, <2>1, <2>2, <2>3 DEF FinishPackets, QueryInv, Steps, Goes, history
<1>7. CASE FinishFrames
  <2>1. StoreInv' /\ HeldRows' = HeldRows
    BY <1>7, SameStore DEF FinishFrames, Goes
  <2>2. pages' \in Nat /\ page' \in Nat \ {0}
    BY <1>7, PagesOfType DEF FinishFrames, QueryInv
  <2>3. << >> \in Seq(HeldRows)
    BY EmptySeq
  <2>4. rows' \in {rows, << >>} /\ total' \in {total, 0} /\ offset' \in {offset, 0}
        /\ at' \in {"done", "scan"}
    BY <1>7 DEF FinishFrames, Goes
  <2> QED
    BY <1>7, <2>1, <2>2, <2>3, <2>4 DEF FinishFrames, QueryInv, Steps, history
<1>8. CASE Consume
  <2>1. StoreInv'
    BY <1>8 DEF Consume, StoreInv, store, Goes
  <2>2. << >> \in Seq(HeldRows')
    BY EmptySeq
  <2>3. chunk = << >>
    BY <1>8 DEF Consume, QueryInv
  <2> QED
    BY <1>8, <2>1, <2>2, <2>3 DEF Consume, QueryInv, Steps, Goes
<1> QED
  BY <1>1, <1>2, <1>3, <1>4, <1>5, <1>6, <1>7, <1>8 DEF Query

\* The types hold when a query begins,
LEMMA AskBase ==
  ASSUME PagesAssumption, BaseInv, NEW r \in Requests, Ask(r)
  PROVE  BaseInv'
<1>1. StoreInv'
  BY DEF BaseInv, StoreInv, Ask, store
<1>2. << >> \in Seq(HeldRows')
  BY EmptySeq
<1>3. r.page \in Nat \ {0}
  <2>1. r.page \in Nat
    BY DEF PagesAssumption, Request
  <2>2. r.page > 0
    BY DEF PagesAssumption
  <2> QED
    BY <2>1, <2>2
<1>4. /\ at' = IF ~Direct(r) THEN "scan" ELSE IF r.op = "frames" THEN "count" ELSE "read"
      /\ Direct(request)' <=> Direct(r)
  BY DEF Ask, Goes, Direct, PushedDown
<1> QED
  BY <1>1, <1>2, <1>3, <1>4 DEF BaseInv, QueryInv, Steps, Ask

\* What happens elsewhere leaves the rows held as they are: an id is given once.
LEMMA ElsewhereBase ==
  ASSUME PagesAssumption, BaseInv, Elsewhere
  PROVE  BaseInv' /\ HeldRows \subseteq HeldRows'
<1> USE DEF BaseInv
<1>1. ASSUME NEW c \in Contents, Insert(c)
      PROVE  StoreInv' /\ HeldRows \subseteq HeldRows'
  <2>1. /\ DOMAIN table' = DOMAIN table \cup {last + 1}
        /\ table'[last + 1] = c
        /\ \A id \in DOMAIN table : id # last + 1 => table'[id] = table[id]
    BY <1>1 DEF Insert, With
  <2>2. last' = last + 1 /\ duck' = duck /\ risk' = risk /\ request' = request /\ at' = at
    BY <1>1 DEF Insert, Moves, query
  <2>3. last \in Nat /\ DOMAIN table \subseteq 1 .. last
    BY DEF StoreInv
  <2>4. \A id \in DOMAIN table : id # last + 1
    BY <2>3
  <2>5. StoreInv'
    <3>1. last' \in Nat /\ DOMAIN table' \subseteq 1 .. last'
      BY <2>1, <2>2, <2>3
    <3>2. \A id \in DOMAIN table' : table'[id] \in Contents
      BY <2>1, <2>4 DEF StoreInv
    <3> QED
      BY <2>2, <3>1, <3>2 DEF StoreInv
  <2>6. ASSUME NEW x \in HeldRows PROVE x \in HeldRows'
    <3>1. x \in PageRow /\ x.id \in 1 .. last /\ (x.id \in DOMAIN table => table[x.id] = x.content)
          /\ (IsFrame(x.content) <=> request.op = "frames")
      BY DEF HeldRows
    <3>2. x.id \in 1 .. last' /\ x.id # last + 1
      BY <2>2, <2>3, <3>1
    <3>3. x.id \in DOMAIN table' => table'[x.id] = x.content
      BY <2>1, <3>1, <3>2
    <3> QED
      BY <2>2, <3>1, <3>2, <3>3 DEF HeldRows
  <2> QED
    BY <2>5, <2>6
<1>2. ASSUME NEW c \in Contents, NEW rank \in {0, 3}, Rerank(c, rank)
      PROVE  StoreInv' /\ HeldRows \subseteq HeldRows'
  BY <1>2 DEF Rerank, Moves, query, StoreInv, HeldRows, Risk
<1>3. ASSUME NEW source \in {"live", "offline"}, Discard(source)
      PROVE  StoreInv' /\ HeldRows \subseteq HeldRows'
  BY <1>3 DEF Discard, Moves, query, StoreInv, HeldRows
<1>4. StoreInv' /\ HeldRows \subseteq HeldRows'
  BY <1>1, <1>2, <1>3 DEF Elsewhere
<1>5. /\ UNCHANGED query
      /\ \E how \in Movements : moved' = IF at = "idle" THEN {} ELSE moved \cup {how}
  BY DEF Elsewhere, Insert, Discard, Rerank, Moves, Movements
<1>6. chunk' \in Seq(HeldRows') /\ rows' \in Seq(HeldRows')
  BY <1>4, <1>5, SeqMonotonic DEF query, result, QueryInv
<1>7. moved' \subseteq Movements /\ (at' = "idle" => moved' = {} /\ rows' = << >>)
  BY <1>5 DEF query, result, QueryInv
<1>8. Direct(request)' <=> Direct(request)
  BY <1>5 DEF Direct, PushedDown, query
<1> QED
  BY <1>4, <1>5, <1>6, <1>7, <1>8 DEF QueryInv, query, result

\* and after any step.
LEMMA NextBase ==
  ASSUME PagesAssumption, BaseInv, [Next]_vars
  PROVE  BaseInv'
<1>1. CASE UNCHANGED vars
  BY <1>1 DEF vars, store, query, result, history, BaseInv, StoreInv, QueryInv, HeldRows,
              Direct, PushedDown
<1>2. CASE Next
  BY <1>2, QueryBase, AskBase, ElsewhereBase DEF Next
<1> QED
  BY <1>1, <1>2

-------------------------------------------------------------------------------
(* The rule in SQL and in Python *)

\* What SQL sees of a packet and what the matcher sees differ in the id and the risk only.
LEMMA StoredRow ==
  ASSUME PagesAssumption, StoreInv, NEW id \in DOMAIN table, ~IsFrame(table[id])
  PROVE  /\ IsRow(Stored(id))
         /\ \A rank \in Risk :
              /\ IsRow(Row(id, table[id], rank))
              /\ Visible(table[id], request) =>
                   SameColumns(Row(id, table[id], rank), Stored(id), InDuck(request))
              /\ SameColumns(Row(id, table[id], rank), Row(id, table[id], 0), InDuck(request))
<1> DEFINE c == table[id]
           outside == Number(OutsideId(id, c))
<1>1. c \in Packets
  BY DEF StoreInv, PagesAssumption, Frames, IsFrame
<1>2. id \in Int /\ MaxRows \in Int
  BY DEF StoreInv, PagesAssumption
<1>3. Number(id) \in Numbers /\ outside \in Numbers
  BY <1>2 DEF Number, Numbers, OutsideId
<1>4. "id" \notin DOMAIN c /\ "risk" \notin DOMAIN c
  BY <1>1 DEF Packets
<1>5. /\ DOMAIN Stored(id) = DOMAIN c \cup {"id"}
      /\ \A x \in DOMAIN c : Stored(id)[x] = c[x]
      /\ Stored(id)["id"] = Number(id)
  BY <1>4 DEF Stored, With
<1>6. ASSUME NEW rank \in Risk
      PROVE  /\ DOMAIN Row(id, c, rank) = DOMAIN c \cup {"id", "risk"}
             /\ \A x \in DOMAIN c : Row(id, c, rank)[x] = c[x]
             /\ Row(id, c, rank)["id"] = outside
  BY <1>4 DEF Row, With
<1> HIDE DEF outside
<1>7. IsRow(Stored(id)) /\ \A rank \in Risk : IsRow(Row(id, c, rank))
  BY <1>1, <1>3, <1>5, <1>6, PacketRow
<1>8. TextColumns \cup NumberColumns \subseteq DOMAIN c \cup {"id"}
  BY <1>1 DEF Packets, TextColumns, NumberColumns
<1>9. Visible(c, request) /\ ~InDuck(request) => outside = Number(id)
  BY DEF Visible, InDuck, outside, OutsideId
<1>10. ASSUME NEW rank \in Risk
       PROVE  /\ Visible(c, request) => SameColumns(Row(id, c, rank), Stored(id), InDuck(request))
              /\ SameColumns(Row(id, c, rank), Row(id, c, 0), InDuck(request))
  <2>1. 0 \in Risk
    BY DEF Risk
  <2> QED
    BY <1>5, <1>6, <1>8, <1>9, <2>1 DEF SameColumns
<1> QED
  BY <1>7, <1>10

\* Whatever is stored and asked for, the SQL condition a rule is compiled to selects the
\* packets that the matcher takes, if the literals of the rule are spelt like the rows: whole
\* numbers, no wildcards, no order but of small letters (SpeltAlike).
THEOREM SqlAlwaysAgrees ==
  PagesAssumption /\ Spec => []SqlAgreesWithMatcher
<1> SUFFICES ASSUME PagesAssumption PROVE Spec => []SqlAgreesWithMatcher
  OBVIOUS
<1>1. Init => BaseInv
  BY InitBase
<1>2. BaseInv /\ [Next]_vars => BaseInv'
  BY NextBase
<1>3. BaseInv => SqlAgreesWithMatcher
  <2> SUFFICES ASSUME BaseInv, Answered, NEW id \in DOMAIN table,
                      ~IsFrame(table[id])
               PROVE  SameInBoth(Stored(id), request.rule, InDuck(request))
    BY DEF SqlAgreesWithMatcher
  <2>1. StoreInv /\ at # "idle"
    BY DEF BaseInv, Answered
  <2>2. IsRow(Stored(id)) /\ IsRule(request.rule)
    BY <2>1, StoredRow, RequestType
  <2>3. InDuck(request) \in BOOLEAN
    BY <2>1 DEF StoreInv, InDuck
  <2> QED
    BY <2>2, <2>3, SameRule
<1> QED
  BY <1>1, <1>2, <1>3, PTL DEF Spec

-------------------------------------------------------------------------------
(* Places: how many rows are read before a row *)

\* The condition of the statement on one row
Chosen(id, c) ==
  /\ Visible(c, request)
  /\ request.rule # {} /\ PushedDown(request) =>
       SqlRule(With(c, "id", Number(id)), request.rule, InDuck(request))
PlainOf(id, c) == [id |-> id, content |-> c, rank |-> 0]

\* Rows are selected one by one, by their id and content:
LEMMA SelectedBy ==
  /\ Selected(request) = {id \in DOMAIN table : Chosen(id, table[id])}
  /\ PlainRows = {PlainOf(id, table[id]) : id \in Selected(request)}
BY DEF Selected, Chosen, Stored, PlainRows, Plain, PlainOf

\* also after the table changed under the query.
LEMMA SelectedThen ==
  ASSUME UNCHANGED <<duck, request>>
  PROVE  /\ Selected(request)' = {id \in DOMAIN table' : Chosen(id, table'[id])}
         /\ PlainRows' = {PlainOf(id, table'[id]) : id \in Selected(request)'}
         /\ ReadSort' = ReadSort /\ request' = request
         /\ Direct(request)' = Direct(request)
<1>1. Selected(request)' = {id \in DOMAIN table' : Chosen(id, table'[id])}
  BY DEF Selected, Chosen, Stored, Visible, PushedDown, InDuck
<1>2. PlainRows' = {PlainOf(id, table'[id]) : id \in Selected(request)'}
  BY DEF PlainRows, Plain, PlainOf
<1> QED
  BY <1>1, <1>2 DEF ReadSort, Direct, PushedDown

\* What is read depends on the store and the request.
LEMMA SameReading ==
  ASSUME UNCHANGED <<store, request>>
  PROVE  /\ Selected(request)' = Selected(request) /\ PlainRows' = PlainRows
         /\ ReadSort' = ReadSort /\ request' = request
         /\ Direct(request)' = Direct(request)
BY SelectedBy, SelectedThen DEF store

\* A place is a number, smaller in a smaller set.
LEMMA PlaceType ==
  ASSUME NEW S, IsFiniteSet(S), NEW T, T \subseteq S, NEW x, NEW sort, NEW desc
  PROVE  /\ PlaceIn(S, x, sort, desc) \in Nat /\ PlaceIn(T, x, sort, desc) \in Nat
         /\ PlaceIn(T, x, sort, desc) <= PlaceIn(S, x, sort, desc)
<1> DEFINE A == {y \in S : Comes(y, x, sort, desc)}
           B == {y \in T : Comes(y, x, sort, desc)}
<1>1. A \subseteq S /\ B \subseteq A
  OBVIOUS
<1> HIDE DEF A, B
<1>2. IsFiniteSet(A) /\ Cardinality(A) \in Nat
  BY <1>1, FS_Subset, FS_CardinalityType
<1>3. Cardinality(B) \in Nat /\ Cardinality(B) <= Cardinality(A)
  BY <1>1, <1>2, FS_Subset, FS_CardinalityType
<1> QED
  BY <1>2, <1>3 DEF PlaceIn, A, B

\* The order of reading takes no notice of the risk.
LEMMA SameKey ==
  ASSUME NEW x, NEW y, NEW z, x.id = y.id, x.content = y.content, NEW desc,
         NEW sort \in {"ts", "length"}
  PROVE  /\ Comes(z, x, sort, desc) <=> Comes(z, y, sort, desc)
         /\ Comes(x, z, sort, desc) <=> Comes(y, z, sort, desc)
<1>1. sort # "risk" /\ Key(x, sort) = Key(y, sort)
  BY DEF Key
<1> QED
  BY <1>1 DEF Comes, Before

\* Chunks are not read in the order of risk.
LEMMA ReadSortType ==
  ASSUME PagesAssumption, StoreInv, at # "idle"
  PROVE  ReadSort \in {"ts", "length"}
BY RequestType DEF ReadSort, Sorts

\* A row that is still selected is at the place it is read at.
LEMMA SamePlace ==
  ASSUME PagesAssumption, StoreInv, at # "idle",
         NEW x \in HeldRows, x.id \in Selected(request), NEW S
  PROVE  /\ Plain(x.id) \in PlainRows
         /\ x.content = table[x.id]
         /\ PlaceIn(S, x, ReadSort, request.desc) =
              PlaceIn(S, Plain(x.id), ReadSort, request.desc)
<1>1. x.content = table[x.id]
  BY DEF HeldRows, Selected
<1>2. Plain(x.id).id = x.id /\ Plain(x.id).content = x.content
  BY <1>1 DEF Plain
<1>3. \A y : Comes(y, x, ReadSort, request.desc) <=> Comes(y, Plain(x.id), ReadSort, request.desc)
  BY <1>2, SameKey, ReadSortType
<1>4. PlaceIn(S, x, ReadSort, request.desc) = PlaceIn(S, Plain(x.id), ReadSort, request.desc)
  BY <1>3 DEF PlaceIn
<1> QED
  BY <1>1, <1>4 DEF PlainRows

\* Two rows held with one id that is still selected have one place.
LEMMA OneIdOnePlace ==
  ASSUME PagesAssumption, StoreInv, at # "idle",
         NEW x \in HeldRows, NEW y \in HeldRows, x.id = y.id, x.id \in Selected(request)
  PROVE  Place(x) = Place(y)
BY SamePlace DEF Place

-------------------------------------------------------------------------------
(* Nothing is read twice *)
\* A scan reads on as if the table did not change where it has been.
Still ==
  \/ OldestFirst /\ "backdated" \notin moved
  \/ moved \cap {"grown", "backdated"} = {}
Scanning == at \in {"scan", "collect", "finish"}
IdsApart(s) == \A m, n \in 1 .. Len(s) : s[m].id = s[n].id => m = n

ApartInv ==
  at # "idle" /\ (Direct(request) \/ Still) =>
    /\ IdsApart(rows) /\ IdsApart(chunk)
    /\ Scanning =>
         /\ \A m \in 1 .. Len(rows) : \A n \in 1 .. Len(chunk) : rows[m].id # chunk[n].id
         /\ \A n \in 1 .. Len(rows) : rows[n].id \in Selected(request) => Place(rows[n]) < offset
         /\ \A n \in 1 .. Len(chunk) : chunk[n].id \in Selected(request) => Place(chunk[n]) < offset

\* One statement reads no row twice.
LEMMA ReadApart ==
  ASSUME PagesAssumption, StoreInv, at # "idle", NEW limit \in Nat, NEW skip \in Nat
  PROVE  IdsApart(Read(request, limit, skip))
<1> DEFINE c == Read(request, limit, skip)
<1>1. \A n \in 1 .. Len(c) : c[n] \in PlainRows /\ Place(c[n]) = skip + n - 1
  BY ReadOf
<1>2. \A x \in PlainRows : \A y \in PlainRows : x.id = y.id => x = y
  BY PlainOrderable DEF Orderable
<1> HIDE DEF c
<1>3. IdsApart(c)
  <2> SUFFICES ASSUME NEW m \in 1 .. Len(c), NEW n \in 1 .. Len(c), c[m].id = c[n].id
               PROVE  m = n
    BY DEF IdsApart
  <2>1. skip + m - 1 = skip + n - 1
    BY <1>1, <1>2
  <2> QED
    BY <2>1
<1> QED
  BY <1>3 DEF c

\* What is kept of a chunk are rows of the chunk.
LEMMA KeptOfChunk ==
  ASSUME StoreInv, chunk \in Seq(HeldRows)
  PROVE  LET kept == Filtered(WithRisk(chunk, request), request)
         IN  /\ kept \in Seq(HeldRows) /\ Len(kept) \in Nat
             /\ \A n \in 1 .. Len(kept) : \E k \in 1 .. Len(chunk) :
                  kept[n].id = chunk[k].id /\ kept[n].content = chunk[k].content
             /\ IdsApart(chunk) => IdsApart(kept)
<1> DEFINE w == WithRisk(chunk, request)
           kept == Filtered(w, request)
<1>1. /\ w \in Seq(HeldRows) /\ Len(w) = Len(chunk)
      /\ \A k \in 1 .. Len(w) : w[k].id = chunk[k].id /\ w[k].content = chunk[k].content
  BY WithRiskOf
<1> HIDE DEF w
<1>2. kept \in Seq(HeldRows) /\ Len(kept) \in Nat
  BY <1>1, FilteredType
<1> HIDE DEF kept
<1>3. \A s \in Seq(HeldRows) : \E o \in [1 .. Len(Filtered(s, request)) -> 1 .. Len(s)] :
        /\ \A n \in 1 .. Len(Filtered(s, request)) : Filtered(s, request)[n] = s[o[n]]
        /\ \A m, n \in 1 .. Len(Filtered(s, request)) : m < n => o[m] < o[n]
  BY FilteredOrder
<1>4. PICK o \in [1 .. Len(kept) -> 1 .. Len(chunk)] :
        /\ \A n \in 1 .. Len(kept) : kept[n] = w[o[n]]
        /\ \A m, n \in 1 .. Len(kept) : m < n => o[m] < o[n]
  BY <1>1, <1>3 DEF kept
<1>5. ASSUME NEW n \in 1 .. Len(kept)
      PROVE  \E k \in 1 .. Len(chunk) : kept[n].id = chunk[k].id /\ kept[n].content = chunk[k].content
  <2>1. o[n] \in 1 .. Len(chunk)
    BY <1>4
  <2> QED
    BY <1>1, <1>4, <2>1
<1>6. ASSUME IdsApart(chunk) PROVE IdsApart(kept)
  <2> SUFFICES ASSUME NEW m \in 1 .. Len(kept), NEW n \in 1 .. Len(kept), kept[m].id = kept[n].id
               PROVE  m = n
    BY DEF IdsApart
  <2>1. o[m] \in 1 .. Len(chunk) /\ o[n] \in 1 .. Len(chunk)
    BY <1>4
  <2>2. chunk[o[m]].id = chunk[o[n]].id
    BY <1>1, <1>4, <2>1
  <2>3. o[m] = o[n]
    BY <1>6, <2>1, <2>2 DEF IdsApart
  <2>4. ~(m < n) /\ ~(n < m)
    BY <1>4, <2>1, <2>3
  <2> QED
    BY <2>4
<1> QED
  BY <1>2, <1>5, <1>6 DEF w, kept

\* Sequences with no id in common are apart together,
LEMMA ApartTogether ==
  ASSUME NEW S, NEW s \in Seq(S), NEW t \in Seq(S), IdsApart(s), IdsApart(t),
         \A m \in 1 .. Len(s) : \A n \in 1 .. Len(t) : s[m].id # t[n].id
  PROVE  IdsApart(s \o t)
<1> DEFINE u == s \o t
<1>1. /\ Len(u) = Len(s) + Len(t) /\ Len(s) \in Nat /\ Len(t) \in Nat
      /\ \A i \in 1 .. Len(s) + Len(t) : u[i] = IF i <= Len(s) THEN s[i] ELSE t[i - Len(s)]
  BY ConcatProperties, LenProperties
<1> HIDE DEF u
<1>2. \A i \in 1 .. Len(u) :
        \/ i \in 1 .. Len(s) /\ u[i] = s[i]
        \/ ~(i <= Len(s)) /\ i - Len(s) \in 1 .. Len(t) /\ u[i] = t[i - Len(s)]
  BY <1>1
<1>3. ASSUME NEW i \in 1 .. Len(u), NEW j \in 1 .. Len(u), u[i].id = u[j].id PROVE i = j
  <2>1. CASE i \in 1 .. Len(s) /\ u[i] = s[i] /\ j \in 1 .. Len(s) /\ u[j] = s[j]
    BY <1>3, <2>1 DEF IdsApart
  <2>2. CASE i \in 1 .. Len(s) /\ u[i] = s[i] /\ j - Len(s) \in 1 .. Len(t) /\ u[j] = t[j - Len(s)]
    BY <1>3, <2>2
  <2>3. CASE j \in 1 .. Len(s) /\ u[j] = s[j] /\ i - Len(s) \in 1 .. Len(t) /\ u[i] = t[i - Len(s)]
    BY <1>3, <2>3
  <2>4. CASE /\ i - Len(s) \in 1 .. Len(t) /\ u[i] = t[i - Len(s)]
             /\ j - Len(s) \in 1 .. Len(t) /\ u[j] = t[j - Len(s)]
    <3>1. i - Len(s) = j - Len(s)
      BY <1>3, <2>4 DEF IdsApart
    <3> QED
      BY <1>1, <3>1
  <2> QED
    BY <1>2, <2>1, <2>2, <2>3, <2>4
<1> QED
  BY <1>3 DEF IdsApart, u

\* What CollectChunk adds are rows of the chunk, none twice.
LEMMA Collected ==
  ASSUME PagesAssumption, BaseInv, CollectChunk
  PROVE  \E add \in Seq(HeldRows) :
           /\ rows' = rows \o add
           /\ \A n \in 1 .. Len(add) : \E k \in 1 .. Len(chunk) :
                add[n].id = chunk[k].id /\ add[n].content = chunk[k].content
           /\ IdsApart(chunk) => IdsApart(add)
<1> DEFINE kept == Filtered(WithRisk(chunk, request), request)
           window == Window(kept, Skip(page))
<1>1. rows' = rows \o (IF request.sort = "risk" THEN kept ELSE window)
  BY DEF CollectChunk
<1>2. /\ kept \in Seq(HeldRows) /\ Len(kept) \in Nat
      /\ \A n \in 1 .. Len(kept) : \E k \in 1 .. Len(chunk) :
           kept[n].id = chunk[k].id /\ kept[n].content = chunk[k].content
      /\ IdsApart(chunk) => IdsApart(kept)
  BY KeptOfChunk, Zenon DEF BaseInv, QueryInv
<1>3. Skip(page) \in Nat /\ total \in Nat
  BY SkipType DEF BaseInv, QueryInv
<1> HIDE DEF kept
<1>4. CASE request.sort = "risk"
  BY <1>1, <1>2, <1>4
<1>5. CASE request.sort # "risk"
  <2> DEFINE d == IF Skip(page) < total THEN 0 ELSE Skip(page) - total
  <2>1. /\ window \in Seq(HeldRows)
        /\ \A n \in 1 .. Len(window) : window[n] = kept[d + n] /\ d + n \in 1 .. Len(kept)
    BY <1>2, <1>3, WindowOf
  <2>2. d \in Nat
    BY <1>3
  <2> HIDE DEF window, d
  <2>3. Len(window) \in Nat
    BY <2>1, LenProperties
  <2>4. ASSUME IdsApart(kept) PROVE IdsApart(window)
    <3> SUFFICES ASSUME NEW m \in 1 .. Len(window), NEW n \in 1 .. Len(window),
                        window[m].id = window[n].id
                 PROVE  m = n
      BY DEF IdsApart
    <3>1. d + m = d + n
      BY <2>1, <2>4 DEF IdsApart
    <3> QED
      BY <2>2, <2>3, <3>1
  <2>5. rows' = rows \o window
    BY <1>1, <1>5 DEF window
  <2>6. \A n \in 1 .. Len(window) : \E k \in 1 .. Len(chunk) :
          window[n].id = chunk[k].id /\ window[n].content = chunk[k].content
    <3> TAKE n \in 1 .. Len(window)
    <3>1. PICK i \in 1 .. Len(kept) : window[n] = kept[i]
      BY <2>1
    <3> QED
      BY <1>2, <3>1
  <2> QED
    BY <1>2, <2>1, <2>4, <2>5, <2>6
<1> QED
  BY <1>4, <1>5

\* Rows sorted by risk are the rows collected.
LEMMA SortedByRisk ==
  ASSUME NEW s \in Seq(PageRow), NEW desc \in BOOLEAN, IdsApart(s)
  PROVE  IdsApart(ByRisk(s, desc))
<1> DEFINE o == Arranged(RiskBelow(s, desc))
           all == ByRisk(s, desc)
<1>1. /\ InOrder(o, RiskBelow(s, desc)) /\ Len(o) = Len(s)
      /\ o \in [1 .. Len(s) -> 1 .. Len(s)]
      /\ Len(all) = Len(s)
      /\ \A n \in 1 .. Len(s) : all[n] = s[o[n]]
  BY ByRiskPlaces
<1> HIDE DEF o, all
<1>2. \A n \in 1 .. Len(s) : Cardinality(RiskBelow(s, desc)[o[n]]) = n - 1
  BY <1>1 DEF InOrder
<1>3. ASSUME NEW m \in 1 .. Len(s), NEW n \in 1 .. Len(s), all[m].id = all[n].id PROVE m = n
  <2>1. o[m] \in 1 .. Len(s) /\ o[n] \in 1 .. Len(s) /\ s[o[m]].id = s[o[n]].id
    BY <1>1, <1>3
  <2>2. o[m] = o[n]
    BY <2>1 DEF IdsApart
  <2>3. m - 1 = n - 1
    BY <1>2, <2>2
  <2> QED
    BY <2>3
<1> QED
  BY <1>1, <1>3 DEF IdsApart, all

\* and so is what is cut out of one.
LEMMA ApartSlice ==
  ASSUME NEW S, NEW s \in Seq(S), NEW limit \in Nat, NEW skip \in Nat, IdsApart(s)
  PROVE  IdsApart(Slice(s, limit, skip))
<1> DEFINE t == Slice(s, limit, skip)
<1>1. \A n \in 1 .. Len(t) : t[n] = s[skip + n] /\ skip + n \in 1 .. Len(s)
  BY SliceOf
<1> HIDE DEF t
<1>2. ASSUME NEW m \in 1 .. Len(t), NEW n \in 1 .. Len(t), t[m].id = t[n].id PROVE m = n
  <2>1. skip + m = skip + n
    BY <1>1, <1>2 DEF IdsApart
  <2> QED
    BY <2>1
<1> QED
  BY <1>2 DEF IdsApart, t

\* A row added at the end of the order of reading leaves the places before it.
LEMMA InsertPlaces ==
  ASSUME PagesAssumption, BaseInv, at # "idle", NEW c \in Contents, Insert(c),
         OldestFirst, Newest(c), NEW x \in HeldRows, x.id \in Selected(request)'
  PROVE  /\ x.id \in Selected(request)
         /\ PlaceIn(PlainRows', x, ReadSort', request'.desc) = Place(x)
<1>1. /\ DOMAIN table' = DOMAIN table \cup {last + 1} /\ table'[last + 1] = c
      /\ \A id \in DOMAIN table : id # last + 1 => table'[id] = table[id]
      /\ UNCHANGED <<duck, request>>
  BY DEF Insert, With, Moves, query
<1>2. last \in Nat /\ \A id \in DOMAIN table : id \in 1 .. last /\ id # last + 1
  BY DEF BaseInv, StoreInv
<1>3. /\ Selected(request)' = {id \in DOMAIN table' : Chosen(id, table'[id])}
      /\ PlainRows' = {PlainOf(id, table'[id]) : id \in Selected(request)'}
      /\ ReadSort' = ReadSort /\ request' = request
  BY <1>1, SelectedThen
<1>4. /\ Selected(request) = {id \in DOMAIN table : Chosen(id, table[id])}
      /\ PlainRows = {PlainOf(id, table[id]) : id \in Selected(request)}
  BY SelectedBy
<1>5. x.id \in DOMAIN table /\ x.id # last + 1 /\ x.content = table[x.id] /\ x.id \in 1 .. last
  BY <1>1, <1>2, <1>3 DEF HeldRows
<1>6. x.id \in Selected(request)
  BY <1>1, <1>3, <1>4, <1>5
<1>7. PlainRows \subseteq PlainRows'
  BY <1>1, <1>2, <1>3, <1>4
<1>8. \A y \in PlainRows' : y \in PlainRows \/ y = PlainOf(last + 1, c)
  BY <1>1, <1>2, <1>3, <1>4
<1>9. ReadSort = "ts" /\ request.desc = FALSE
  BY RequestType DEF OldestFirst, ReadSort, BaseInv
<1>10. ~Comes(PlainOf(last + 1, c), x, "ts", FALSE)
  <2> DEFINE y == PlainOf(last + 1, c)
  <2>1. y.id = last + 1 /\ y.content = c
    BY DEF PlainOf
  <2>2. x.content.ts.halves <= c.ts.halves
    BY <1>5 DEF Newest
  <2>3. x.content.ts.halves \in Int /\ c.ts.halves \in Int
    <3>1. x.content \in Packets \cup Frames /\ c \in Packets \cup Frames
      BY DEF HeldRows, PageRow, PagesAssumption
    <3> QED
      BY <3>1 DEF Packets, Frames, Numbers
  <2>4. Key(y, "ts") = c.ts.halves /\ Key(x, "ts") = x.content.ts.halves
    BY <2>1 DEF Key
  <2>5. ~(y.id < x.id)
    BY <1>2, <1>5, <2>1
  <2> HIDE DEF y
  <2>6. ~Before(y, x, "ts")
    BY <2>2, <2>3, <2>4, <2>5 DEF Before
  <2> QED
    BY <2>6 DEF Comes, y
<1>11. {y \in PlainRows' : Comes(y, x, "ts", FALSE)} = {y \in PlainRows : Comes(y, x, "ts", FALSE)}
  BY <1>7, <1>8, <1>10
<1> QED
  BY <1>3, <1>6, <1>9, <1>11 DEF Place, PlaceIn

\* Rows taken out make the places of others smaller.
LEMMA DiscardPlaces ==
  ASSUME PagesAssumption, BaseInv, at # "idle", NEW source \in {"live", "offline"},
         Discard(source), NEW x
  PROVE  /\ x.id \in Selected(request)' => x.id \in Selected(request)
         /\ PlaceIn(PlainRows', x, ReadSort', request'.desc) <= Place(x)
         /\ PlaceIn(PlainRows', x, ReadSort', request'.desc) \in Nat /\ Place(x) \in Nat
<1>1. /\ DOMAIN table' \subseteq DOMAIN table /\ \A id \in DOMAIN table' : table'[id] = table[id]
      /\ UNCHANGED <<duck, request>>
  BY DEF Discard, Moves, query
<1>2. /\ Selected(request)' = {id \in DOMAIN table' : Chosen(id, table'[id])}
      /\ PlainRows' = {PlainOf(id, table'[id]) : id \in Selected(request)'}
      /\ ReadSort' = ReadSort /\ request' = request
  BY <1>1, SelectedThen
<1>3. /\ Selected(request) = {id \in DOMAIN table : Chosen(id, table[id])}
      /\ PlainRows = {PlainOf(id, table[id]) : id \in Selected(request)}
  BY SelectedBy
<1>4. Selected(request)' \subseteq Selected(request)
  BY <1>1, <1>2, <1>3
<1>5. PlainRows' \subseteq PlainRows
  BY <1>1, <1>2, <1>3, <1>4
<1>6. IsFiniteSet(PlainRows)
  BY PlainOrderable DEF Orderable, BaseInv
<1> QED
  BY <1>2, <1>4, <1>5, <1>6, PlaceType DEF Place

\* Places are numbers.
LEMMA PlaceNat ==
  ASSUME PagesAssumption, StoreInv, at # "idle", NEW x
  PROVE  Place(x) \in Nat
BY PlainOrderable, PlaceType DEF Orderable, Place

\* Whatever happens elsewhere, as long as the scan is still, no row already read
\* comes to a place that is yet to be read.
LEMMA ElsewherePlaces ==
  ASSUME PagesAssumption, BaseInv, at # "idle", Elsewhere, Still',
         NEW x \in HeldRows, x.id \in Selected(request)'
  PROVE  /\ x.id \in Selected(request)
         /\ PlaceIn(PlainRows', x, ReadSort', request'.desc) <= Place(x)
         /\ PlaceIn(PlainRows', x, ReadSort', request'.desc) \in Nat
<1>1. ASSUME NEW c \in Contents, Insert(c)
      PROVE  /\ x.id \in Selected(request)
             /\ PlaceIn(PlainRows', x, ReadSort', request'.desc) = Place(x)
  <2>1. moved' = moved \cup {IF Newest(c) THEN "grown" ELSE "backdated"} /\ request' = request
    BY <1>1 DEF Insert, Moves, query
  <2>2. OldestFirst /\ Newest(c)
    BY <2>1 DEF Still, OldestFirst
  <2> QED
    BY <1>1, <2>2, InsertPlaces
<1>2. ASSUME NEW c \in Contents, NEW rank \in {0, 3}, Rerank(c, rank)
      PROVE  /\ x.id \in Selected(request)
             /\ PlaceIn(PlainRows', x, ReadSort', request'.desc) = Place(x)
  <2>1. UNCHANGED <<duck, request, table>>
    BY <1>2 DEF Rerank, Moves, query
  <2> QED
    BY <2>1, SelectedThen, SelectedBy DEF Place
<1>3. Place(x) \in Nat
  BY PlaceNat DEF BaseInv
<1>4. Place(x) <= Place(x)
  BY <1>3
<1> QED
  BY <1>1, <1>2, <1>3, <1>4, DiscardPlaces DEF Elsewhere

\* No step of the query reads a row again,
LEMMA QueryApart ==
  ASSUME PagesAssumption, BaseInv, BaseInv', ApartInv, Query
  PROVE  ApartInv'
<1> SUFFICES ASSUME at' # "idle", (Direct(request) \/ Still)'
             PROVE  /\ IdsApart(rows') /\ IdsApart(chunk')
                    /\ Scanning' =>
                         /\ \A m \in 1 .. Len(rows') : \A n \in 1 .. Len(chunk') :
                              rows'[m].id # chunk'[n].id
                         /\ \A n \in 1 .. Len(rows') :
                              rows'[n].id \in Selected(request)' =>
                                PlaceIn(PlainRows', rows'[n], ReadSort', request'.desc) < offset'
                         /\ \A n \in 1 .. Len(chunk') :
                              chunk'[n].id \in Selected(request)' =>
                                PlaceIn(PlainRows', chunk'[n], ReadSort', request'.desc) < offset'
  BY DEF ApartInv, Place
<1>1. at # "idle" /\ ~Consume
  BY DEF Query, ReadPage, AttachPage, Count, ScanChunk, CollectChunk, FinishPackets, FinishFrames,
         Consume, Goes
<1>2. UNCHANGED <<store, request, history>>
  BY <1>1 DEF Query, ReadPage, AttachPage, Count, ScanChunk, CollectChunk, FinishPackets,
              FinishFrames, result
<1>3. /\ Selected(request)' = Selected(request) /\ PlainRows' = PlainRows
      /\ ReadSort' = ReadSort /\ request' = request /\ Direct(request)' = Direct(request)
  BY <1>2, SameReading
<1>4. /\ IdsApart(rows) /\ IdsApart(chunk)
      /\ Scanning =>
           /\ \A m \in 1 .. Len(rows) : \A n \in 1 .. Len(chunk) : rows[m].id # chunk[n].id
           /\ \A n \in 1 .. Len(rows) : rows[n].id \in Selected(request) => Place(rows[n]) < offset
           /\ \A n \in 1 .. Len(chunk) : chunk[n].id \in Selected(request) => Place(chunk[n]) < offset
  BY <1>1, <1>2, <1>3 DEF ApartInv, Still, OldestFirst, history
<1>5. /\ chunk \in Seq(HeldRows) /\ rows \in Seq(HeldRows)
      /\ Len(chunk) \in Nat /\ Len(rows) \in Nat /\ offset \in Nat /\ StoreInv
  BY LenProperties DEF BaseInv, QueryInv
<1>6. IdsApart(<< >>) /\ Len(<< >>) = 0
  BY EmptySeq DEF IdsApart
<1>7. ASSUME NEW x PROVE PlaceIn(PlainRows', x, ReadSort', request'.desc) = Place(x)
  BY <1>3 DEF Place
<1>8. CASE ReadPage
  <2>1. IdsApart(chunk')
    BY <1>1, <1>5, <1>8, ReadApart, LimitType, SkipType DEF ReadPage, BaseInv, QueryInv
  <2> QED
    BY <1>4, <1>8, <2>1 DEF ReadPage, Goes, Scanning, result
<1>9. CASE AttachPage
  <2>1. /\ Len(rows') = Len(chunk)
        /\ \A n \in 1 .. Len(chunk) : rows'[n].id = chunk[n].id
    BY <1>5, <1>9, WithRiskOf DEF AttachPage
  <2>2. IdsApart(rows')
    BY <1>4, <2>1 DEF IdsApart
  <2> QED
    BY <1>6, <1>9, <2>2 DEF AttachPage, Goes, Scanning
<1>10. CASE Count
  BY <1>4, <1>10 DEF Count, Goes, Scanning
<1>11. CASE ScanChunk
  <2>1. ChunkSize \in Nat
    BY DEF PagesAssumption
  <2>2. chunk' = Read(request, ChunkSize, offset) /\ offset' = offset + Len(chunk') /\ rows' = rows
        /\ Scanning
    BY <1>11 DEF ScanChunk, result, Scanning
  <2>3. IdsApart(chunk')
    BY <1>1, <1>5, <2>1, <2>2, ReadApart
  <2>4. chunk' \in Seq(PlainRows)
        /\ \A n \in 1 .. Len(chunk') : chunk'[n] \in PlainRows /\ Place(chunk'[n]) = offset + n - 1
    <3> DEFINE c == Read(request, ChunkSize, offset)
    <3>1. /\ c \in Seq(PlainRows)
          /\ \A n \in 1 .. Len(c) : c[n] \in PlainRows /\ Place(c[n]) = offset + n - 1
      BY <1>1, <1>5, <2>1, ReadOf, Zenon
    <3> HIDE DEF c
    <3>2. chunk' = c
      BY <2>2 DEF c
    <3> QED
      BY <3>1, <3>2
  <2>5. Len(chunk') \in Nat
    BY <2>4, LenProperties
  <2>6. \A n \in 1 .. Len(chunk') :
          /\ chunk'[n] \in HeldRows /\ chunk'[n].id \in Selected(request)
          /\ offset <= Place(chunk'[n]) /\ Place(chunk'[n]) < offset'
    BY <1>1, <1>5, <2>2, <2>4, <2>5, PlainOrderable
  <2>7. ASSUME NEW m \in 1 .. Len(rows), NEW n \in 1 .. Len(chunk') PROVE rows[m].id # chunk'[n].id
    <3> SUFFICES ASSUME rows[m].id = chunk'[n].id PROVE FALSE
      OBVIOUS
    <3>1. rows[m] \in HeldRows /\ chunk'[n] \in HeldRows /\ rows[m].id \in Selected(request)
      BY <1>5, <2>6, ElementOfSeq
    <3>2. Place(rows[m]) = Place(chunk'[n])
      BY <1>1, <1>5, <3>1, OneIdOnePlace
    <3>3. Place(rows[m]) < offset /\ offset <= Place(chunk'[n])
      BY <1>4, <2>2, <2>6, <3>1
    <3>4. Place(rows[m]) \in Nat
      BY <1>1, <1>5, PlaceNat
    <3> QED
      BY <1>5, <3>2, <3>3, <3>4
  <2>8. ASSUME NEW n \in 1 .. Len(rows), rows[n].id \in Selected(request) PROVE Place(rows[n]) < offset'
    <3>1. Place(rows[n]) < offset /\ Place(rows[n]) \in Nat
      BY <1>1, <1>4, <1>5, <2>2, <2>8, PlaceNat
    <3> QED
      BY <1>5, <2>2, <2>5, <3>1
  <2> QED
    BY <1>3, <1>4, <1>7, <2>2, <2>3, <2>6, <2>7, <2>8
<1>12. CASE CollectChunk
  <2>1. PICK add \in Seq(HeldRows) :
          /\ rows' = rows \o add
          /\ \A n \in 1 .. Len(add) : \E k \in 1 .. Len(chunk) :
               add[n].id = chunk[k].id /\ add[n].content = chunk[k].content
          /\ IdsApart(chunk) => IdsApart(add)
    BY <1>12, Collected
  <2>2. chunk' = << >> /\ offset' = offset /\ Scanning
    BY <1>12 DEF CollectChunk, Scanning
  <2>3. IdsApart(rows')
    <3>1. \A m \in 1 .. Len(rows) : \A n \in 1 .. Len(add) : rows[m].id # add[n].id
      BY <1>4, <2>1, <2>2
    <3> QED
      BY <1>4, <1>5, <2>1, <3>1, ApartTogether
  <2>4. ASSUME NEW i \in 1 .. Len(rows'), rows'[i].id \in Selected(request)
        PROVE  Place(rows'[i]) < offset
    <3>1. \/ i \in 1 .. Len(rows) /\ rows'[i] = rows[i]
          \/ i - Len(rows) \in 1 .. Len(add) /\ rows'[i] = add[i - Len(rows)]
      <4>1. /\ Len(rows') = Len(rows) + Len(add) /\ Len(add) \in Nat
            /\ \A j \in 1 .. Len(rows) + Len(add) :
                 rows'[j] = IF j <= Len(rows) THEN rows[j] ELSE add[j - Len(rows)]
        BY <1>5, <2>1, ConcatProperties, LenProperties
      <4> QED
        BY <1>5, <4>1
    <3>2. CASE i \in 1 .. Len(rows) /\ rows'[i] = rows[i]
      BY <1>4, <2>2, <2>4, <3>2
    <3>3. CASE i - Len(rows) \in 1 .. Len(add) /\ rows'[i] = add[i - Len(rows)]
      <4>1. PICK k \in 1 .. Len(chunk) : rows'[i].id = chunk[k].id
        BY <2>1, <3>3
      <4>2. chunk[k] \in HeldRows /\ rows'[i] \in HeldRows
        BY <1>5, <2>1, <3>3, ElementOfSeq
      <4>3. Place(rows'[i]) = Place(chunk[k])
        BY <1>1, <1>5, <2>4, <4>1, <4>2, OneIdOnePlace
      <4> QED
        BY <1>4, <2>2, <2>4, <4>1, <4>3
    <3> QED
      BY <3>1, <3>2, <3>3
  <2> QED
    BY <1>3, <1>6, <1>7, <2>2, <2>3, <2>4
<1>13. CASE FinishPackets
  <2>1. IdsApart(rows')
    <3>1. CASE request.sort = "risk"
      <4>1. rows \in Seq(PageRow)
        BY <1>5, SeqMonotonic DEF HeldRows
      <4>2. request.desc \in BOOLEAN
        BY <1>1, <1>5, RequestType
      <4>3. IdsApart(ByRisk(rows, request.desc)) /\ ByRisk(rows, request.desc) \in Seq(PageRow)
        BY <1>4, <4>1, <4>2, SortedByRisk, ByRiskPlaces
      <4>4. Skip(page') \in Nat /\ Limit \in Nat
        BY SkipType, LimitType DEF BaseInv, QueryInv
      <4>5. rows' = Slice(ByRisk(rows, request.desc), Limit, Skip(page'))
        BY <1>13, <3>1 DEF FinishPackets
      <4> QED
        BY <4>3, <4>4, <4>5, ApartSlice
    <3>2. CASE request.sort # "risk"
      BY <1>4, <1>13, <3>2 DEF FinishPackets
    <3> QED
      BY <3>1, <3>2
  <2> QED
    BY <1>4, <1>13, <2>1 DEF FinishPackets, Goes, Scanning
<1>14. CASE FinishFrames
  <2>1. chunk' = << >>
    BY <1>14 DEF FinishFrames, BaseInv, QueryInv
  <2>2. (at' = "done" /\ rows' = rows) \/ (at' = "scan" /\ rows' = << >>)
    BY <1>14 DEF FinishFrames, Goes
  <2> QED
    BY <1>4, <1>6, <2>1, <2>2 DEF Scanning
<1> QED
  BY <1>1, <1>8, <1>9, <1>10, <1>11, <1>12, <1>13, <1>14 DEF Query

\* and neither does one when the table grew behind the scan or shrank.
LEMMA NextApart ==
  ASSUME PagesAssumption, BaseInv, BaseInv', ApartInv, [Next]_vars
  PROVE  ApartInv'
<1>1. CASE UNCHANGED vars
  <2>1. UNCHANGED <<store, request>>
    BY <1>1 DEF vars, query
  <2> QED
    BY <1>1, <2>1, SameReading
       DEF vars, store, query, result, history, ApartInv, Still, OldestFirst, Scanning, Place
<1>2. CASE Query
  BY <1>2, QueryApart
<1>3. ASSUME NEW r \in Requests, Ask(r) PROVE ApartInv'
  <2>1. rows' = << >> /\ chunk' = << >> /\ Len(<< >>) = 0
    BY <1>3, EmptySeq DEF Ask
  <2> QED
    BY <2>1 DEF ApartInv, IdsApart
<1>4. CASE Elsewhere
  <2> SUFFICES ASSUME at' # "idle", (Direct(request) \/ Still)'
               PROVE  /\ IdsApart(rows') /\ IdsApart(chunk')
                      /\ Scanning' =>
                           /\ \A m \in 1 .. Len(rows') : \A n \in 1 .. Len(chunk') :
                                rows'[m].id # chunk'[n].id
                           /\ \A n \in 1 .. Len(rows') :
                                rows'[n].id \in Selected(request)' =>
                                  PlaceIn(PlainRows', rows'[n], ReadSort', request'.desc) < offset'
                           /\ \A n \in 1 .. Len(chunk') :
                                chunk'[n].id \in Selected(request)' =>
                                  PlaceIn(PlainRows', chunk'[n], ReadSort', request'.desc) < offset'
    BY DEF ApartInv, Place
  <2>1. /\ UNCHANGED query
        /\ \E how : moved' = IF at = "idle" THEN {} ELSE moved \cup {how}
    BY <1>4 DEF Elsewhere, Insert, Discard, Rerank, Moves
  <2>2. /\ at' = at /\ request' = request /\ rows' = rows /\ chunk' = chunk /\ offset' = offset
        /\ Direct(request)' = Direct(request)
    BY <2>1 DEF query, result, Direct, PushedDown
  <2>3. Still' => Still
    BY <2>1, <2>2 DEF Still, OldestFirst
  <2>4. /\ IdsApart(rows) /\ IdsApart(chunk)
        /\ Scanning =>
             /\ \A m \in 1 .. Len(rows) : \A n \in 1 .. Len(chunk) : rows[m].id # chunk[n].id
             /\ \A n \in 1 .. Len(rows) : rows[n].id \in Selected(request) => Place(rows[n]) < offset
             /\ \A n \in 1 .. Len(chunk) : chunk[n].id \in Selected(request) => Place(chunk[n]) < offset
    BY <2>2, <2>3 DEF ApartInv
  <2>5. CASE Scanning'
    <3>1. Scanning /\ Still'
      BY <2>2, <2>5 DEF Scanning, BaseInv, QueryInv
    <3>2. chunk \in Seq(HeldRows) /\ rows \in Seq(HeldRows) /\ offset \in Nat
      BY DEF BaseInv, QueryInv
    <3>3. ASSUME NEW x \in HeldRows, x.id \in Selected(request)',
                 x.id \in Selected(request) => Place(x) < offset
          PROVE  PlaceIn(PlainRows', x, ReadSort', request'.desc) < offset
      <4>1. /\ x.id \in Selected(request)
            /\ PlaceIn(PlainRows', x, ReadSort', request'.desc) <= Place(x)
            /\ PlaceIn(PlainRows', x, ReadSort', request'.desc) \in Nat
        BY <1>4, <2>2, <3>1, <3>3, ElsewherePlaces
      <4>2. Place(x) \in Nat
        BY <2>2, PlaceNat DEF BaseInv
      <4> QED
        BY <3>2, <3>3, <4>1, <4>2
    <3>4. \A n \in 1 .. Len(rows) : rows[n] \in HeldRows
      BY <3>2, ElementOfSeq
    <3>5. \A n \in 1 .. Len(chunk) : chunk[n] \in HeldRows
      BY <3>2, ElementOfSeq
    <3> QED
      BY <2>2, <2>4, <3>1, <3>3, <3>4, <3>5
  <2>6. CASE ~Scanning'
    BY <2>2, <2>4, <2>6
  <2> QED
    BY <2>5, <2>6
<1> QED
  BY <1>1, <1>2, <1>3, <1>4 DEF Next

\* Whatever is stored, asked for and done meanwhile, an answer has no row twice, but for
\* a scan of a table that grew before the place the scan had reached.
THEOREM NoRowIsReadTwice ==
  PagesAssumption /\ Spec => []NoRowTwice
<1> SUFFICES ASSUME PagesAssumption PROVE Spec => []NoRowTwice
  OBVIOUS
<1>1. Init => BaseInv /\ ApartInv
  BY InitBase DEF Init, ApartInv
<1>2. BaseInv /\ ApartInv /\ [Next]_vars => (BaseInv /\ ApartInv)'
  BY NextBase, NextApart
<1>3. BaseInv /\ ApartInv => NoRowTwice
  <2> SUFFICES ASSUME BaseInv, ApartInv, Answered, Direct(request) \/ Still
               PROVE  IsInjective([n \in DOMAIN rows |-> rows[n].id])
    BY DEF NoRowTwice, Still
  <2>1. DOMAIN rows = 1 .. Len(rows)
    BY LenProperties DEF BaseInv, QueryInv
  <2>2. IdsApart(rows)
    BY DEF ApartInv, Answered
  <2> QED
    BY <2>1, <2>2 DEF IdsApart, IsInjective
<1> QED
  BY <1>1, <1>2, <1>3, PTL DEF Spec

-------------------------------------------------------------------------------
(* What was stored when the query began, and the risk of its rows *)

StartInv ==
  at # "idle" =>
    /\ \A id \in DOMAIN started : id \in 1 .. last
    /\ "shrunk" \notin moved =>
         \A id \in DOMAIN started : id \in DOMAIN table /\ table[id] = started[id]
    /\ moved = {} => table = started
    /\ moved \subseteq {"grown"} =>
         \A i \in DOMAIN started : \A j \in DOMAIN table :
           j \notin DOMAIN started => i < j /\ table[i].ts.halves <= table[j].ts.halves
RankInv ==
  /\ \A n \in 1 .. Len(chunk) : chunk[n].rank = 0
  /\ "reranked" \notin moved => \A n \in 1 .. Len(rows) : rows[n].rank = risk[rows[n].content]

\* A query leaves the store as it is.
LEMMA QueryOrAsk ==
  ASSUME Query
  PROVE  /\ UNCHANGED store /\ at # "idle"
         /\ at' # "idle" => UNCHANGED <<request, history>>
BY DEF Query, ReadPage, AttachPage, Count, ScanChunk, CollectChunk, FinishPackets, FinishFrames,
       Consume, result, Goes

\* StartInv holds after any step,
LEMMA NextStart ==
  ASSUME PagesAssumption, BaseInv, StartInv, [Next]_vars
  PROVE  StartInv'
<1>1. CASE UNCHANGED vars
  BY <1>1 DEF vars, store, query, result, history, StartInv
<1>2. CASE Query
  BY <1>2, QueryOrAsk DEF StartInv, store, history
<1>3. ASSUME NEW r \in Requests, Ask(r) PROVE StartInv'
  BY <1>3 DEF Ask, StartInv, store, BaseInv, StoreInv
<1>4. ASSUME NEW c \in Contents, Insert(c) PROVE StartInv'
  <2> SUFFICES ASSUME at' # "idle" PROVE StartInv'
    BY DEF StartInv
  <2>1. /\ DOMAIN table' = DOMAIN table \cup {last + 1} /\ table'[last + 1] = c
        /\ \A id \in DOMAIN table : id # last + 1 => table'[id] = table[id]
        /\ last' = last + 1 /\ started' = started /\ at # "idle"
        /\ moved' = moved \cup {IF Newest(c) THEN "grown" ELSE "backdated"}
    BY <1>4 DEF Insert, With, Moves, query
  <2>2. last \in Nat /\ \A id \in DOMAIN table : id \in 1 .. last /\ id # last + 1
    BY DEF BaseInv, StoreInv
  <2>3. \A id \in DOMAIN started : id \in 1 .. last /\ id \in 1 .. last' /\ id < last + 1 /\ id # last + 1
    BY <2>1, <2>2 DEF StartInv
  <2>4. ASSUME "shrunk" \notin moved', NEW id \in DOMAIN started
        PROVE  id \in DOMAIN table' /\ table'[id] = started[id] /\ table[id] = started[id]
               /\ id \in DOMAIN table
    <3>1. id \in DOMAIN table /\ table[id] = started[id]
      BY <2>1, <2>4 DEF StartInv
    <3> QED
      BY <2>1, <2>3, <3>1
  <2>5. ASSUME moved' \subseteq {"grown"}, NEW i \in DOMAIN started, NEW j \in DOMAIN table',
               j \notin DOMAIN started
        PROVE  i < j /\ table'[i].ts.halves <= table'[j].ts.halves
    <3>1. moved \subseteq {"grown"} /\ "shrunk" \notin moved' /\ Newest(c)
      BY <2>1, <2>5
    <3>2. i \in DOMAIN table /\ table'[i] = table[i]
      BY <2>1, <2>3, <2>4, <3>1
    <3>3. CASE j = last + 1
      BY <2>1, <2>3, <3>1, <3>2, <3>3 DEF Newest
    <3>4. CASE j # last + 1
      BY <2>1, <2>5, <3>1, <3>2, <3>4 DEF StartInv
    <3> QED
      BY <3>3, <3>4
  <2>6. moved' # {}
    BY <2>1
  <2> QED
    BY <2>1, <2>3, <2>4, <2>5, <2>6 DEF StartInv
<1>5. ASSUME NEW c \in Contents, NEW rank \in {0, 3}, Rerank(c, rank) PROVE StartInv'
  BY <1>5 DEF Rerank, Moves, query, StartInv
<1>6. ASSUME NEW source \in {"live", "offline"}, Discard(source) PROVE StartInv'
  BY <1>6 DEF Discard, Moves, query, StartInv
<1> QED
  BY <1>1, <1>2, <1>3, <1>4, <1>5, <1>6 DEF Next, Elsewhere

\* Rows collected come with the risk of their flow.
LEMMA CollectedRisk ==
  ASSUME PagesAssumption, BaseInv, RankInv, CollectChunk
  PROVE  /\ "reranked" \notin moved =>
              \A n \in 1 .. Len(rows') : rows'[n].rank = risk[rows'[n].content]
<1> DEFINE w == WithRisk(chunk, request)
           kept == Filtered(w, request)
           window == Window(kept, Skip(page))
           Right(s) == \A n \in 1 .. Len(s) : s[n].rank = risk[s[n].content]
<1>1. /\ chunk \in Seq(HeldRows) /\ rows \in Seq(HeldRows) /\ StoreInv
      /\ Skip(page) \in Nat /\ total \in Nat
  BY SkipType DEF BaseInv, QueryInv
<1>2. /\ w \in Seq(HeldRows) /\ Len(w) = Len(chunk)
      /\ \A k \in 1 .. Len(chunk) :
           w[k].content = chunk[k].content
           /\ w[k].rank = IF request.op = "frames" THEN chunk[k].rank ELSE risk[chunk[k].content]
  BY <1>1, WithRiskOf, Zenon
<1>3. Right(w)
  <2> SUFFICES ASSUME NEW k \in 1 .. Len(chunk) PROVE w[k].rank = risk[w[k].content]
    BY <1>2
  <2>1. CASE request.op = "frames"
    <3>1. chunk[k] \in HeldRows
      BY <1>1, ElementOfSeq
    <3>2. IsFrame(chunk[k].content) /\ chunk[k].content \in Contents
      BY <2>1, <3>1 DEF HeldRows, PageRow
    <3>3. risk[chunk[k].content] = 0 /\ chunk[k].rank = 0
      BY <1>1, <3>2 DEF StoreInv, RankInv
    <3> QED
      BY <1>2, <2>1, <3>3
  <2>2. CASE request.op # "frames"
    BY <1>2, <2>2
  <2> QED
    BY <2>1, <2>2
<1> HIDE DEF w
<1>4. kept \in Seq(HeldRows) /\ Len(kept) \in Nat
  BY <1>2, FilteredType
<1>5. Right(kept)
  <2>1. \A s \in Seq(HeldRows) : \E o \in [1 .. Len(Filtered(s, request)) -> 1 .. Len(s)] :
          \A n \in 1 .. Len(Filtered(s, request)) : Filtered(s, request)[n] = s[o[n]]
    BY FilteredOrder
  <2>2. PICK o \in [1 .. Len(kept) -> 1 .. Len(w)] : \A n \in 1 .. Len(kept) : kept[n] = w[o[n]]
    BY <1>2, <2>1
  <2> HIDE DEF kept
  <2> QED
    BY <1>3, <2>2
<1>6. rows' = rows \o (IF request.sort = "risk" THEN kept ELSE window)
  BY DEF CollectChunk, w
<1> HIDE DEF kept
<1>7. window \in Seq(HeldRows) /\ Right(window)
  <2> DEFINE d == IF Skip(page) < total THEN 0 ELSE Skip(page) - total
  <2>1. /\ window \in Seq(HeldRows)
        /\ \A n \in 1 .. Len(window) : window[n] = kept[d + n] /\ d + n \in 1 .. Len(kept)
    BY <1>1, <1>4, WindowOf
  <2> HIDE DEF window, d
  <2> QED
    BY <1>5, <2>1
<1> HIDE DEF window
<1>8. PICK add \in Seq(HeldRows) : rows' = rows \o add /\ Right(add)
  BY <1>4, <1>5, <1>6, <1>7
<1>9. ASSUME Right(rows) PROVE Right(rows')
  <2>1. /\ Len(rows') = Len(rows) + Len(add) /\ Len(add) \in Nat /\ Len(rows) \in Nat
        /\ \A j \in 1 .. Len(rows) + Len(add) :
             rows'[j] = IF j <= Len(rows) THEN rows[j] ELSE add[j - Len(rows)]
    BY <1>1, <1>8, ConcatProperties, LenProperties
  <2>2. \A j \in 1 .. Len(rows') : \/ j \in 1 .. Len(rows) /\ rows'[j] = rows[j]
                                   \/ j - Len(rows) \in 1 .. Len(add) /\ rows'[j] = add[j - Len(rows)]
    BY <2>1
  <2> QED
    BY <1>8, <1>9, <2>2
<1> QED
  BY <1>9 DEF RankInv

\* and so does RankInv.
LEMMA NextRank ==
  ASSUME PagesAssumption, BaseInv, RankInv, [Next]_vars
  PROVE  RankInv'
<1>0. Len(<< >>) = 0
  BY EmptySeq
<1>1. CASE UNCHANGED vars
  BY <1>1 DEF vars, store, query, result, history, RankInv
<1>2. CASE Query
  <2>1. UNCHANGED store /\ (at' # "idle" => moved' = moved) /\ at # "idle"
    BY <1>2, QueryOrAsk DEF history
  <2>2. chunk \in Seq(HeldRows) /\ rows \in Seq(HeldRows) /\ StoreInv /\ page \in Nat \ {0}
        /\ offset \in Nat /\ ChunkSize \in Nat
    BY DEF BaseInv, QueryInv, PagesAssumption
  <2>3. ASSUME NEW limit \in Nat, NEW skip \in Nat, chunk' = Read(request, limit, skip)
        PROVE  \A n \in 1 .. Len(chunk') : chunk'[n].rank = 0
    <3>1. \A n \in 1 .. Len(chunk') : chunk'[n] \in PlainRows
      BY <2>1, <2>2, <2>3, ReadOf
    <3> QED
      BY <2>1, <2>2, <3>1, PlainOrderable
  <2>4. CASE ReadPage
    <3>1. Limit \in Nat /\ Skip(page) \in Nat
      BY <2>2, LimitType, SkipType
    <3> QED
      BY <2>1, <2>3, <2>4, <3>1 DEF ReadPage, RankInv, store, result, history
  <2>5. CASE AttachPage
    <3>1. /\ Len(rows') = Len(chunk)
          /\ \A n \in 1 .. Len(chunk) :
               /\ rows'[n].content = chunk[n].content
               /\ rows'[n].rank = IF request.op = "frames" THEN chunk[n].rank ELSE risk[chunk[n].content]
      BY <2>2, <2>5, WithRiskOf DEF AttachPage
    <3>2. ASSUME NEW n \in 1 .. Len(rows') PROVE rows'[n].rank = risk[rows'[n].content]
      <4>1. chunk[n] \in HeldRows
        BY <2>2, <3>1, ElementOfSeq
      <4>2. CASE request.op = "frames"
        <5>1. IsFrame(chunk[n].content) /\ chunk[n].content \in Contents
          BY <4>1, <4>2 DEF HeldRows, PageRow
        <5>2. risk[chunk[n].content] = 0 /\ chunk[n].rank = 0
          BY <2>2, <3>1, <5>1 DEF StoreInv, RankInv
        <5> QED
          BY <3>1, <4>2, <5>2
      <4> QED
        BY <3>1, <4>2
    <3> QED
      BY <1>0, <2>1, <2>5, <3>2 DEF AttachPage, RankInv, store
  <2>6. CASE Count
    BY <2>1, <2>6 DEF Count, RankInv, store, history
  <2>7. CASE ScanChunk
    BY <2>1, <2>2, <2>3, <2>7 DEF ScanChunk, RankInv, store, result, history
  <2>8. CASE CollectChunk
    BY <1>0, <2>1, <2>8, CollectedRisk DEF CollectChunk, RankInv, store, history
  <2>9. CASE FinishPackets
    <3>1. ASSUME request.sort = "risk", "reranked" \notin moved, NEW n \in 1 .. Len(rows')
          PROVE  rows'[n].rank = risk[rows'[n].content]
      <4> DEFINE o == Arranged(RiskBelow(rows, request.desc))
                 all == ByRisk(rows, request.desc)
      <4>1. rows \in Seq(PageRow) /\ request.desc \in BOOLEAN
        BY <2>1, <2>2, SeqMonotonic, RequestType DEF HeldRows
      <4>2. /\ all \in Seq(PageRow) /\ Len(all) = Len(rows)
            /\ o \in [1 .. Len(rows) -> 1 .. Len(rows)]
            /\ \A i \in 1 .. Len(rows) : all[i] = rows[o[i]]
        BY <4>1, ByRiskPlaces
      <4>3. rows' = Slice(all, Limit, Skip(page'))
        BY <2>9, <3>1 DEF FinishPackets
      <4>4. Skip(page') \in Nat /\ Limit \in Nat
        <5>1. page' \in Nat \ {0}
          BY <2>9, PagesOfType DEF FinishPackets, BaseInv, QueryInv
        <5> QED
          BY <5>1, SkipType, LimitType
      <4> HIDE DEF o, all
      <4>5. rows'[n] = all[Skip(page') + n] /\ Skip(page') + n \in 1 .. Len(all)
        BY <4>2, <4>3, <4>4, SliceOf
      <4>6. PICK i \in 1 .. Len(rows) : rows'[n] = rows[i]
        BY <4>2, <4>5
      <4> QED
        BY <3>1, <4>6 DEF RankInv
    <3>2. CASE request.sort = "risk"
      BY <2>1, <2>9, <3>1, <3>2 DEF FinishPackets, RankInv, store, history
    <3>3. CASE request.sort # "risk"
      BY <2>1, <2>9, <3>3 DEF FinishPackets, RankInv, store, history
    <3> QED
      BY <3>2, <3>3
  <2>10. CASE FinishFrames
    BY <1>0, <2>1, <2>10 DEF FinishFrames, RankInv, store, history
  <2>11. CASE Consume
    BY <1>0, <2>11 DEF Consume, RankInv, BaseInv, QueryInv
  <2> QED
    BY <1>2, <2>4, <2>5, <2>6, <2>7, <2>8, <2>9, <2>10, <2>11 DEF Query
<1>3. ASSUME NEW r \in Requests, Ask(r) PROVE RankInv'
  BY <1>0, <1>3 DEF Ask, RankInv
<1>4. ASSUME NEW c \in Contents, Insert(c) PROVE RankInv'
  BY <1>0, <1>4 DEF Insert, Moves, RankInv, query, result, BaseInv, QueryInv
<1>5. ASSUME NEW c \in Contents, NEW rank \in {0, 3}, Rerank(c, rank) PROVE RankInv'
  BY <1>0, <1>5 DEF Rerank, Moves, RankInv, query, result, BaseInv, QueryInv
<1>6. ASSUME NEW source \in {"live", "offline"}, Discard(source) PROVE RankInv'
  BY <1>0, <1>6 DEF Discard, Moves, RankInv, query, result, BaseInv, QueryInv
<1> QED
  BY <1>1, <1>2, <1>3, <1>4, <1>5, <1>6 DEF Next, Elsewhere

\* A packet is read by the SQL of a compiled rule when the matcher takes it.
LEMMA RuleOnRow ==
  ASSUME PagesAssumption, StoreInv, at # "idle", NEW id \in DOMAIN table, ~IsFrame(table[id]),
         Visible(table[id], request), PushedDown(request), InSql(request.rule), Alike(table),
         NEW rank \in Risk
  PROVE  SqlRule(Stored(id), request.rule, InDuck(request)) <=>
           MatchRule(Row(id, table[id], rank), request.rule, FALSE)
<1> DEFINE row == Row(id, table[id], rank)
           plain == Row(id, table[id], 0)
           stored == Stored(id)
           inDuck == InDuck(request)
<1>1. 0 \in Risk /\ inDuck \in BOOLEAN
  BY DEF Risk, InDuck, StoreInv
<1>2. /\ IsRow(stored) /\ IsRow(row) /\ IsRow(plain)
      /\ SameColumns(row, stored, inDuck) /\ SameColumns(row, plain, inDuck)
  BY <1>1, StoredRow
<1>3. IsRule(request.rule)
  BY RequestType
<1>4. SpeltLike(plain, request.rule, inDuck)
  BY DEF Alike
<1> HIDE DEF row, plain, stored, inDuck
<1>5. \A a \in request.rule : \A t \in a :
        t.term \in Terms /\ TermInSql(t.term) /\ SpeltAlike(plain, t.term, inDuck)
  BY <1>3, <1>4 DEF IsRule, InSql, SpeltLike
<1>6. \A a \in request.rule : \A t \in a : SpeltAlike(row, t.term, inDuck)
  BY <1>1, <1>2, <1>5, SameSql
<1>7. SpeltLike(row, request.rule, inDuck)
  BY <1>6 DEF SpeltLike
<1>8. SqlRule(row, request.rule, inDuck) <=> MatchRule(row, request.rule, FALSE)
  BY <1>1, <1>2, <1>3, <1>7, SameRule DEF SameInBoth
<1>9. SameColumns(stored, row, inDuck)
  BY <1>2 DEF SameColumns
<1>10. \A a \in request.rule : \A t \in a :
         SqlTerm(stored, t.term, inDuck) <=> SqlTerm(row, t.term, inDuck)
  BY <1>1, <1>2, <1>5, <1>6, <1>9, SameSql
<1>11. SqlRule(stored, request.rule, inDuck) <=> SqlRule(row, request.rule, inDuck)
  BY <1>10 DEF SqlRule
<1> QED
  BY <1>8, <1>11 DEF row, stored, inDuck

-------------------------------------------------------------------------------
(* The rows a query is about *)

Ranked(id) == [id |-> id, content |-> table[id], rank |-> risk[table[id]]]
TakenIds == {id \in Selected(request) : Kept(Ranked(id), request)}
Taken == {Ranked(id) : id \in TakenIds}

\* The row of an id, with its risk
LEMMA RankedRow ==
  ASSUME StoreInv, NEW id \in DOMAIN table
  PROVE  /\ Ranked(id) \in PageRow /\ Ranked(id).id = id /\ Ranked(id).content = table[id]
         /\ Ranked(id).rank = risk[table[id]]
<1>1. id \in Nat /\ table[id] \in Contents /\ risk[table[id]] \in Risk
  BY DEF StoreInv
<1> QED
  BY <1>1 DEF Ranked, PageRow

\* The SQL and the loops of the code take what the matcher in Python takes.
LEMMA TakenIsWanted ==
  ASSUME PagesAssumption, StoreInv, at # "idle", Alike(table)
  PROVE  /\ Taken = Wanted(table, request)
         /\ \A id \in DOMAIN table : Ranked(id) \in Wanted(table, request) <=> id \in TakenIds
<1> DEFINE wanted(id) == /\ Visible(table[id], request)
                         /\ Match(request, Row(id, table[id], risk[table[id]]))
                         /\ request.abnormal => risk[table[id]] > 0
<1>1. ASSUME NEW id \in DOMAIN table PROVE wanted(id) <=> id \in TakenIds
  <2> DEFINE row == Row(id, table[id], risk[table[id]])
  <2>1. /\ Ranked(id).id = id /\ Ranked(id).content = table[id]
        /\ Ranked(id).rank = risk[table[id]] /\ risk[table[id]] \in Risk
    BY RankedRow DEF StoreInv
  <2>2. id \in TakenIds <=>
          /\ Visible(table[id], request)
          /\ request.rule # {} /\ PushedDown(request) =>
               SqlRule(Stored(id), request.rule, InDuck(request))
          /\ PushedDown(request) \/ Match(request, row)
          /\ request.abnormal => risk[table[id]] > 0
    BY <2>1 DEF TakenIds, Selected, Kept
  <2> HIDE DEF row
  <2>3. CASE ~PushedDown(request)
    BY <2>2, <2>3 DEF row
  <2>4. CASE request.rule = {}
    <3>1. Match(request, row)
      BY <2>4 DEF Match, MatchRule
    <3> QED
      BY <2>2, <2>4, <3>1 DEF row
  <2>5. CASE PushedDown(request) /\ request.rule # {} /\ Visible(table[id], request)
    <3>1. request.op # "frames" /\ InSql(request.rule)
      BY <2>5 DEF PushedDown
    <3>2. ~IsFrame(table[id])
      BY <2>5, <3>1 DEF Visible
    <3>3. SqlRule(Stored(id), request.rule, InDuck(request)) <=> MatchRule(row, request.rule, FALSE)
      BY <2>1, <2>5, <3>1, <3>2, RuleOnRow DEF row
    <3>4. Match(request, row) <=> MatchRule(row, request.rule, FALSE)
      BY <3>1 DEF Match
    <3> QED
      BY <2>2, <2>5, <3>3, <3>4 DEF row
  <2>6. CASE ~Visible(table[id], request)
    BY <2>2, <2>6
  <2> QED
    BY <2>3, <2>4, <2>5, <2>6
<1>2. TakenIds \subseteq DOMAIN table
  BY DEF TakenIds, Selected
<1>3. Wanted(table, request) =
        {x \in {Ranked(id) : id \in DOMAIN table} :
           /\ Visible(x.content, request)
           /\ Match(request, Row(x.id, x.content, x.rank))
           /\ request.abnormal => x.rank > 0}
  BY DEF Wanted, Ranked
<1>4. \A id \in DOMAIN table :
        /\ Ranked(id).id = id /\ Ranked(id).content = table[id]
        /\ Ranked(id).rank = risk[table[id]]
  BY RankedRow
<1>5. \A id \in DOMAIN table : Ranked(id) \in Wanted(table, request) <=> wanted(id)
  BY <1>3, <1>4
<1> QED
  BY <1>1, <1>2, <1>3, <1>5 DEF Taken

-------------------------------------------------------------------------------
(* An export that does not say it was truncated is complete *)

HasId(s, id) == \E n \in 1 .. Len(s) : s[n].id = id
\* What an export has to have: the rows that were there when it began
Due == {id \in TakenIds : id \in DOMAIN started}
Growing == moved \subseteq {"grown", "backdated"}

ExportInv ==
  at # "idle" /\ request.op = "export" =>
    /\ Scanning => Len(rows) = IF request.sort = "risk" THEN total ELSE Smaller(total, ExportLimit)
    /\ at \in {"read", "attach", "count"} => pages = 0
    /\ Growing =>
         /\ at \in {"scan", "collect"} =>
              \A id \in Due : Place(Plain(id)) < offset =>
                HasId(rows, id) \/ HasId(chunk, id) \/ total > Len(rows)
         /\ at \in {"finish", "done"} => \A id \in Due : HasId(rows, id) \/ total > Len(rows)
         /\ at = "attach" =>
              \/ \A id \in Due : HasId(chunk, id)
              \/ Len(chunk) = ExportLimit /\ Cardinality(Selected(request)) > ExportLimit
         /\ at = "count" =>
              \/ \A id \in Due : HasId(rows, id)
              \/ Len(rows) = ExportLimit /\ Cardinality(Selected(request)) > ExportLimit

\* Rows added during an export leave those that were there before in the order of reading,
\* each no earlier than it was.
LEMMA InsertDue ==
  ASSUME PagesAssumption, BaseInv, StartInv, at # "idle", NEW c \in Contents, Insert(c),
         "shrunk" \notin moved
  PROVE  /\ Due' \subseteq Due
         /\ \A id \in Due : PlainOf(id, table'[id]) = Plain(id)
         /\ \A id \in Due :
              /\ Place(Plain(id)) <= PlaceIn(PlainRows', Plain(id), ReadSort', request'.desc)
              /\ Place(Plain(id)) \in Nat
              /\ PlaceIn(PlainRows', Plain(id), ReadSort', request'.desc) \in Nat
         /\ Cardinality(Selected(request)) <= Cardinality(Selected(request)')
         /\ Cardinality(Selected(request)) \in Nat /\ Cardinality(Selected(request)') \in Nat
<1>1. /\ DOMAIN table' = DOMAIN table \cup {last + 1} /\ table'[last + 1] = c
      /\ \A id \in DOMAIN table : id # last + 1 => table'[id] = table[id]
      /\ UNCHANGED <<duck, request>> /\ started' = started /\ risk' = risk
  BY DEF Insert, With, Moves, query
<1>2. last \in Nat /\ \A id \in DOMAIN table : id \in 1 .. last /\ id # last + 1
  BY DEF BaseInv, StoreInv
<1>3. /\ Selected(request)' = {id \in DOMAIN table' : Chosen(id, table'[id])}
      /\ PlainRows' = {PlainOf(id, table'[id]) : id \in Selected(request)'}
      /\ ReadSort' = ReadSort /\ request' = request
  BY <1>1, SelectedThen
<1>4. /\ Selected(request) = {id \in DOMAIN table : Chosen(id, table[id])}
      /\ PlainRows = {PlainOf(id, table[id]) : id \in Selected(request)}
  BY SelectedBy
<1>5. \A id \in DOMAIN started : id \in DOMAIN table /\ id # last + 1 /\ table'[id] = table[id]
  BY <1>1, <1>2 DEF StartInv
<1>6. TakenIds' = {id \in Selected(request)' :
                     Kept([id |-> id, content |-> table'[id], rank |-> risk[table'[id]]], request)}
  BY <1>1 DEF TakenIds, Ranked, Kept, Match, PushedDown, Row, OutsideId
<1>7. Due' \subseteq Due
  <2> SUFFICES ASSUME NEW id \in Due' PROVE id \in Due
    OBVIOUS
  <2>1. id \in TakenIds' /\ id \in DOMAIN started
    BY <1>1 DEF Due
  <2>2. id \in Selected(request)
    BY <1>1, <1>3, <1>4, <1>5, <1>6, <2>1
  <2>3. Kept(Ranked(id), request)
    BY <1>5, <1>6, <2>1 DEF Ranked
  <2> QED
    BY <2>1, <2>2, <2>3 DEF Due, TakenIds
<1>8. \A id \in Due : PlainOf(id, table'[id]) = Plain(id)
  BY <1>5 DEF Due, PlainOf, Plain
<1>9. /\ Selected(request) \subseteq Selected(request)' /\ PlainRows \subseteq PlainRows'
      /\ Selected(request)' \subseteq Selected(request) \cup {last + 1}
  BY <1>1, <1>2, <1>3, <1>4
<1>10. IsFiniteSet(Selected(request))
  BY PlainOrderable DEF BaseInv
<1>11. IsFiniteSet(Selected(request)')
  <2>1. IsFiniteSet(Selected(request) \cup {last + 1})
    BY <1>10, FS_AddElement
  <2> QED
    BY <1>9, <2>1, FS_Subset
<1>12. IsFiniteSet(PlainRows')
  <2> DEFINE S == Selected(request)'
             f == [id \in S |-> PlainOf(id, table'[id])]
  <2>1. f \in Surjection(S, PlainRows')
    BY <1>3 DEF Surjection
  <2> HIDE DEF f, S
  <2>2. IsFiniteSet(S)
    BY <1>11 DEF S
  <2> QED
    BY <2>1, <2>2, FS_Surjection
<1>13. /\ Cardinality(Selected(request)) <= Cardinality(Selected(request)')
       /\ Cardinality(Selected(request)) \in Nat /\ Cardinality(Selected(request)') \in Nat
  BY <1>9, <1>10, <1>11, FS_Subset, FS_CardinalityType
<1>14. ASSUME NEW id \in Due
       PROVE  /\ Place(Plain(id)) <= PlaceIn(PlainRows', Plain(id), ReadSort', request'.desc)
              /\ Place(Plain(id)) \in Nat
              /\ PlaceIn(PlainRows', Plain(id), ReadSort', request'.desc) \in Nat
  BY <1>3, <1>9, <1>12, PlaceType DEF Place
<1> QED
  BY <1>7, <1>8, <1>13, <1>14

\* A row of a chunk that is still stored, with its risk
LEMMA RankedChunk ==
  ASSUME PagesAssumption, BaseInv, RankInv, at # "idle"
  PROVE  /\ WithRisk(chunk, request) \in Seq(HeldRows)
         /\ Len(WithRisk(chunk, request)) = Len(chunk)
         /\ \A k \in 1 .. Len(chunk) : chunk[k].id \in DOMAIN table =>
              WithRisk(chunk, request)[k] = Ranked(chunk[k].id)
<1> DEFINE w == WithRisk(chunk, request)
<1>1. chunk \in Seq(HeldRows) /\ StoreInv
  BY DEF BaseInv, QueryInv
<1>2. /\ w \in Seq(HeldRows) /\ Len(w) = Len(chunk)
      /\ \A n \in 1 .. Len(chunk) :
           w[n].id = chunk[n].id /\ w[n].content = chunk[n].content
           /\ w[n].rank = IF request.op = "frames" THEN chunk[n].rank ELSE risk[chunk[n].content]
  BY <1>1, WithRiskOf, Zenon
<1> HIDE DEF w
<1>3. ASSUME NEW k \in 1 .. Len(chunk), chunk[k].id \in DOMAIN table
      PROVE  w[k] = Ranked(chunk[k].id)
  <2> DEFINE id == chunk[k].id
  <2>1. w[k] \in PageRow /\ chunk[k] \in HeldRows
    BY <1>1, <1>2, ElementOfSeq DEF HeldRows
  <2>2. chunk[k].content = table[id]
    BY <1>3, <2>1 DEF HeldRows
  <2>3. w[k].rank = risk[table[id]]
    <3>1. CASE request.op # "frames"
      BY <1>2, <2>2, <3>1
    <3>2. CASE request.op = "frames"
      <4>1. IsFrame(table[id]) /\ table[id] \in Contents
        BY <2>1, <2>2, <3>2 DEF HeldRows, PageRow
      <4>2. risk[table[id]] = 0 /\ chunk[k].rank = 0
        BY <1>1, <4>1 DEF StoreInv, RankInv
      <4> QED
        BY <1>2, <3>2, <4>2
    <3> QED
      BY <3>1, <3>2
  <2>4. /\ Ranked(id) \in PageRow /\ Ranked(id).id = id /\ Ranked(id).content = table[id]
        /\ Ranked(id).rank = risk[table[id]]
    BY <1>1, <1>3, RankedRow
  <2>5. w[k].id = id /\ w[k].content = table[id]
    BY <1>2, <2>2
  <2> QED
    BY <2>1, <2>3, <2>4, <2>5 DEF PageRow
<1> QED
  BY <1>2, <1>3 DEF w

\* Each row due is among the rows kept of the chunk that has it.
LEMMA KeptIds ==
  ASSUME PagesAssumption, BaseInv, RankInv, at = "collect", NEW id \in TakenIds
  PROVE  HasId(chunk, id) => HasId(Filtered(WithRisk(chunk, request), request), id)
<1> SUFFICES ASSUME NEW k \in 1 .. Len(chunk), chunk[k].id = id
             PROVE  HasId(Filtered(WithRisk(chunk, request), request), id)
  BY DEF HasId
<1> DEFINE w == WithRisk(chunk, request)
           kept == Filtered(w, request)
<1>1. id \in DOMAIN table /\ Kept(Ranked(id), request) /\ Ranked(id).id = id
  BY DEF TakenIds, Selected, Ranked
<1>2. w \in Seq(HeldRows) /\ Len(w) = Len(chunk) /\ w[k] = Ranked(id)
  BY <1>1, RankedChunk
<1> HIDE DEF w
<1>3. \A s \in Seq(HeldRows) : \E o \in [1 .. Len(Filtered(s, request)) -> 1 .. Len(s)] :
        /\ \A n \in 1 .. Len(Filtered(s, request)) : Filtered(s, request)[n] = s[o[n]]
        /\ \A i \in 1 .. Len(s) :
             Kept(s[i], request) => \E n \in 1 .. Len(Filtered(s, request)) : o[n] = i
  BY FilteredOrder
<1>4. PICK o \in [1 .. Len(kept) -> 1 .. Len(w)] :
        /\ \A n \in 1 .. Len(kept) : kept[n] = w[o[n]]
        /\ \A i \in 1 .. Len(w) : Kept(w[i], request) => \E n \in 1 .. Len(kept) : o[n] = i
  BY <1>2, <1>3
<1> HIDE DEF kept
<1>5. PICK n \in 1 .. Len(kept) : o[n] = k
  BY <1>1, <1>2, <1>4
<1>6. HasId(kept, id)
  BY <1>1, <1>2, <1>4, <1>5 DEF HasId
<1> QED
  BY <1>6 DEF kept, w

\* The rows of a chunk are all collected until there are as many as an export may have.
LEMMA CollectExport ==
  ASSUME PagesAssumption, BaseInv, CollectChunk, request.op = "export",
         Len(rows) = IF request.sort = "risk" THEN total ELSE Smaller(total, ExportLimit)
  PROVE  /\ Len(rows') = IF request.sort = "risk" THEN total' ELSE Smaller(total', ExportLimit)
         /\ total > Len(rows) => total' > Len(rows')
         /\ \A id : HasId(rows, id) => HasId(rows', id)
         /\ \A id : HasId(Filtered(WithRisk(chunk, request), request), id) =>
              HasId(rows', id) \/ total' > Len(rows')
<1> DEFINE kept == Filtered(WithRisk(chunk, request), request)
           window == Window(kept, Skip(page))
<1>1. /\ kept \in Seq(HeldRows) /\ Len(kept) \in Nat
  BY KeptOfChunk, Zenon DEF BaseInv, QueryInv
<1>2. /\ rows' = rows \o (IF request.sort = "risk" THEN kept ELSE window)
      /\ total' = total + Len(kept)
  BY DEF CollectChunk
<1>3. /\ rows \in Seq(HeldRows) /\ Len(rows) \in Nat /\ total \in Nat
      /\ Skip(page) = 0 /\ Limit = ExportLimit /\ ExportLimit \in Nat \ {0}
  <2>1. ExportLimit \in Nat \ {0}
    BY DEF PagesAssumption
  <2> QED
    BY <2>1, LenProperties DEF BaseInv, QueryInv, Skip, Limit
<1> HIDE DEF kept
<1>4. ASSUME NEW s \in Seq(HeldRows), rows' = rows \o s
      PROVE  /\ Len(rows') = Len(rows) + Len(s) /\ Len(s) \in Nat
             /\ \A id : HasId(rows, id) => HasId(rows', id)
             /\ \A id : HasId(s, id) => HasId(rows', id)
  <2>1. /\ Len(rows') = Len(rows) + Len(s) /\ Len(s) \in Nat
        /\ \A i \in 1 .. Len(rows) + Len(s) :
             rows'[i] = IF i <= Len(rows) THEN rows[i] ELSE s[i - Len(rows)]
    <3>1. /\ Len(rows \o s) = Len(rows) + Len(s)
          /\ \A i \in 1 .. Len(rows) + Len(s) :
               (rows \o s)[i] = IF i <= Len(rows) THEN rows[i] ELSE s[i - Len(rows)]
      BY <1>3, ConcatProperties, Zenon
    <3> QED
      BY <1>4, <3>1, LenProperties
  <2>2. \A n \in 1 .. Len(rows) : n \in 1 .. Len(rows') /\ rows'[n] = rows[n]
    BY <1>3, <2>1
  <2>3. \A n \in 1 .. Len(s) : Len(rows) + n \in 1 .. Len(rows') /\ rows'[Len(rows) + n] = s[n]
    <3> TAKE n \in 1 .. Len(s)
    <3>1. /\ Len(rows) + n \in 1 .. Len(rows) + Len(s) /\ ~(Len(rows) + n <= Len(rows))
          /\ Len(rows) + n - Len(rows) = n
      BY <1>3, <2>1
    <3> QED
      BY <2>1, <3>1
  <2> QED
    BY <2>1, <2>2, <2>3 DEF HasId
<1>5. CASE request.sort = "risk"
  <2>1. rows' = rows \o kept
    BY <1>2, <1>5
  <2> QED
    <3>1. /\ Len(rows') = Len(rows) + Len(kept)
          /\ \A id : HasId(rows, id) => HasId(rows', id)
          /\ \A id : HasId(kept, id) => HasId(rows', id)
      BY <1>1, <1>4, <2>1
    <3>2. Len(rows) = total /\ total' = total + Len(kept) /\ Len(kept) \in Nat
      BY <1>1, <1>2, <1>5
    <3>3. Len(rows') = total' /\ ~(total > Len(rows))
      BY <1>3, <3>1, <3>2
    <3> QED
      BY <1>5, <3>1, <3>3 DEF kept
<1>6. CASE request.sort # "risk"
  <2>1. rows' = rows \o window
    BY <1>2, <1>6
  <2>2. /\ window \in Seq(HeldRows)
        /\ LET d == IF 0 < total THEN 0 ELSE 0 - total
           IN  /\ Len(window) =
                    IF Smaller(Len(kept), 0 + ExportLimit - total) <= d THEN 0
                    ELSE Smaller(Len(kept), 0 + ExportLimit - total) - d
               /\ \A n \in 1 .. Len(window) : window[n] = kept[d + n] /\ d + n \in 1 .. Len(kept)
    BY <1>1, <1>3, WindowOf
  <2> HIDE DEF window
  <2>3. /\ Len(rows') = Len(rows) + Len(window) /\ Len(window) \in Nat
        /\ \A id : HasId(rows, id) => HasId(rows', id)
        /\ \A id : HasId(window, id) => HasId(rows', id)
    BY <1>4, <2>1, <2>2
  <2>0. Len(window) = IF Smaller(Len(kept), ExportLimit - total) <= 0 THEN 0
                      ELSE Smaller(Len(kept), ExportLimit - total)
    <3>1. /\ (IF 0 < total THEN 0 ELSE 0 - total) = 0 /\ 0 + ExportLimit - total = ExportLimit - total
          /\ Smaller(Len(kept), ExportLimit - total) \in Int
      BY <1>1, <1>3 DEF Smaller
    <3>2. \A i \in Int : i - 0 = i
      OBVIOUS
    <3> QED
      BY <2>2, <3>1, <3>2
  <2>4. Len(rows') = Smaller(total', ExportLimit) /\ total' \in Nat
    <3>1. Len(rows) = Smaller(total, ExportLimit)
      BY <1>6
    <3>2. total' = total + Len(kept) /\ Len(rows') = Len(rows) + Len(window)
      BY <1>2, <2>3
    <3>3. total \in Nat /\ ExportLimit \in Nat /\ Len(kept) \in Nat /\ total' \in Nat
      BY <1>1, <1>3, <3>2
    <3>4. CASE total >= ExportLimit
      <4>1. Smaller(Len(kept), ExportLimit - total) <= 0
        BY <3>3, <3>4 DEF Smaller
      <4> QED
        BY <2>0, <3>1, <3>2, <3>3, <3>4, <4>1 DEF Smaller
    <3>5. CASE total < ExportLimit
      <4>1. Len(rows) = total
        BY <3>1, <3>3, <3>5 DEF Smaller
      <4>2. Len(window) = Smaller(Len(kept), ExportLimit - total)
        BY <2>0, <3>3, <3>5 DEF Smaller
      <4>3. CASE Len(kept) < ExportLimit - total
        <5>1. Len(rows') = total + Len(kept) /\ total' < ExportLimit
          BY <3>2, <3>3, <4>1, <4>2, <4>3 DEF Smaller
        <5> QED
          BY <3>2, <3>3, <5>1 DEF Smaller
      <4>4. CASE ~(Len(kept) < ExportLimit - total)
        <5>1. Len(rows') = ExportLimit /\ ~(total' < ExportLimit)
          BY <3>2, <3>3, <4>1, <4>2, <4>4 DEF Smaller
        <5> QED
          BY <3>3, <5>1 DEF Smaller
      <4> QED
        BY <4>3, <4>4
    <3> QED
      BY <3>3, <3>4, <3>5
  <2>5. total > Len(rows) => total' > Len(rows')
    BY <1>1, <1>2, <1>3, <1>6, <2>4 DEF Smaller
  <2>6. total' > Len(rows') \/ Len(window) = Len(kept)
    <3>1. total' = total + Len(kept)
      BY <1>2
    <3>2. CASE total' > ExportLimit
      BY <1>3, <2>4, <3>2 DEF Smaller
    <3>3. CASE total' <= ExportLimit
      BY <1>1, <1>3, <2>0, <3>1, <3>3 DEF Smaller
    <3> QED
      BY <1>3, <2>4, <3>2, <3>3
  <2>7. \A n \in 1 .. Len(window) : window[n] = kept[n]
    <3> TAKE n \in 1 .. Len(window)
    <3>1. (IF 0 < total THEN 0 ELSE 0 - total) = 0 /\ 0 + n = n
      BY <1>3, <2>3
    <3> QED
      BY <2>2, <3>1
  <2>8. \A id : HasId(kept, id) => HasId(rows', id) \/ total' > Len(rows')
    BY <2>3, <2>6, <2>7 DEF HasId
  <2> QED
    BY <1>6, <2>3, <2>4, <2>5, <2>8 DEF kept
<1> QED
  BY <1>5, <1>6

\* The export: the steps of the query,
LEMMA QueryExport ==
  ASSUME PagesAssumption, BaseInv, BaseInv', RankInv, ExportInv, Query
  PROVE  ExportInv'
<1> SUFFICES ASSUME at' # "idle", request'.op = "export" PROVE ExportInv'
  BY DEF ExportInv
<1>1. at # "idle" /\ ~Consume
  BY DEF Query, ReadPage, AttachPage, Count, ScanChunk, CollectChunk, FinishPackets, FinishFrames,
         Consume, Goes
<1>2. UNCHANGED <<store, request, history>>
  BY <1>1 DEF Query, ReadPage, AttachPage, Count, ScanChunk, CollectChunk, FinishPackets,
              FinishFrames, result
<1>3. /\ Selected(request)' = Selected(request) /\ PlainRows' = PlainRows
      /\ ReadSort' = ReadSort /\ request' = request
  BY <1>2, SameReading
<1>4. Due' = Due /\ Due \subseteq TakenIds /\ Due \subseteq Selected(request)
  <2>1. TakenIds' = TakenIds
    BY <1>2, <1>3 DEF TakenIds, Ranked, Kept, Match, PushedDown, Row, OutsideId, store
  <2> QED
    BY <1>2, <2>1 DEF Due, TakenIds, history
<1>5. Growing' <=> Growing
  BY <1>2 DEF Growing, history
<1>6. \A id : Place(Plain(id))' = Place(Plain(id))
  BY <1>2, <1>3 DEF Place, Plain, store
<1>7. request.op = "export" /\ StoreInv
  BY <1>3 DEF BaseInv
<1>8. /\ Scanning => Len(rows) = IF request.sort = "risk" THEN total ELSE Smaller(total, ExportLimit)
      /\ at \in {"read", "attach", "count"} => pages = 0
      /\ Growing =>
           /\ at \in {"scan", "collect"} =>
                \A id \in Due : Place(Plain(id)) < offset =>
                  HasId(rows, id) \/ HasId(chunk, id) \/ total > Len(rows)
           /\ at \in {"finish", "done"} => \A id \in Due : HasId(rows, id) \/ total > Len(rows)
           /\ at = "attach" =>
                \/ \A id \in Due : HasId(chunk, id)
                \/ Len(chunk) = ExportLimit /\ Cardinality(Selected(request)) > ExportLimit
           /\ at = "count" =>
                \/ \A id \in Due : HasId(rows, id)
                \/ Len(rows) = ExportLimit /\ Cardinality(Selected(request)) > ExportLimit
  BY <1>1, <1>7 DEF ExportInv
<1>9. SUFFICES
      /\ Scanning' => Len(rows') = IF request.sort = "risk" THEN total' ELSE Smaller(total', ExportLimit)
      /\ at' \in {"read", "attach", "count"} => pages' = 0
      /\ Growing =>
           /\ at' \in {"scan", "collect"} =>
                \A id \in Due : Place(Plain(id)) < offset' =>
                  HasId(rows', id) \/ HasId(chunk', id) \/ total' > Len(rows')
           /\ at' \in {"finish", "done"} => \A id \in Due : HasId(rows', id) \/ total' > Len(rows')
           /\ at' = "attach" =>
                \/ \A id \in Due : HasId(chunk', id)
                \/ Len(chunk') = ExportLimit /\ Cardinality(Selected(request)) > ExportLimit
           /\ at' = "count" =>
                \/ \A id \in Due : HasId(rows', id)
                \/ Len(rows') = ExportLimit /\ Cardinality(Selected(request)) > ExportLimit
  BY <1>3, <1>4, <1>5, <1>6 DEF ExportInv
<1>10. /\ chunk \in Seq(HeldRows) /\ rows \in Seq(HeldRows) /\ Len(rows) \in Nat /\ Len(chunk) \in Nat
       /\ offset \in Nat /\ total \in Nat
  BY LenProperties DEF BaseInv, QueryInv
<1>11. Limit = ExportLimit /\ ExportLimit \in Nat \ {0} /\ ChunkSize \in Nat \ {0}
       /\ \A pg : Skip(pg) = 0
  <2>1. ExportLimit \in Nat \ {0} /\ ChunkSize \in Nat /\ PageSize \in Nat \ {0}
        /\ ChunkSize >= PageSize
    BY DEF PagesAssumption
  <2>2. ChunkSize # 0
    BY <2>1
  <2> QED
    BY <1>7, <2>1, <2>2 DEF Limit, Skip
<1>12. \A id \in Due : Plain(id) \in PlainRows /\ Plain(id).id = id
  BY <1>4 DEF PlainRows, Plain
<1> DEFINE N == Cardinality(PlainRows)
<1>13. N \in Nat /\ N = Cardinality(Selected(request))
  BY <1>1, <1>7, PlainOrderable
<1>14. CASE ReadPage
  <2>1. chunk' = Read(request, ExportLimit, 0) /\ at' = "attach" /\ pages' = pages /\ at = "read"
    BY <1>11, <1>14 DEF ReadPage, Goes, result
  <2>2. /\ Len(chunk') = IF N <= 0 THEN 0 ELSE IF 0 + ExportLimit < N THEN ExportLimit ELSE N - 0
        /\ \A x \in PlainRows : /\ Place(x) \in 0 .. N - 1
                                /\ 0 <= Place(x) /\ Place(x) < 0 + Len(chunk') =>
                                     chunk'[Place(x) - 0 + 1] = x
    BY <1>1, <1>7, <1>11, <2>1, ReadOf
  <2> HIDE DEF N
  <2>3. CASE N <= ExportLimit
    <3>1. Len(chunk') = N
      BY <1>11, <1>13, <2>2, <2>3
    <3>2. ASSUME NEW id \in Due PROVE HasId(chunk', id)
      <4> DEFINE x == Plain(id)
      <4>1. x \in PlainRows /\ x.id = id
        BY <1>12
      <4> HIDE DEF x
      <4>2. Place(x) \in 0 .. N - 1 /\ Place(x) - 0 + 1 \in 1 .. Len(chunk')
        BY <1>13, <2>2, <3>1, <4>1
      <4>3. chunk'[Place(x) - 0 + 1] = x
        BY <1>13, <2>2, <3>1, <4>1, <4>2
      <4> QED
        BY <4>1, <4>2, <4>3 DEF HasId
    <3> QED
      BY <1>8, <2>1, <3>2 DEF Scanning
  <2>4. CASE ~(N <= ExportLimit)
    <3>1. Len(chunk') = ExportLimit /\ N > ExportLimit
      BY <1>11, <1>13, <2>2, <2>4
    <3> QED
      BY <1>8, <1>13, <2>1, <3>1 DEF Scanning
  <2> QED
    BY <2>3, <2>4
<1>15. CASE AttachPage
  <2>1. /\ at = "attach" /\ pages = 0
        /\ \/ at' = "done" /\ Len(rows') < ExportLimit
           \/ at' = "count" /\ pages' = pages
    BY <1>8, <1>11, <1>15 DEF AttachPage, Goes
  <2>2. Len(rows') = Len(chunk) /\ \A n \in 1 .. Len(chunk) : rows'[n].id = chunk[n].id
    BY <1>7, <1>10, <1>15, WithRiskOf DEF AttachPage
  <2>3. \A id : HasId(chunk, id) => HasId(rows', id)
    BY <2>2 DEF HasId
  <2>4. CASE at' = "done" /\ Len(rows') < ExportLimit
    <3>1. Len(chunk) # ExportLimit
      BY <1>10, <1>11, <2>2, <2>4
    <3> QED
      BY <1>8, <2>1, <2>3, <2>4, <3>1 DEF Scanning
  <2>5. CASE at' = "count" /\ pages' = pages
    BY <1>8, <2>1, <2>2, <2>3, <2>5 DEF Scanning
  <2> QED
    BY <2>1, <2>4, <2>5
<1>16. CASE Count
  <2>1. at = "count" /\ at' = "done" /\ total' = Cardinality(Selected(request)) /\ rows' = rows
    BY <1>7, <1>16 DEF Count, Goes
  <2>2. Len(rows) = ExportLimit /\ Cardinality(Selected(request)) > ExportLimit => total' > Len(rows')
    BY <2>1
  <2> QED
    BY <1>8, <2>1, <2>2 DEF Scanning
<1>17. CASE ScanChunk
  <2>1. /\ at = "scan" /\ chunk' = Read(request, ChunkSize, offset) /\ offset' = offset + Len(chunk')
        /\ UNCHANGED <<rows, total, pages>> /\ chunk = << >>
        /\ at' = IF chunk' = << >> THEN "finish" ELSE "collect"
    BY <1>17 DEF ScanChunk, Goes, result, BaseInv, QueryInv
  <2>2. /\ chunk' \in Seq(PlainRows)
        /\ Len(chunk') = IF N <= offset THEN 0 ELSE IF offset + ChunkSize < N THEN ChunkSize ELSE N - offset
        /\ \A x \in PlainRows : /\ Place(x) \in 0 .. N - 1
                                /\ offset <= Place(x) /\ Place(x) < offset + Len(chunk') =>
                                     chunk'[Place(x) - offset + 1] = x
    BY <1>1, <1>7, <1>10, <1>11, <2>1, ReadOf
  <2> HIDE DEF N
  <2>3. Len(<< >>) = 0 /\ Len(chunk') \in Nat
    BY <2>2, EmptySeq, LenProperties
  <2>4. \A id : ~HasId(chunk, id)
    BY <2>1, <2>3 DEF HasId
  <2>5. ASSUME Growing, NEW id \in Due, Place(Plain(id)) < offset'
        PROVE  HasId(rows, id) \/ HasId(chunk', id) \/ total > Len(rows)
    <3> DEFINE x == Plain(id)
    <3>1. x \in PlainRows /\ x.id = id /\ Place(x) \in 0 .. N - 1
      BY <1>12, <2>2
    <3>2. CASE Place(x) < offset
      BY <1>8, <2>1, <2>4, <2>5, <3>2
    <3>3. CASE ~(Place(x) < offset)
      <4> HIDE DEF x
      <4>1. Place(x) < offset + Len(chunk')
        BY <2>1, <2>5 DEF x
      <4>2. offset <= Place(x) /\ Place(x) - offset + 1 \in 1 .. Len(chunk')
        BY <1>10, <1>13, <2>3, <3>1, <3>3, <4>1
      <4>3. chunk'[Place(x) - offset + 1] = x
        BY <2>2, <3>1, <4>1, <4>2
      <4> QED
        BY <3>1, <4>2, <4>3 DEF HasId
    <3> QED
      BY <3>2, <3>3
  <2>6. CASE chunk' # << >>
    <3>1. at' = "collect"
      BY <2>1, <2>6
    <3> QED
      BY <1>8, <2>1, <2>5, <3>1 DEF Scanning
  <2>7. CASE chunk' = << >>
    <3>1. N <= offset
      BY <1>10, <1>11, <1>13, <2>2, <2>3, <2>7
    <3>2. \A id \in Due : Place(Plain(id)) < offset
      <4> TAKE id \in Due
      <4>1. Place(Plain(id)) \in 0 .. N - 1
        BY <1>12, <2>2
      <4> QED
        BY <1>10, <1>13, <3>1, <4>1
    <3>3. at' = "finish"
      BY <2>1, <2>7
    <3> QED
      BY <1>8, <2>1, <2>4, <3>2, <3>3 DEF Scanning
  <2> QED
    BY <2>6, <2>7
<1>18. CASE CollectChunk
  <2> DEFINE kept == Filtered(WithRisk(chunk, request), request)
  <2>1. at = "collect" /\ at' = "scan" /\ offset' = offset
    BY <1>18 DEF CollectChunk, Goes
  <2>2. /\ Len(rows') = IF request.sort = "risk" THEN total' ELSE Smaller(total', ExportLimit)
        /\ total > Len(rows) => total' > Len(rows')
        /\ \A id : HasId(rows, id) => HasId(rows', id)
        /\ \A id : HasId(kept, id) => HasId(rows', id) \/ total' > Len(rows')
    BY <1>7, <1>8, <1>18, <2>1, CollectExport DEF Scanning
  <2>3. \A id \in Due : HasId(chunk, id) => HasId(kept, id)
    BY <1>4, <1>7, <2>1, KeptIds
  <2> HIDE DEF kept
  <2> QED
    BY <1>8, <2>1, <2>2, <2>3
<1>19. CASE FinishPackets
  <2>1. at = "finish" /\ at' = "done" /\ total' = total
    BY <1>19 DEF FinishPackets, Goes
  <2>2. CASE request.sort # "risk"
    <3>1. rows' = rows
      BY <1>19, <2>2 DEF FinishPackets
    <3> QED
      BY <1>8, <2>1, <3>1 DEF Scanning
  <2>3. CASE request.sort = "risk"
    <3> DEFINE all == ByRisk(rows, request.desc)
               below == RiskBelow(rows, request.desc)
               o == Arranged(below)
    <3>1. rows \in Seq(PageRow) /\ request.desc \in BOOLEAN
      BY <1>1, <1>7, <1>10, SeqMonotonic, RequestType DEF HeldRows
    <3>2. /\ InOrder(o, below)
          /\ all \in Seq(PageRow) /\ Len(all) = Len(rows)
          /\ o \in [1 .. Len(rows) -> 1 .. Len(rows)] /\ Len(o) = Len(rows)
          /\ \A n \in 1 .. Len(rows) : all[n] = rows[o[n]]
      BY <3>1, ByRiskPlaces
    <3>3. DOMAIN below = 1 .. Len(rows)
      BY DEF RiskBelow
    <3>4. rows' = Slice(all, ExportLimit, 0)
      BY <1>11, <1>19, <2>3 DEF FinishPackets
    <3> HIDE DEF all, o, below
    <3>5. /\ Len(rows') = IF Len(all) <= 0 THEN 0 ELSE IF 0 + ExportLimit < Len(all) THEN ExportLimit
                          ELSE Len(all) - 0
          /\ \A n \in 1 .. Len(rows') : rows'[n] = all[0 + n] /\ 0 + n \in 1 .. Len(all)
      BY <1>11, <3>2, <3>4, SliceOf
    <3>6. Len(rows) = total
      BY <1>8, <2>1, <2>3 DEF Scanning
    <3>7. CASE ExportLimit < Len(rows)
      <4>1. total' > Len(rows')
        BY <1>10, <1>11, <2>1, <3>2, <3>5, <3>6, <3>7
      <4> QED
        BY <2>1, <4>1 DEF Scanning
    <3>8. CASE ~(ExportLimit < Len(rows))
      <4>1. Len(rows') = Len(rows)
        BY <1>10, <1>11, <3>2, <3>5, <3>8
      <4>2. \A n \in 1 .. Len(rows) : rows'[n] = rows[o[n]]
        <5> TAKE n \in 1 .. Len(rows)
        <5>1. n \in 1 .. Len(rows') /\ 0 + n = n
          BY <4>1
        <5> QED
          BY <3>2, <3>5, <5>1
      <4>3. ASSUME NEW id, HasId(rows, id) PROVE HasId(rows', id)
        <5>1. PICK k \in 1 .. Len(rows) : rows[k].id = id
          BY <4>3 DEF HasId
        <5>2. /\ Cardinality(below[k]) \in 0 .. Len(rows) - 1
              /\ o[Cardinality(below[k]) + 1] = k
          BY <3>2, <3>3 DEF InOrder
        <5>3. Cardinality(below[k]) + 1 \in 1 .. Len(rows)
          BY <1>10, <5>2
        <5>4. rows'[Cardinality(below[k]) + 1].id = id
          BY <4>2, <5>1, <5>2, <5>3
        <5> QED
          BY <4>1, <5>3, <5>4 DEF HasId
      <4>4. ~(total > Len(rows))
        BY <1>10, <3>6
      <4> QED
        BY <1>8, <2>1, <4>3, <4>4 DEF Scanning
    <3> QED
      BY <3>7, <3>8
  <2> QED
    BY <2>2, <2>3
<1>20. ~FinishFrames
  BY <1>7 DEF FinishFrames
<1> QED
  BY <1>1, <1>14, <1>15, <1>16, <1>17, <1>18, <1>19, <1>20 DEF Query

\* its beginning,
LEMMA AskExport ==
  ASSUME PagesAssumption, BaseInv, NEW r \in Requests, Ask(r)
  PROVE  ExportInv'
<1>1. /\ at' \in {"scan", "count", "read"} /\ rows' = << >> /\ chunk' = << >> /\ total' = 0
      /\ pages' = 0 /\ offset' = 0 /\ request' = r
      /\ r.op = "export" => at' \in {"scan", "read"}
      /\ UNCHANGED store
  BY DEF Ask, Goes
<1>2. Len(<< >>) = 0 /\ ExportLimit \in Nat \ {0}
  BY EmptySeq DEF PagesAssumption
<1>3. IsFiniteSet(PlainRows')
  <2> DEFINE S == Selected(request)'
             f == [id \in S |-> Plain(id)]
  <2>1. S \subseteq 1 .. last /\ last \in Nat
    <3>1. S \subseteq DOMAIN table'
      BY DEF Selected
    <3> QED
      BY <1>1, <3>1 DEF store, BaseInv, StoreInv
  <2>2. IsFiniteSet(S)
    <3>1. IsFiniteSet(1 .. last)
      BY <2>1, FS_Interval
    <3> HIDE DEF S
    <3> QED
      BY <2>1, <3>1, FS_Subset
  <2>3. PlainRows' = {Plain(id) : id \in S}
    BY <1>1 DEF PlainRows, Plain, store
  <2>4. f \in Surjection(S, PlainRows')
    BY <2>3 DEF Surjection
  <2> HIDE DEF f, S
  <2> QED
    BY <2>2, <2>4, FS_Surjection
<1>4. \A x : PlaceIn(PlainRows', x, ReadSort', request'.desc) \in Nat
  BY <1>3, PlaceType
<1>5. \A id : Place(Plain(id))' \in Nat
  BY <1>4 DEF Place
<1>6. Len(rows') = IF request'.sort = "risk" THEN total' ELSE Smaller(total', ExportLimit)
  BY <1>1, <1>2 DEF Smaller
<1>7. \A id : ~(Place(Plain(id))' < offset')
  BY <1>1, <1>5
<1> QED
  BY <1>1, <1>6, <1>7 DEF ExportInv, Scanning

\* what happens meanwhile,
LEMMA ElsewhereExport ==
  ASSUME PagesAssumption, BaseInv, StartInv, ExportInv, Elsewhere
  PROVE  ExportInv'
<1> SUFFICES ASSUME at' # "idle", request'.op = "export" PROVE ExportInv'
  BY DEF ExportInv
<1>1. UNCHANGED query /\ started' = started
  BY DEF Elsewhere, Insert, Discard, Rerank, Moves
<1>2. at # "idle" /\ request.op = "export" /\ UNCHANGED <<at, request, chunk, offset, rows, total, pages>>
  BY <1>1 DEF query, result
<1>3. CASE ~Growing'
  BY <1>2, <1>3 DEF ExportInv, Scanning
<1>4. CASE Growing'
  <2>1. PICK c \in Contents : Insert(c)
    <3>1. \A c, rank : ~Rerank(c, rank)
      BY <1>2, <1>4 DEF Rerank, Moves, Growing
    <3>2. \A source : ~Discard(source)
      BY <1>2, <1>4 DEF Discard, Moves, Growing
    <3> QED
      BY <3>1, <3>2 DEF Elsewhere
  <2>2. moved \subseteq moved'
    BY <1>2, <2>1 DEF Insert, Moves
  <2>3. Growing /\ "shrunk" \notin moved
    BY <1>4, <2>2 DEF Growing
  <2>4. /\ Due' \subseteq Due
        /\ \A id \in Due : PlainOf(id, table'[id]) = Plain(id)
        /\ \A id \in Due :
             /\ Place(Plain(id)) <= PlaceIn(PlainRows', Plain(id), ReadSort', request'.desc)
             /\ Place(Plain(id)) \in Nat
             /\ PlaceIn(PlainRows', Plain(id), ReadSort', request'.desc) \in Nat
        /\ Cardinality(Selected(request)) <= Cardinality(Selected(request)')
        /\ Cardinality(Selected(request)) \in Nat /\ Cardinality(Selected(request)') \in Nat
    BY <1>2, <2>1, <2>3, InsertDue
  <2>5. \A id : Plain(id)' = PlainOf(id, table'[id])
    BY DEF Plain, PlainOf
  <2>6. \A id \in Due : Place(Plain(id))' = PlaceIn(PlainRows', Plain(id), ReadSort', request'.desc)
    BY <2>4, <2>5 DEF Place
  <2>7. offset \in Nat /\ ExportLimit \in Nat
    BY DEF BaseInv, QueryInv, PagesAssumption
  <2>8. \A id \in Due' : id \in Due /\ (Place(Plain(id))' < offset' => Place(Plain(id)) < offset)
    BY <1>2, <2>4, <2>6, <2>7
  <2>9. Cardinality(Selected(request)) > ExportLimit => Cardinality(Selected(request)') > ExportLimit
    BY <2>4, <2>7
  <2>10. /\ Scanning => Len(rows) = IF request.sort = "risk" THEN total ELSE Smaller(total, ExportLimit)
         /\ at \in {"read", "attach", "count"} => pages = 0
         /\ at \in {"scan", "collect"} =>
              \A id \in Due : Place(Plain(id)) < offset =>
                HasId(rows, id) \/ HasId(chunk, id) \/ total > Len(rows)
         /\ at \in {"finish", "done"} => \A id \in Due : HasId(rows, id) \/ total > Len(rows)
         /\ at = "attach" =>
              \/ \A id \in Due : HasId(chunk, id)
              \/ Len(chunk) = ExportLimit /\ Cardinality(Selected(request)) > ExportLimit
         /\ at = "count" =>
              \/ \A id \in Due : HasId(rows, id)
              \/ Len(rows) = ExportLimit /\ Cardinality(Selected(request)) > ExportLimit
    BY <1>2, <2>3 DEF ExportInv
  <2> QED
    BY <1>2, <2>8, <2>9, <2>10 DEF ExportInv, Scanning
<1> QED
  BY <1>3, <1>4

\* and so any step.
LEMMA NextExport ==
  ASSUME PagesAssumption, BaseInv, BaseInv', StartInv, RankInv, ExportInv, [Next]_vars
  PROVE  ExportInv'
<1>1. CASE UNCHANGED vars
  <2>1. UNCHANGED <<store, request>>
    BY <1>1 DEF vars, query
  <2>2. Selected(request)' = Selected(request) /\ PlainRows' = PlainRows /\ ReadSort' = ReadSort
    BY <2>1, SameReading
  <2>3. Due' = Due
    BY <1>1, <2>1, <2>2 DEF Due, TakenIds, Ranked, Kept, Match, PushedDown, Row, OutsideId, store,
                            vars, history
  <2>4. \A id : Place(Plain(id))' = Place(Plain(id))
    BY <2>1, <2>2 DEF Place, Plain, store
  <2> QED
    BY <1>1, <2>2, <2>3, <2>4 DEF vars, query, result, history, ExportInv, Scanning, Growing
<1> QED
  BY <1>1, QueryExport, AskExport, ElsewhereExport DEF Next

\* Whatever is stored, an export that was not truncated has the rows that were there when
\* it began, also when rows were added while it was scanned.
THEOREM ExportHasEveryRow ==
  PagesAssumption /\ Spec => []ExportIsComplete
<1> SUFFICES ASSUME PagesAssumption PROVE Spec => []ExportIsComplete
  OBVIOUS
<1> DEFINE Inv == BaseInv /\ StartInv /\ RankInv /\ ExportInv
<1>1. Init => Inv
  <2>1. Len(<< >>) = 0
    BY EmptySeq
  <2> QED
    BY <2>1, InitBase DEF Init, StartInv, RankInv, ExportInv
<1>2. Inv /\ [Next]_vars => Inv'
  BY NextBase, NextStart, NextRank, NextExport
<1>3. Inv => ExportIsComplete
  <2> SUFFICES ASSUME Inv, Answered, request.op = "export", Growing, Alike(table),
                      ~(total > Len(rows)), NEW x \in Wanted(started, request)
               PROVE  x \in ToSet(rows)
    BY DEF ExportIsComplete, Growing
  <2>1. at # "idle" /\ at = "done" /\ StoreInv /\ rows \in Seq(HeldRows)
    BY DEF Answered, BaseInv, QueryInv
  <2>2. PICK id \in DOMAIN started :
          x = [id |-> id, content |-> started[id], rank |-> risk[started[id]]]
    BY DEF Wanted
  <2>3. id \in DOMAIN table /\ table[id] = started[id]
    BY <2>1 DEF StartInv, Growing
  <2>4. x = Ranked(id)
    BY <2>2, <2>3 DEF Ranked
  <2>5. x \in Wanted(table, request)
    BY <2>3, <2>4 DEF Wanted, Ranked
  <2>6. id \in Due
    BY <2>1, <2>3, <2>4, <2>5, TakenIsWanted DEF Due
  <2>7. PICK n \in 1 .. Len(rows) : rows[n].id = id
    BY <2>1, <2>6 DEF ExportInv, HasId
  <2>8. rows[n] \in HeldRows
    BY <2>1, ElementOfSeq
  <2>9. rows[n] = x
    <3>1. rows[n] \in PageRow /\ rows[n].content = table[id]
      BY <2>3, <2>7, <2>8 DEF HeldRows
    <3>2. rows[n].rank = risk[table[id]]
      BY <3>1 DEF RankInv, Growing
    <3>3. /\ Ranked(id) \in PageRow /\ Ranked(id).id = id /\ Ranked(id).content = table[id]
          /\ Ranked(id).rank = risk[table[id]]
      BY <2>1, <2>3, RankedRow
    <3> QED
      BY <2>4, <2>7, <3>1, <3>2, <3>3 DEF PageRow
  <2>10. n \in DOMAIN rows
    BY <2>1, LenProperties
  <2> QED
    BY <2>9, <2>10 DEF ToSet
<1> QED
  BY <1>1, <1>2, <1>3, PTL DEF Spec

-------------------------------------------------------------------------------
(* Where the rows taken are read, and where they come in the answer *)

Steady == moved = {} \/ (moved \subseteq {"grown"} /\ OldestFirst)
\* Where a row comes among those taken
RefPlace(id) ==
  Cardinality({j \in TakenIds : Comes(Ranked(j), Ranked(id), request.sort, request.desc)})
\* The rows taken of the first k read
TakenBefore(k) == {id \in TakenIds : Place(Plain(id)) < k}
\* s is the page pg cut out of the first k rows taken.
Cut(s, k, pg) ==
  /\ Len(s) = IF k <= Skip(pg) THEN 0 ELSE IF Skip(pg) + Limit < k THEN Limit ELSE k - Skip(pg)
  /\ \A n \in 1 .. Len(s) : s[n].id \in TakenIds /\ RefPlace(s[n].id) = Skip(pg) + n - 1
\* s is the page pg of what was there at some time since the query began.
Shows(s, pg) ==
  \E k \in Nat : Cardinality(Due) <= k /\ k <= Cardinality(TakenIds) /\ Cut(s, k, pg)


\* A function from ids onto a set that keeps them apart counts them.
LEMMA CountBy ==
  ASSUME NEW I, IsFiniteSet(I), NEW S, NEW f \in [I -> S],
         \A i \in I : \A j \in I : f[i] = f[j] => i = j,
         \A x \in S : \E i \in I : f[i] = x
  PROVE  IsFiniteSet(S) /\ Cardinality(S) = Cardinality(I) /\ Cardinality(I) \in Nat
<1>1. f \in Surjection(I, S) /\ f \in Injection(I, S)
  BY DEF Surjection, Injection, IsInjective
<1> QED
  BY <1>1, FS_Surjection, FS_CardinalityType

\* Ids selected are in the order of their places, from 0 on.
LEMMA PlainPlaces ==
  ASSUME PagesAssumption, StoreInv, at # "idle"
  PROVE  /\ Cardinality(PlainRows) \in Nat
         /\ \A i \in Selected(request) : Place(Plain(i)) \in 0 .. Cardinality(PlainRows) - 1
         /\ \A i \in Selected(request) : \A j \in Selected(request) :
              /\ Place(Plain(i)) < Place(Plain(j)) <=>
                   Comes(Ranked(i), Ranked(j), ReadSort, request.desc)
              /\ Place(Plain(i)) = Place(Plain(j)) => i = j
<1> DEFINE below == Ahead(PlainRows, ReadSort, request.desc)
           N == Cardinality(PlainRows)
<1>1. Ordering(below) /\ N \in Nat
  BY PlainOrderable, RequestType, RowsInOrder
<1>2. /\ DOMAIN below = PlainRows
      /\ \A x \in PlainRows : /\ Cardinality(below[x]) = Place(x)
                              /\ below[x] = {y \in PlainRows : Comes(y, x, ReadSort, request.desc)}
  BY DEF Ahead, Place, PlaceIn
<1> HIDE DEF below
<1>3. \A x \in PlainRows : /\ Place(x) \in Nat /\ Place(x) < N
                           /\ \A y \in below[x] : Place(y) < Place(x)
  <2> TAKE x \in PlainRows
  <2>1. /\ Cardinality(below[x]) \in Nat /\ Cardinality(below[x]) < N
        /\ \A y \in below[x] : Cardinality(below[y]) < Cardinality(below[x])
    BY <1>1, <1>2, FewerBelow
  <2>2. \A y \in below[x] : y \in PlainRows
    BY <1>2
  <2> QED
    BY <1>2, <2>1, <2>2
<1>4. ASSUME NEW x \in PlainRows, NEW y \in PlainRows
      PROVE  /\ Place(x) < Place(y) <=> Comes(x, y, ReadSort, request.desc)
             /\ Place(x) = Place(y) => x = y
  <2>1. x = y \/ x \in below[y] \/ y \in below[x]
    BY <1>1, <1>2 DEF Ordering
  <2>2. x \notin below[x]
    BY <1>1, <1>2 DEF Ordering
  <2>3. Place(x) \in Nat /\ Place(y) \in Nat
    BY <1>3
  <2>4. x \in below[y] => Place(x) < Place(y)
    BY <1>3
  <2>5. y \in below[x] => Place(y) < Place(x)
    BY <1>3
  <2>6. x \in below[y] <=> Comes(x, y, ReadSort, request.desc)
    BY <1>2
  <2> QED
    BY <2>1, <2>2, <2>3, <2>4, <2>5, <2>6
<1>5. ASSUME NEW i \in Selected(request), NEW j \in Selected(request)
      PROVE  Comes(Plain(i), Plain(j), ReadSort, request.desc) <=>
               Comes(Ranked(i), Ranked(j), ReadSort, request.desc)
  <2>1. \A k : Plain(k).id = Ranked(k).id /\ Plain(k).content = Ranked(k).content
    BY DEF Plain, Ranked
  <2>2. ReadSort \in {"ts", "length"}
    BY ReadSortType
  <2>3. /\ Comes(Plain(i), Plain(j), ReadSort, request.desc) <=>
             Comes(Plain(i), Ranked(j), ReadSort, request.desc)
        /\ Comes(Plain(i), Ranked(j), ReadSort, request.desc) <=>
             Comes(Ranked(i), Ranked(j), ReadSort, request.desc)
    BY <2>1, <2>2, SameKey
  <2> QED
    BY <2>3
<1>6. \A i \in Selected(request) : Plain(i) \in PlainRows /\ Plain(i).id = i
  BY DEF PlainRows, Plain
<1>7. \A i \in Selected(request) : Place(Plain(i)) \in 0 .. N - 1
  BY <1>1, <1>3, <1>6
<1> QED
  BY <1>1, <1>4, <1>5, <1>6, <1>7

\* The place of a row held is that of its id.
LEMMA HeldPlace ==
  ASSUME PagesAssumption, StoreInv, at # "idle", NEW x \in HeldRows, x.id \in Selected(request)
  PROVE  Place(x) = Place(Plain(x.id))
BY SamePlace DEF Place

\* The rows taken are some of the finitely many stored.
LEMMA TakenFinite ==
  ASSUME PagesAssumption, StoreInv, at # "idle"
  PROVE  /\ IsFiniteSet(TakenIds) /\ TakenIds \subseteq Selected(request)
         /\ \A S \in SUBSET TakenIds :
              IsFiniteSet(S) /\ Cardinality(S) \in Nat /\ Cardinality(S) <= Cardinality(TakenIds)
<1>1. TakenIds \subseteq Selected(request) /\ IsFiniteSet(Selected(request))
  BY PlainOrderable DEF TakenIds
<1>2. IsFiniteSet(TakenIds)
  BY <1>1, FS_Subset
<1> QED
  BY <1>1, <1>2, FS_Subset, FS_CardinalityType

\* Without a sort by risk the rows of the answer come as they are read.
LEMMA ReadInOrder ==
  ASSUME PagesAssumption, StoreInv, at # "idle", request.sort # "risk", NEW id \in TakenIds
  PROVE  RefPlace(id) = Cardinality(TakenBefore(Place(Plain(id))))
<1>1. ReadSort = request.sort
  BY DEF ReadSort
<1>2. TakenIds \subseteq Selected(request)
  BY DEF TakenIds
<1>3. \A j \in TakenIds : Comes(Ranked(j), Ranked(id), request.sort, request.desc) <=>
                            Place(Plain(j)) < Place(Plain(id))
  BY <1>1, <1>2, PlainPlaces
<1>4. {j \in TakenIds : Comes(Ranked(j), Ranked(id), request.sort, request.desc)} =
        TakenBefore(Place(Plain(id)))
  BY <1>3 DEF TakenBefore
<1> QED
  BY <1>4 DEF RefPlace

\* What one statement selects is all taken, each where it is read.
LEMMA DirectPlaces ==
  ASSUME PagesAssumption, StoreInv, at # "idle", Direct(request)
  PROVE  /\ TakenIds = Selected(request)
         /\ \A id \in TakenIds : RefPlace(id) = Place(Plain(id))
         /\ Cardinality(TakenIds) = Cardinality(PlainRows)
<1>1. TakenIds = Selected(request)
  BY DEF TakenIds, Kept, Direct
<1>2. Cardinality(TakenIds) = Cardinality(PlainRows)
  BY <1>1, PlainOrderable
<1>3. ASSUME NEW id \in TakenIds PROVE RefPlace(id) = Place(Plain(id))
  <2> DEFINE I == TakenBefore(Place(Plain(id)))
             S == {y \in PlainRows : Comes(y, Plain(id), ReadSort, request.desc)}
             f == [i \in I |-> Plain(i)]
  <2>1. IsFiniteSet(I)
    BY TakenFinite DEF TakenBefore
  <2>2. \A i \in Selected(request) : \A j \in Selected(request) :
          Place(Plain(i)) < Place(Plain(j)) <=> Comes(Plain(i), Plain(j), ReadSort, request.desc)
    <3>1. \A k : Plain(k).id = Ranked(k).id /\ Plain(k).content = Ranked(k).content
      BY DEF Plain, Ranked
    <3>2. ReadSort \in {"ts", "length"}
      BY ReadSortType
    <3>3. \A i, j : Comes(Plain(i), Plain(j), ReadSort, request.desc) <=>
                      Comes(Ranked(i), Ranked(j), ReadSort, request.desc)
      BY <3>1, <3>2, SameKey
    <3> QED
      BY <3>3, PlainPlaces
  <2>3. \A i \in I : Plain(i) \in S
    BY <1>1, <2>2 DEF TakenBefore, PlainRows
  <2>4. f \in [I -> S] /\ \A i \in I : f[i] = Plain(i)
    BY <2>3
  <2>5. \A x \in S : \E i \in I : f[i] = x
    <3> SUFFICES ASSUME NEW x \in S PROVE \E i \in I : f[i] = x
      OBVIOUS
    <3>1. PICK i \in Selected(request) : x = Plain(i)
      BY DEF PlainRows
    <3>2. i \in I
      BY <1>1, <2>2, <3>1 DEF TakenBefore
    <3> QED
      BY <2>4, <3>1, <3>2
  <2>6. \A i, j : Plain(i) = Plain(j) => i = j
    <3>1. \A i : Plain(i).id = i
      BY DEF Plain
    <3> QED
      BY <3>1
  <2> HIDE DEF f, I, S
  <2>7. Cardinality(S) = Cardinality(I)
    BY <2>1, <2>4, <2>5, <2>6, CountBy
  <2>8. RefPlace(id) = Cardinality(I)
    BY ReadInOrder DEF Direct, I
  <2> QED
    BY <2>7, <2>8 DEF S, Place, PlaceIn
<1> QED
  BY <1>1, <1>2, <1>3

\* One statement reads the page itself.
LEMMA ReadCut ==
  ASSUME PagesAssumption, StoreInv, at # "idle", Direct(request), NEW pg \in Nat \ {0}
  PROVE  Cut(Read(request, Limit, Skip(pg)), Cardinality(TakenIds), pg)
<1> DEFINE c == Read(request, Limit, Skip(pg))
           N == Cardinality(PlainRows)
<1>1. Limit \in Nat /\ Skip(pg) \in Nat
  BY LimitType, SkipType
<1>2. /\ c \in Seq(PlainRows)
      /\ Len(c) = IF N <= Skip(pg) THEN 0 ELSE IF Skip(pg) + Limit < N THEN Limit ELSE N - Skip(pg)
      /\ \A n \in 1 .. Len(c) : c[n] \in PlainRows /\ Place(c[n]) = Skip(pg) + n - 1
  BY <1>1, ReadOf
<1>3. \A x \in PlainRows : x.id \in Selected(request) /\ x = Plain(x.id)
  BY PlainOrderable
<1>4. /\ TakenIds = Selected(request) /\ Cardinality(TakenIds) = N
      /\ \A id \in TakenIds : RefPlace(id) = Place(Plain(id))
  BY DirectPlaces
<1> HIDE DEF c, N
<1>5. \A n \in 1 .. Len(c) : c[n].id \in TakenIds /\ RefPlace(c[n].id) = Skip(pg) + n - 1
  <2> TAKE n \in 1 .. Len(c)
  <2>1. c[n] \in PlainRows /\ Place(c[n]) = Skip(pg) + n - 1
    BY <1>2
  <2>2. c[n].id \in TakenIds /\ c[n] = Plain(c[n].id)
    BY <1>3, <1>4, <2>1
  <2>3. RefPlace(c[n].id) = Place(Plain(c[n].id))
    BY <1>4, <2>2
  <2> QED
    BY <2>1, <2>2, <2>3
<1> QED
  BY <1>2, <1>4, <1>5 DEF Cut, c, N

\* A chunk of a scan: the rows read from one place on
Chunked ==
  /\ offset <= Cardinality(PlainRows) /\ Len(chunk) <= offset
  /\ \A n \in 1 .. Len(chunk) :
       /\ chunk[n].id \in Selected(request)
       /\ Place(chunk[n]) = offset - Len(chunk) + n - 1

\* Every row taken that is read by then is one taken before the chunk or one of the chunk.
LEMMA CountChunk ==
  ASSUME PagesAssumption, BaseInv, at # "idle", Chunked,
         NEW k \in offset - Len(chunk) .. offset
  PROVE  LET a == offset - Len(chunk)
             B == {i \in 1 .. Len(chunk) : chunk[i].id \in TakenIds /\ i - 1 < k - a}
         IN  Cardinality(TakenBefore(k)) = Cardinality(TakenBefore(a)) + Cardinality(B)
<1> DEFINE a == offset - Len(chunk)
           B == {i \in 1 .. Len(chunk) : chunk[i].id \in TakenIds /\ i - 1 < k - a}
           A == TakenBefore(a)
           C == {id \in TakenIds : a <= Place(Plain(id)) /\ Place(Plain(id)) < k}
           f == [i \in B |-> chunk[i].id]
<1>1. /\ StoreInv /\ chunk \in Seq(HeldRows) /\ Len(chunk) \in Nat /\ offset \in Nat
      /\ a \in Nat /\ k \in Nat /\ a <= k /\ k <= offset
  <2>1. StoreInv /\ chunk \in Seq(HeldRows) /\ Len(chunk) \in Nat /\ offset \in Nat
    BY LenProperties DEF BaseInv, QueryInv
  <2> QED
    BY <2>1 DEF Chunked
<1>2. \A n \in 1 .. Len(chunk) :
        chunk[n].id \in Selected(request) /\ Place(Plain(chunk[n].id)) = a + n - 1
  <2> TAKE n \in 1 .. Len(chunk)
  <2>1. chunk[n] \in HeldRows /\ chunk[n].id \in Selected(request) /\ Place(chunk[n]) = a + n - 1
    BY <1>1, ElementOfSeq DEF Chunked
  <2>2. Place(chunk[n]) = Place(Plain(chunk[n].id))
    BY <1>1, <2>1, HeldPlace
  <2> QED
    BY <2>1, <2>2
<1>3. /\ TakenIds \subseteq Selected(request) /\ IsFiniteSet(A) /\ IsFiniteSet(C)
      /\ Cardinality(A) \in Nat /\ Cardinality(C) \in Nat
  BY <1>1, TakenFinite DEF TakenBefore
<1>4. \A i \in Selected(request) : Place(Plain(i)) \in Nat
  BY <1>1, PlainPlaces
<1>5. \A i \in Selected(request) : \A j \in Selected(request) :
        Place(Plain(i)) = Place(Plain(j)) => i = j
  BY <1>1, PlainPlaces
<1>6. TakenBefore(k) = A \cup C /\ A \cap C = {}
  <2>1. \A id \in TakenIds : /\ Place(Plain(id)) \in Nat
                             /\ Place(Plain(id)) < k <=>
                                  Place(Plain(id)) < a \/ (a <= Place(Plain(id)) /\ Place(Plain(id)) < k)
                             /\ ~(Place(Plain(id)) < a /\ a <= Place(Plain(id)))
    <3> TAKE id \in TakenIds
    <3>1. Place(Plain(id)) \in Nat
      BY <1>3, <1>4
    <3> QED
      BY <1>1, <3>1
  <2> HIDE DEF a
  <2> QED
    BY <2>1 DEF TakenBefore
<1>7. IsFiniteSet(B)
  <2>1. IsFiniteSet(1 .. Len(chunk))
    BY <1>1, FS_Interval
  <2> QED
    BY <2>1, FS_Subset
<1>8. \A i \in B : i \in 1 .. Len(chunk) /\ chunk[i].id \in TakenIds /\ i - 1 < k - a
  OBVIOUS
<1>9. \A i \in 1 .. Len(chunk) : chunk[i].id \in TakenIds /\ i - 1 < k - a => i \in B
  OBVIOUS
<1>10. f \in [B -> C] /\ \A i \in B : f[i] = chunk[i].id
  <2>1. ASSUME NEW i \in B PROVE chunk[i].id \in C
    <3>1. Place(Plain(chunk[i].id)) = a + i - 1
      BY <1>2, <1>8
    <3>2. a <= a + i - 1 /\ a + i - 1 < k
      BY <1>1, <1>8
    <3> QED
      BY <1>8, <3>1, <3>2
  <2> QED
    BY <2>1
<1>11. \A i \in B : \A j \in B : f[i] = f[j] => i = j
  <2> SUFFICES ASSUME NEW i \in B, NEW j \in B, f[i] = f[j] PROVE i = j
    OBVIOUS
  <2>1. a + i - 1 = a + j - 1
    BY <1>2, <1>8, <1>10
  <2>2. i \in Int /\ j \in Int
    BY <1>8
  <2> HIDE DEF a, f, B
  <2> QED
    BY <1>1, <2>1, <2>2
<1>12. \A x \in C : \E i \in B : f[i] = x
  <2> SUFFICES ASSUME NEW x \in C PROVE \E i \in B : f[i] = x
    OBVIOUS
  <2>1. x \in TakenIds /\ x \in Selected(request) /\ Place(Plain(x)) \in Nat
        /\ a <= Place(Plain(x)) /\ Place(Plain(x)) < k
    BY <1>3, <1>4
  <2> DEFINE i == Place(Plain(x)) - a + 1
  <2> HIDE DEF f, B, C
  <2>2. i \in 1 .. Len(chunk) /\ i - 1 < k - a /\ a + i - 1 = Place(Plain(x))
    BY <1>1, <2>1
  <2>3. chunk[i].id = x
    BY <1>2, <1>5, <2>1, <2>2
  <2>4. i \in B
    BY <1>9, <2>1, <2>2, <2>3
  <2> QED
    BY <1>10, <2>3, <2>4
<1> HIDE DEF f, B, C, A
<1>13. Cardinality(C) = Cardinality(B)
  BY <1>7, <1>10, <1>11, <1>12, CountBy
<1>14. Cardinality(A \cup C) = Cardinality(A) + Cardinality(C)
  <2>1. Cardinality(A \cup C) = Cardinality(A) + Cardinality(C) - Cardinality(A \cap C)
    BY <1>3, FS_Union
  <2>2. Cardinality(A \cap C) = 0
    BY <1>6, FS_EmptySet
  <2> QED
    BY <1>3, <2>1, <2>2
<1> QED
  BY <1>6, <1>13, <1>14 DEF A, B

\* What is kept of a chunk comes next in the order of reading.
LEMMA KeptPlaces ==
  ASSUME PagesAssumption, BaseInv, RankInv, at # "idle", Chunked,
         total = Cardinality(TakenBefore(offset - Len(chunk)))
  PROVE  LET kept == Filtered(WithRisk(chunk, request), request)
         IN  /\ kept \in Seq(HeldRows) /\ Len(kept) \in Nat
             /\ total + Len(kept) = Cardinality(TakenBefore(offset))
             /\ \A n \in 1 .. Len(kept) :
                  /\ kept[n].id \in TakenIds
                  /\ offset - Len(chunk) <= Place(kept[n]) /\ Place(kept[n]) < offset
                  /\ Place(kept[n]) = Place(Plain(kept[n].id))
                  /\ Cardinality(TakenBefore(Place(kept[n]))) = total + n - 1
             /\ \A m, n \in 1 .. Len(kept) : m < n => Place(kept[m]) < Place(kept[n])
<1> DEFINE w == WithRisk(chunk, request)
           kept == Filtered(w, request)
           a == offset - Len(chunk)
           K == {n \in 1 .. Len(w) : Kept(w[n], request)}
<1>1. /\ StoreInv /\ chunk \in Seq(HeldRows) /\ Len(chunk) \in Nat /\ offset \in Nat
      /\ a \in Nat /\ a <= offset /\ a + Len(chunk) = offset /\ total \in Nat
  <2>1. StoreInv /\ chunk \in Seq(HeldRows) /\ Len(chunk) \in Nat /\ offset \in Nat /\ total \in Nat
    BY LenProperties DEF BaseInv, QueryInv
  <2> QED
    BY <2>1 DEF Chunked
<1>2. \A n \in 1 .. Len(chunk) :
        /\ chunk[n].id \in Selected(request) /\ chunk[n].id \in DOMAIN table
        /\ Place(chunk[n]) = a + n - 1
  BY DEF Chunked, Selected
<1>3. /\ w \in Seq(HeldRows) /\ Len(w) = Len(chunk)
      /\ \A n \in 1 .. Len(chunk) : w[n] = Ranked(chunk[n].id) /\ w[n].id = chunk[n].id
  <2>1. /\ w \in Seq(HeldRows) /\ Len(w) = Len(chunk)
        /\ \A n \in 1 .. Len(chunk) : chunk[n].id \in DOMAIN table => w[n] = Ranked(chunk[n].id)
    BY RankedChunk
  <2> QED
    BY <1>2, <2>1 DEF Ranked
<1> HIDE DEF w
<1>4. K = {n \in 1 .. Len(chunk) : chunk[n].id \in TakenIds}
  BY <1>2, <1>3 DEF TakenIds
<1>5. \A n \in 1 .. Len(chunk) : Place(w[n]) = a + n - 1 /\ Place(w[n]) = Place(Plain(w[n].id))
  <2> TAKE n \in 1 .. Len(chunk)
  <2>1. w[n] \in HeldRows /\ chunk[n] \in HeldRows
    BY <1>1, <1>3, ElementOfSeq
  <2>2. Place(w[n]) = Place(chunk[n])
    BY <1>1, <1>2, <1>3, <2>1, OneIdOnePlace
  <2>3. Place(w[n]) = Place(Plain(w[n].id))
    BY <1>1, <1>2, <1>3, <2>1, HeldPlace
  <2> QED
    BY <1>2, <2>2, <2>3
<1>6. /\ kept \in Seq(HeldRows) /\ Len(kept) = Cardinality(K) /\ Len(kept) \in Nat
      /\ \E o \in [1 .. Len(kept) -> K] :
           /\ \A n \in 1 .. Len(kept) : kept[n] = w[o[n]] /\ Cardinality({m \in K : m < o[n]}) = n - 1
           /\ \A m, n \in 1 .. Len(kept) : m < n => o[m] < o[n]
  <2>1. w \in Seq(HeldRows) /\ K = KeptOf(w, request)
    BY <1>3 DEF KeptOf
  <2>2. \A s \in Seq(HeldRows) :
          /\ Filtered(s, request) \in Seq(HeldRows)
          /\ Len(Filtered(s, request)) = Cardinality(KeptOf(s, request))
          /\ Cardinality(KeptOf(s, request)) \in Nat
    BY FilteredPlaces
  <2>3. \A s \in Seq(HeldRows) :
          \E o \in [1 .. Len(Filtered(s, request)) -> KeptOf(s, request)] :
            /\ \A n \in 1 .. Len(Filtered(s, request)) :
                 /\ Filtered(s, request)[n] = s[o[n]]
                 /\ Cardinality({m \in KeptOf(s, request) : m < o[n]}) = n - 1
            /\ \A m, n \in 1 .. Len(Filtered(s, request)) : m < n => o[m] < o[n]
    BY FilteredPlaces
  <2>4. \E o \in [1 .. Len(Filtered(w, request)) -> KeptOf(w, request)] :
            /\ \A n \in 1 .. Len(Filtered(w, request)) :
                 /\ Filtered(w, request)[n] = w[o[n]]
                 /\ Cardinality({m \in KeptOf(w, request) : m < o[n]}) = n - 1
            /\ \A m, n \in 1 .. Len(Filtered(w, request)) : m < n => o[m] < o[n]
    BY <2>1, <2>3
  <2> HIDE DEF K, kept
  <2> QED
    BY <2>1, <2>2, <2>4, Zenon DEF kept
<1> HIDE DEF kept, K
<1>7. PICK o \in [1 .. Len(kept) -> K] :
        /\ \A n \in 1 .. Len(kept) : kept[n] = w[o[n]] /\ Cardinality({m \in K : m < o[n]}) = n - 1
        /\ \A m, n \in 1 .. Len(kept) : m < n => o[m] < o[n]
  BY <1>6
<1>8. \A n \in 1 .. Len(kept) : o[n] \in 1 .. Len(chunk) /\ chunk[o[n]].id \in TakenIds
  <2> TAKE n \in 1 .. Len(kept)
  <2>1. o[n] \in K
    BY <1>7
  <2> QED
    BY <1>4, <2>1
<1>9. \A k \in a .. offset :
        Cardinality(TakenBefore(k)) =
          total + Cardinality({i \in 1 .. Len(chunk) : chunk[i].id \in TakenIds /\ i - 1 < k - a})
  BY CountChunk
<1>10. total + Len(kept) = Cardinality(TakenBefore(offset))
  <2>1. \A i \in 1 .. Len(chunk) : i - 1 < offset - a
    BY <1>1
  <2>2. {i \in 1 .. Len(chunk) : chunk[i].id \in TakenIds /\ i - 1 < offset - a} = K
    BY <1>4, <2>1
  <2>3. offset \in a .. offset
    BY <1>1
  <2> HIDE DEF a
  <2> QED
    BY <1>6, <1>9, <2>2, <2>3
<1>11. ASSUME NEW n \in 1 .. Len(kept)
       PROVE  /\ kept[n].id \in TakenIds
              /\ Place(kept[n]) = a + o[n] - 1
              /\ a <= Place(kept[n]) /\ Place(kept[n]) < offset
              /\ Place(kept[n]) = Place(Plain(kept[n].id))
              /\ Cardinality(TakenBefore(Place(kept[n]))) = total + n - 1
  <2>1. o[n] \in 1 .. Len(chunk) /\ chunk[o[n]].id \in TakenIds /\ kept[n] = w[o[n]]
    BY <1>7, <1>8
  <2>2. /\ kept[n].id \in TakenIds /\ Place(kept[n]) = a + o[n] - 1
        /\ Place(kept[n]) = Place(Plain(kept[n].id))
    BY <1>3, <1>5, <2>1
  <2> DEFINE k == a + o[n] - 1
  <2>3. k \in a .. offset /\ a <= k /\ k < offset /\ k - a = o[n] - 1
    <3>1. o[n] \in Nat /\ 1 <= o[n] /\ o[n] <= Len(chunk)
      BY <1>1, <2>1
    <3> HIDE DEF a
    <3> QED
      BY <1>1, <3>1
  <2>4. \A i \in 1 .. Len(chunk) : i - 1 < k - a <=> i < o[n]
    <3> HIDE DEF k, a
    <3> QED
      BY <2>1, <2>3
  <2>5. {i \in 1 .. Len(chunk) : chunk[i].id \in TakenIds /\ i - 1 < k - a} = {m \in K : m < o[n]}
    <3> HIDE DEF k, a
    <3> QED
      BY <1>4, <2>4
  <2>6. Cardinality({m \in K : m < o[n]}) = n - 1
    BY <1>7
  <2> HIDE DEF k, a
  <2>7. Cardinality(TakenBefore(k)) = total + (n - 1)
    BY <1>9, <2>3, <2>5, <2>6
  <2>8. total + (n - 1) = total + n - 1
    BY <1>1
  <2> QED
    BY <2>2, <2>3, <2>7, <2>8 DEF k
<1>12. ASSUME NEW m \in 1 .. Len(kept), NEW n \in 1 .. Len(kept), m < n
       PROVE  Place(kept[m]) < Place(kept[n])
  <2>1. o[m] < o[n] /\ o[m] \in Int /\ o[n] \in Int
    BY <1>7, <1>8, <1>12
  <2>2. Place(kept[m]) = a + o[m] - 1 /\ Place(kept[n]) = a + o[n] - 1
    BY <1>11
  <2> HIDE DEF a
  <2> QED
    BY <1>1, <2>1, <2>2
<1> QED
  BY <1>6, <1>10, <1>11, <1>12 DEF kept, w

-------------------------------------------------------------------------------
(* A sort by risk of what was collected *)

\* The order by risk is that of the risk, and among equals that of reading.
LEMMA RiskOrder ==
  ASSUME PagesAssumption, NEW x, NEW y, Sortable(x, "ts"), Sortable(y, "ts"), NEW desc \in BOOLEAN
  PROVE  Comes(x, y, "risk", desc) <=>
           \/ IF desc THEN y.rank < x.rank ELSE x.rank < y.rank
           \/ x.rank = y.rank /\ Comes(x, y, "ts", desc)
<1>1. /\ Key(x, "ts") \in Int /\ Key(y, "ts") \in Int /\ x.id \in Int /\ y.id \in Int
      /\ Key(x, "risk") = x.rank /\ Key(y, "risk") = y.rank
  BY KeyInt DEF Sorts, Key
<1>2. \A r, q : Before(r, q, "risk") <=>
         \/ Key(r, "risk") < Key(q, "risk")
         \/ Key(r, "risk") = Key(q, "risk") /\ Key(r, "ts") < Key(q, "ts")
         \/ Key(r, "risk") = Key(q, "risk") /\ Key(r, "ts") = Key(q, "ts") /\ r.id < q.id
  BY DEF Before
<1>3. \A r, q : Before(r, q, "ts") <=>
         \/ Key(r, "ts") < Key(q, "ts")
         \/ Key(r, "ts") = Key(q, "ts") /\ Key(r, "ts") < Key(q, "ts")
         \/ Key(r, "ts") = Key(q, "ts") /\ Key(r, "ts") = Key(q, "ts") /\ r.id < q.id
  BY DEF Before
<1>4. \A r, q \in {x, y} : Before(r, q, "risk") <=>
         r.rank < q.rank \/ (r.rank = q.rank /\ Before(r, q, "ts"))
  BY <1>1, <1>2, <1>3
<1> QED
  BY <1>4 DEF Comes

\* All rows taken, in the order of reading and with their risk
Gathered ==
  /\ Len(rows) = Cardinality(TakenIds)
  /\ \A n \in 1 .. Len(rows) : rows[n].id \in TakenIds
  /\ \A m, n \in 1 .. Len(rows) : m < n => Place(rows[m]) < Place(rows[n])

\* The rows collected are sorted to where they come among those taken.
LEMMA RiskPlaces ==
  ASSUME PagesAssumption, BaseInv, RankInv, at # "idle", request.sort = "risk",
         "reranked" \notin moved, Gathered, NEW k \in 1 .. Len(rows)
  PROVE  RefPlace(rows[k].id) = Cardinality(RiskBelow(rows, request.desc)[k])
<1> DEFINE I == 1 .. Len(rows)
           B == RiskBelow(rows, request.desc)[k]
           C == {j \in TakenIds : Comes(Ranked(j), Ranked(rows[k].id), "risk", request.desc)}
           all == [m \in I |-> rows[m].id]
           f == [m \in B |-> rows[m].id]
<1>1. /\ StoreInv /\ rows \in Seq(HeldRows) /\ Len(rows) \in Nat /\ request.desc \in BOOLEAN
      /\ ReadSort = "ts" /\ request.op # "frames"
  <2>1. StoreInv /\ rows \in Seq(HeldRows) /\ Len(rows) \in Nat
    BY LenProperties DEF BaseInv, QueryInv
  <2> QED
    BY <2>1, RequestType DEF ReadSort
<1>2. TakenIds \subseteq Selected(request) /\ TakenIds \subseteq DOMAIN table /\ IsFiniteSet(TakenIds)
  BY <1>1, TakenFinite DEF TakenIds, Selected
<1>3. \A m \in I : rows[m] = Ranked(rows[m].id) /\ rows[m] \in HeldRows /\ rows[m].id \in TakenIds
  <2> TAKE m \in I
  <2>1. rows[m] \in HeldRows /\ rows[m].id \in TakenIds
    BY <1>1, ElementOfSeq DEF Gathered
  <2>2. rows[m] \in PageRow /\ rows[m].content = table[rows[m].id]
    BY <1>2, <2>1 DEF HeldRows
  <2>3. rows[m].rank = risk[table[rows[m].id]]
    BY <2>2 DEF RankInv
  <2>4. /\ Ranked(rows[m].id) \in PageRow /\ Ranked(rows[m].id).id = rows[m].id
        /\ Ranked(rows[m].id).content = table[rows[m].id]
        /\ Ranked(rows[m].id).rank = risk[table[rows[m].id]]
    BY <1>1, <1>2, <2>1, RankedRow
  <2> QED
    BY <2>1, <2>2, <2>3, <2>4 DEF PageRow
<1>4. \A m \in I : /\ Place(rows[m]) \in Nat /\ Place(rows[m]) = Place(Plain(rows[m].id))
                   /\ Sortable(rows[m], "ts")
  <2> TAKE m \in I
  <2>1. rows[m] \in HeldRows /\ rows[m].id \in Selected(request)
    BY <1>2, <1>3
  <2> QED
    BY <1>1, <2>1, HeldPlace, PlaceNat, HeldSortable
<1>5. \A m \in I : \A n \in I : m < n <=> Place(rows[m]) < Place(rows[n])
  <2> TAKE m \in I
  <2> TAKE n \in I
  <2>1. /\ m < n => Place(rows[m]) < Place(rows[n])
        /\ n < m => Place(rows[n]) < Place(rows[m])
        /\ m = n => Place(rows[m]) = Place(rows[n])
    BY DEF Gathered
  <2>2. Place(rows[m]) \in Nat /\ Place(rows[n]) \in Nat /\ m \in Int /\ n \in Int
    BY <1>4
  <2> QED
    BY <2>1, <2>2
<1>6. \A m \in I : \A n \in I : Comes(rows[m], rows[n], "ts", request.desc) <=> m < n
  <2> TAKE m \in I
  <2> TAKE n \in I
  <2>1. Place(Plain(rows[m].id)) < Place(Plain(rows[n].id)) <=>
          Comes(Ranked(rows[m].id), Ranked(rows[n].id), "ts", request.desc)
    BY <1>1, <1>2, <1>3, PlainPlaces
  <2>2. rows[m] = Ranked(rows[m].id) /\ rows[n] = Ranked(rows[n].id)
    BY <1>3
  <2>3. Comes(Ranked(rows[m].id), Ranked(rows[n].id), "ts", request.desc) <=>
          Comes(rows[m], rows[n], "ts", request.desc)
    BY <2>2
  <2> QED
    BY <1>4, <1>5, <2>1, <2>3
<1>7. \A m \in I : Comes(rows[m], rows[k], "risk", request.desc) <=> m \in B
  <2> TAKE m \in I
  <2>1. Comes(rows[m], rows[k], "risk", request.desc) <=>
          \/ IF request.desc THEN rows[k].rank < rows[m].rank ELSE rows[m].rank < rows[k].rank
          \/ rows[m].rank = rows[k].rank /\ Comes(rows[m], rows[k], "ts", request.desc)
    BY <1>1, <1>4, RiskOrder
  <2>2. m \in B <=> Riskier(rows, request.desc, m, k) \/ (rows[m].rank = rows[k].rank /\ m < k)
    BY DEF RiskBelow
  <2> QED
    BY <1>6, <2>1, <2>2 DEF Riskier
<1>8. B \subseteq I
  BY DEF RiskBelow
<1>9. \A x \in TakenIds : \E m \in I : rows[m].id = x
  <2>1. all \in [I -> TakenIds]
    BY <1>3
  <2>2. \A m \in I : \A n \in I : rows[m].id = rows[n].id => m = n
    <3> TAKE m \in I
    <3> TAKE n \in I
    <3>1. m \in Int /\ n \in Int
      OBVIOUS
    <3>2. rows[m].id = rows[n].id => Place(rows[m]) = Place(rows[n])
      BY <1>4
    <3> QED
      BY <1>4, <1>5, <3>1, <3>2
  <2>3. all \in Injection(I, TakenIds)
    BY <2>1, <2>2 DEF Injection, IsInjective
  <2>4. Cardinality(I) = Len(rows)
    <3>1. 1 \in Int /\ Len(rows) \in Int
      BY <1>1
    <3> QED
      BY <1>1, <3>1, FS_Interval
  <2>5. all \in Surjection(I, TakenIds)
    <3> HIDE DEF I, all
    <3> QED
      BY <1>2, <2>3, <2>4, FS_Injection DEF Gathered
  <2> QED
    BY <2>5 DEF Surjection
<1>10. IsFiniteSet(B)
  <2>1. IsFiniteSet(I)
    BY <1>1, FS_Interval
  <2> HIDE DEF I, B
  <2> QED
    BY <1>8, <2>1, FS_Subset
<1>11. \A m \in I : Comes(Ranked(rows[m].id), Ranked(rows[k].id), "risk", request.desc) <=> m \in B
  <2> TAKE m \in I
  <2>1. rows[m] = Ranked(rows[m].id) /\ rows[k] = Ranked(rows[k].id)
    BY <1>3
  <2>2. Comes(Ranked(rows[m].id), Ranked(rows[k].id), "risk", request.desc) <=>
          Comes(rows[m], rows[k], "risk", request.desc)
    BY <2>1
  <2> HIDE DEF B
  <2> QED
    BY <1>7, <2>2
<1>12. f \in [B -> C] /\ \A m \in B : f[m] = rows[m].id
  <2> HIDE DEF B
  <2> QED
    BY <1>3, <1>8, <1>11
<1>13. \A x \in C : \E m \in B : f[m] = x
  <2> SUFFICES ASSUME NEW x \in C PROVE \E m \in B : f[m] = x
    OBVIOUS
  <2>1. PICK m \in I : rows[m].id = x
    BY <1>9
  <2> HIDE DEF B, f
  <2> QED
    BY <1>11, <1>12, <2>1
<1>14. \A m \in B : \A n \in B : f[m] = f[n] => m = n
  <2> SUFFICES ASSUME NEW m \in B, NEW n \in B, f[m] = f[n] PROVE m = n
    OBVIOUS
  <2>1. m \in I /\ n \in I /\ rows[m].id = rows[n].id
    BY <1>8, <1>12
  <2>2. Place(rows[m]) = Place(rows[n]) /\ Place(rows[m]) \in Nat
    BY <1>4, <2>1
  <2>3. m \in Int /\ n \in Int
    BY <2>1
  <2> QED
    BY <1>5, <2>1, <2>2, <2>3
<1> HIDE DEF B, C, f
<1>15. Cardinality(C) = Cardinality(B)
  BY <1>10, <1>12, <1>13, <1>14, CountBy
<1> QED
  BY <1>15 DEF B, C, RefPlace

\* Sorted by risk, the page that is cut out is that of the rows taken.
LEMMA RiskCut ==
  ASSUME PagesAssumption, BaseInv, RankInv, at # "idle", request.sort = "risk",
         "reranked" \notin moved, Gathered, NEW pg \in Nat \ {0}
  PROVE  Cut(Slice(ByRisk(rows, request.desc), Limit, Skip(pg)), Cardinality(TakenIds), pg)
<1> DEFINE all == ByRisk(rows, request.desc)
           below == RiskBelow(rows, request.desc)
           o == Arranged(below)
           c == Slice(all, Limit, Skip(pg))
<1>1. rows \in Seq(PageRow) /\ request.desc \in BOOLEAN /\ Len(rows) \in Nat
  <2>1. rows \in Seq(HeldRows) /\ HeldRows \subseteq PageRow /\ StoreInv
    BY DEF BaseInv, QueryInv, HeldRows
  <2> QED
    BY <2>1, SeqMonotonic, RequestType, LenProperties
<1>2. /\ InOrder(o, below)
      /\ all \in Seq(PageRow) /\ Len(all) = Len(rows)
      /\ o \in [1 .. Len(rows) -> 1 .. Len(rows)] /\ Len(o) = Len(rows)
      /\ \A n \in 1 .. Len(rows) : all[n] = rows[o[n]]
  BY <1>1, ByRiskPlaces
<1>3. Limit \in Nat /\ Skip(pg) \in Nat
  BY LimitType, SkipType
<1> HIDE DEF all, o, below
<1>4. \A n \in 1 .. Len(rows) : all[n].id \in TakenIds /\ RefPlace(all[n].id) = n - 1
  <2> TAKE n \in 1 .. Len(rows)
  <2>1. o[n] \in 1 .. Len(rows) /\ all[n] = rows[o[n]] /\ Cardinality(below[o[n]]) = n - 1
    BY <1>2 DEF InOrder
  <2>2. RefPlace(rows[o[n]].id) = Cardinality(below[o[n]])
    BY <2>1, RiskPlaces DEF below
  <2> QED
    BY <2>1, <2>2 DEF Gathered
<1>5. /\ Len(c) = IF Len(all) <= Skip(pg) THEN 0 ELSE IF Skip(pg) + Limit < Len(all) THEN Limit
                  ELSE Len(all) - Skip(pg)
      /\ \A n \in 1 .. Len(c) : c[n] = all[Skip(pg) + n] /\ Skip(pg) + n \in 1 .. Len(all)
  BY <1>2, <1>3, SliceOf
<1> HIDE DEF c
<1>6. \A n \in 1 .. Len(c) : c[n].id \in TakenIds /\ RefPlace(c[n].id) = Skip(pg) + n - 1
  <2> TAKE n \in 1 .. Len(c)
  <2>1. c[n] = all[Skip(pg) + n] /\ Skip(pg) + n \in 1 .. Len(rows)
    BY <1>2, <1>5
  <2> DEFINE i == Skip(pg) + n
  <2>2. i \in 1 .. Len(rows) /\ c[n] = all[i] /\ i - 1 = Skip(pg) + n - 1
    BY <1>3, <2>1
  <2> HIDE DEF i
  <2>3. all[i].id \in TakenIds /\ RefPlace(all[i].id) = i - 1
    BY <1>4, <2>2
  <2> QED
    BY <2>2, <2>3
<1>7. Len(all) = Cardinality(TakenIds)
  BY <1>2 DEF Gathered
<1>8. Cut(c, Cardinality(TakenIds), pg)
  BY <1>5, <1>6, <1>7 DEF Cut
<1> QED
  BY <1>8 DEF c, all

-------------------------------------------------------------------------------
(* What an added row, the newest of all, leaves as it is *)

\* Oldest first, the newest row of all moves no row that was read or taken before.
LEMMA InsertTaken ==
  ASSUME PagesAssumption, BaseInv, StartInv, at # "idle", NEW c \in Contents, Insert(c),
         OldestFirst, Newest(c), "shrunk" \notin moved
  PROVE  /\ Selected(request) \subseteq Selected(request)' /\ TakenIds \subseteq TakenIds'
         /\ Due' = Due
         /\ Cardinality(PlainRows) <= Cardinality(PlainRows)' /\ Cardinality(PlainRows)' \in Nat
         /\ Cardinality(TakenIds) <= Cardinality(TakenIds)' /\ Cardinality(TakenIds)' \in Nat
         /\ \A x \in HeldRows : x.id \in Selected(request) => Place(x)' = Place(x)
         /\ \A id \in Selected(request) : Place(Plain(id))' = Place(Plain(id))
         /\ \A id \in TakenIds : RefPlace(id)' = RefPlace(id)
         /\ \A k \in 0 .. Cardinality(PlainRows) : TakenBefore(k)' = TakenBefore(k)
<1>0. PICK new \in Nat : new = last + 1
  BY DEF BaseInv, StoreInv
<1> DEFINE ranked(id) == [id |-> id, content |-> table'[id], rank |-> risk[table'[id]]]
<1>1. /\ DOMAIN table' = DOMAIN table \cup {new} /\ table'[new] = c
      /\ \A id \in DOMAIN table : id # new => table'[id] = table[id]
      /\ UNCHANGED <<duck, request>> /\ started' = started /\ risk' = risk
  BY <1>0 DEF Insert, With, Moves, query
<1>2. last \in Nat /\ \A id \in DOMAIN table : id \in 1 .. last /\ id # new /\ id < new
  BY <1>0 DEF BaseInv, StoreInv
<1>3. /\ Selected(request)' = {id \in DOMAIN table' : Chosen(id, table'[id])}
      /\ PlainRows' = {PlainOf(id, table'[id]) : id \in Selected(request)'}
      /\ ReadSort' = ReadSort /\ request' = request
  BY <1>1, SelectedThen
<1>4. /\ Selected(request) = {id \in DOMAIN table : Chosen(id, table[id])}
      /\ PlainRows = {PlainOf(id, table[id]) : id \in Selected(request)}
  BY SelectedBy
<1>5. /\ Selected(request) \subseteq Selected(request)' /\ PlainRows \subseteq PlainRows'
      /\ Selected(request)' \subseteq Selected(request) \cup {new}
      /\ PlainRows' \subseteq PlainRows \cup {PlainOf(new, c)}
      /\ Selected(request) \subseteq DOMAIN table
  BY <1>1, <1>2, <1>3, <1>4
<1>6. /\ ReadSort = "ts" /\ request.desc = FALSE /\ request.sort = "ts"
      /\ StoreInv /\ risk \in [Contents -> Risk]
  BY RequestType DEF OldestFirst, ReadSort, BaseInv, StoreInv
<1>7. /\ TakenIds' = {id \in Selected(request)' : Kept(ranked(id), request)}
      /\ \A id : Ranked(id)' = ranked(id)
  BY <1>1 DEF TakenIds, Ranked, Kept, Match, PushedDown, Row, OutsideId
<1>8. \A id \in DOMAIN table : ranked(id) = Ranked(id) /\ PlainOf(id, table'[id]) = Plain(id)
  BY <1>1, <1>2 DEF Ranked, Plain, PlainOf
<1>9. TakenIds = {id \in Selected(request) : Kept(Ranked(id), request)}
  BY DEF TakenIds
<1>10. TakenIds \subseteq TakenIds' /\ TakenIds' \subseteq TakenIds \cup {new}
  <2>1. \A id \in Selected(request)' : id \in Selected(request) \/ id = new
    BY <1>5
  <2> HIDE DEF ranked
  <2>2. \A id \in Selected(request) : ranked(id) = Ranked(id) /\ id \in Selected(request)'
    BY <1>5, <1>8
  <2> QED
    BY <1>7, <1>9, <2>1, <2>2
<1>11. Due' = Due
  <2>1. \A id \in DOMAIN started : id # new
    BY <1>2 DEF StartInv
  <2> QED
    BY <1>1, <1>10, <2>1 DEF Due
\* The new row comes before none.
<1>12. ASSUME NEW x \in PageRow, NEW y \in PageRow, x.id = new, x.content = c,
              y.id \in DOMAIN table, y.content = table[y.id]
       PROVE  ~Comes(x, y, "ts", FALSE) /\ Comes(y, x, "ts", FALSE)
  <2>1. y.content.ts.halves <= c.ts.halves /\ y.id < x.id
    BY <1>2, <1>12 DEF Newest
  <2>2. /\ Key(y, "ts") \in Int /\ Key(x, "ts") \in Int /\ x.id \in Int /\ y.id \in Int
    BY KeyInt, <1>12 DEF Sorts, Sortable
  <2>3. Key(x, "ts") = c.ts.halves /\ Key(y, "ts") = y.content.ts.halves
    BY <1>12 DEF Key
  <2>4. ~Before(x, y, "ts") /\ Before(y, x, "ts")
    BY <2>1, <2>2, <2>3 DEF Before
  <2> QED
    BY <2>4 DEF Comes
<1>13. /\ \A id \in DOMAIN table : /\ Plain(id) \in PageRow /\ Plain(id).id = id
                                   /\ Plain(id).content = table[id]
                                   /\ Ranked(id) \in PageRow /\ Ranked(id).id = id
                                   /\ Ranked(id).content = table[id]
       /\ PlainOf(new, c) \in PageRow /\ PlainOf(new, c).id = new /\ PlainOf(new, c).content = c
       /\ ranked(new) \in PageRow /\ ranked(new).id = new /\ ranked(new).content = c
  <2>1. \A id \in DOMAIN table : id \in Nat /\ table[id] \in Contents /\ risk[table[id]] \in Risk
    BY <1>2, <1>6 DEF StoreInv
  <2>2. new \in Nat /\ table'[new] = c /\ risk[c] \in Risk /\ 0 \in Risk
    BY <1>1, <1>2, <1>6 DEF Risk
  <2> QED
    BY <2>1, <2>2 DEF Plain, PlainOf, Ranked, PageRow
<1>14. ASSUME NEW x \in PageRow, x.id \in Selected(request), x.content = table[x.id]
       PROVE  PlaceIn(PlainRows', x, "ts", FALSE) = PlaceIn(PlainRows, x, "ts", FALSE)
  <2>1. ~Comes(PlainOf(new, c), x, "ts", FALSE)
    BY <1>5, <1>12, <1>13, <1>14
  <2>2. {y \in PlainRows' : Comes(y, x, "ts", FALSE)} = {y \in PlainRows : Comes(y, x, "ts", FALSE)}
    BY <1>5, <2>1
  <2> QED
    BY <2>2 DEF PlaceIn
<1>15. \A x \in HeldRows : x.id \in Selected(request) => Place(x)' = Place(x)
  <2> SUFFICES ASSUME NEW x \in HeldRows, x.id \in Selected(request) PROVE Place(x)' = Place(x)
    OBVIOUS
  <2>1. x \in PageRow /\ x.content = table[x.id]
    BY <1>5 DEF HeldRows
  <2> QED
    BY <1>3, <1>6, <1>14, <2>1 DEF Place
<1>16. \A id \in Selected(request) : Place(Plain(id))' = Place(Plain(id))
  <2> SUFFICES ASSUME NEW id \in Selected(request) PROVE Place(Plain(id))' = Place(Plain(id))
    OBVIOUS
  <2>1. id \in DOMAIN table
    BY <1>5
  <2>2. Plain(id)' = Plain(id)
    BY <1>8, <2>1 DEF Plain, PlainOf
  <2>3. Plain(id) \in PageRow /\ Plain(id).id = id /\ Plain(id).content = table[id]
    BY <1>13, <2>1
  <2> QED
    BY <1>3, <1>6, <1>14, <2>2, <2>3 DEF Place
<1>17. ASSUME NEW id \in TakenIds PROVE RefPlace(id)' = RefPlace(id)
  <2>1. id \in DOMAIN table /\ Ranked(id)' = Ranked(id)
    BY <1>5, <1>7, <1>8, <1>9
  <2> HIDE DEF ranked
  <2>2. ~Comes(ranked(new), Ranked(id), "ts", FALSE)
    <3>1. /\ Ranked(id) \in PageRow /\ Ranked(id).id = id /\ Ranked(id).content = table[id]
          /\ ranked(new) \in PageRow /\ ranked(new).id = new /\ ranked(new).content = c
      BY <1>13, <2>1
    <3> QED
      BY <1>12, <2>1, <3>1
  <2>3. \A j \in TakenIds : Ranked(j)' = Ranked(j)
    BY <1>5, <1>7, <1>8, <1>9
  <2>4. Ranked(new)' = ranked(new)
    BY <1>7
  <2>5. {j \in TakenIds' : Comes(Ranked(j)', Ranked(id)', "ts", FALSE)} =
          {j \in TakenIds : Comes(Ranked(j), Ranked(id), "ts", FALSE)}
    BY <1>10, <2>1, <2>2, <2>3, <2>4
  <2> QED
    BY <1>3, <1>6, <2>5 DEF RefPlace
<1>18. IsFiniteSet(PlainRows) /\ Cardinality(PlainRows) \in Nat /\ IsFiniteSet(TakenIds)
  BY <1>6, PlainOrderable, TakenFinite DEF Orderable
<1>19. /\ IsFiniteSet(PlainRows') /\ IsFiniteSet(TakenIds')
       /\ Cardinality(PlainRows) <= Cardinality(PlainRows)' /\ Cardinality(PlainRows)' \in Nat
       /\ Cardinality(TakenIds) <= Cardinality(TakenIds)' /\ Cardinality(TakenIds)' \in Nat
  <2>1. IsFiniteSet(PlainRows \cup {PlainOf(new, c)}) /\ IsFiniteSet(TakenIds \cup {new})
    BY <1>18, FS_AddElement
  <2>2. IsFiniteSet(PlainRows') /\ IsFiniteSet(TakenIds')
    BY <1>5, <1>10, <2>1, FS_Subset
  <2> QED
    BY <1>5, <1>10, <2>2, FS_Subset, FS_CardinalityType
<1>20. new \in Selected(request)' => Cardinality(PlainRows) <= Place(Plain(new))'
  <2>1. Plain(new)' = PlainOf(new, c)
    BY <1>1 DEF Plain, PlainOf
  <2>2. \A y \in PlainRows : Comes(y, PlainOf(new, c), "ts", FALSE)
    <3> TAKE y \in PlainRows
    <3>1. y \in PageRow /\ y.id \in DOMAIN table /\ y.content = table[y.id]
      <4>1. PICK id \in Selected(request) : y = Plain(id)
        BY DEF PlainRows
      <4> QED
        BY <1>5, <1>13, <4>1
    <3> QED
      BY <1>12, <1>13, <3>1
  <2> DEFINE S == {y \in PlainRows' : Comes(y, PlainOf(new, c), "ts", FALSE)}
  <2>3. PlainRows \subseteq S /\ S \subseteq PlainRows'
    BY <1>5, <2>2
  <2>4. Place(Plain(new))' = Cardinality(S)
    BY <1>3, <1>6, <2>1 DEF Place, PlaceIn
  <2> HIDE DEF S
  <2> QED
    BY <1>19, <2>3, <2>4, FS_Subset
<1>21. ASSUME NEW k \in 0 .. Cardinality(PlainRows)
       PROVE  TakenBefore(k)' = TakenBefore(k)
  <2>1. \A id \in TakenIds : Place(Plain(id))' = Place(Plain(id))
    BY <1>9, <1>16
  <2>2. new \in TakenIds' => ~(Place(Plain(new))' < k)
    <3> SUFFICES ASSUME new \in TakenIds' PROVE ~(Place(Plain(new))' < k)
      OBVIOUS
    <3>1. Cardinality(PlainRows) <= Place(Plain(new))'
      BY <1>7, <1>20
    <3>2. Place(Plain(new))' \in Nat
      BY <1>19, PlaceType DEF Place
    <3> QED
      BY <1>18, <3>1, <3>2
  <2>3. TakenBefore(k)' = {id \in TakenIds' : Place(Plain(id))' < k}
    BY DEF TakenBefore
  <2> QED
    BY <1>10, <2>1, <2>2, <2>3 DEF TakenBefore
<1> QED
  BY <1>5, <1>10, <1>11, <1>15, <1>16, <1>17, <1>19, <1>21

-------------------------------------------------------------------------------
(* The scan has counted and cut out what it has read *)

Counted == total = Cardinality(TakenBefore(offset - Len(chunk)))
\* The rows collected for a sort by risk: those taken before the chunk, as they were read
Collecting ==
  /\ Len(rows) = total
  /\ \A n \in 1 .. Len(rows) : rows[n].id \in TakenIds /\ Place(rows[n]) < offset - Len(chunk)
  /\ \A m, n \in 1 .. Len(rows) : m < n => Place(rows[m]) < Place(rows[n])
ScanInv ==
  at # "idle" /\ Steady /\ Scanning =>
    /\ Chunked /\ Counted
    /\ IF request.sort = "risk" THEN Collecting ELSE Cut(rows, total, page)
    /\ at = "finish" => \A id \in Due : Place(Plain(id)) < offset

\* What is taken, and its places, depend on the store and the request.
LEMMA SameTaken ==
  ASSUME UNCHANGED <<store, request>>
  PROVE  /\ TakenIds' = TakenIds /\ Selected(request)' = Selected(request) /\ PlainRows' = PlainRows
         /\ \A x : Place(x)' = Place(x)
         /\ \A id : Place(Plain(id))' = Place(Plain(id))
         /\ \A id : RefPlace(id)' = RefPlace(id)
         /\ \A k : TakenBefore(k)' = TakenBefore(k)
         /\ started' = started => Due' = Due
<1>1. /\ Selected(request)' = Selected(request) /\ PlainRows' = PlainRows
      /\ ReadSort' = ReadSort /\ request' = request
  BY SameReading
<1>2. TakenIds' = TakenIds
  BY <1>1 DEF TakenIds, Ranked, Kept, Match, PushedDown, Row, OutsideId, store
<1>3. \A id : Place(Plain(id))' = Place(Plain(id))
  BY <1>1 DEF Place, Plain, store
<1>4. \A x : Place(x)' = Place(x)
  BY <1>1 DEF Place
<1>5. \A id : RefPlace(id)' = RefPlace(id)
  BY <1>1, <1>2 DEF RefPlace, Ranked, store
<1>6. \A k : TakenBefore(k)' = TakenBefore(k)
  BY <1>2, <1>3 DEF TakenBefore
<1>7. started' = started => Due' = Due
  BY <1>2 DEF Due
<1> QED
  BY <1>1, <1>2, <1>3, <1>4, <1>5, <1>6, <1>7

\* Of k rows the page from P on shows so many, and of q rows that follow on t rows it
\* shows so many, skipping the first.
Shown(k, P, L) == IF k <= P THEN 0 ELSE IF P + L < k THEN L ELSE k - P
Skipped(t, P) == IF P < t THEN 0 ELSE P - t
Added(q, t, P, L) ==
  IF Smaller(q, P + L - t) <= Skipped(t, P) THEN 0 ELSE Smaller(q, P + L - t) - Skipped(t, P)

\* The rows of the window come where those already cut out end.
LEMMA WindowSum ==
  ASSUME NEW P \in Nat, NEW L \in Nat, NEW t \in Nat, NEW q \in Nat
  PROVE  /\ Shown(t, P, L) + Added(q, t, P, L) = Shown(t + q, P, L)
         /\ Added(q, t, P, L) > 0 => t + Skipped(t, P) = P + Shown(t, P, L)
         /\ Shown(t, P, L) \in Nat /\ Skipped(t, P) \in Nat /\ Added(q, t, P, L) \in Nat
<1> USE DEF Shown, Skipped, Added
<1>1. CASE t <= P
  <2>1. CASE q < P + L - t
    BY <1>1, <2>1 DEF Smaller
  <2>2. CASE ~(q < P + L - t)
    BY <1>1, <2>2 DEF Smaller
  <2> QED
    BY <2>1, <2>2
<1>2. CASE t > P /\ P + L < t
  <2>1. ~(q < P + L - t)
    BY <1>2
  <2> QED
    BY <1>2, <2>1 DEF Smaller
<1>3. CASE t > P /\ ~(P + L < t)
  <2>1. CASE q < P + L - t
    BY <1>3, <2>1 DEF Smaller
  <2>2. CASE ~(q < P + L - t)
    BY <1>3, <2>2 DEF Smaller
  <2> QED
    BY <2>1, <2>2
<1> QED
  BY <1>1, <1>2, <1>3

\* A chunk collected is counted, and the page is cut out of what was read so far.
LEMMA CollectCut ==
  ASSUME PagesAssumption, BaseInv, RankInv, at # "idle", CollectChunk, request.sort # "risk",
         Chunked, Counted, Cut(rows, total, page)
  PROVE  total' = Cardinality(TakenBefore(offset)) /\ Cut(rows', total', page)
<1> DEFINE kept == Filtered(WithRisk(chunk, request), request)
           P == Skip(page)
           w == Window(kept, P)
           d == IF P < total THEN 0 ELSE P - total
<1>1. /\ StoreInv /\ rows \in Seq(HeldRows) /\ Len(rows) \in Nat /\ total \in Nat
      /\ P \in Nat /\ Limit \in Nat
  BY LenProperties, SkipType, LimitType DEF BaseInv, QueryInv
<1>2. /\ kept \in Seq(HeldRows) /\ Len(kept) \in Nat
      /\ total + Len(kept) = Cardinality(TakenBefore(offset))
      /\ \A n \in 1 .. Len(kept) :
           /\ kept[n].id \in TakenIds
           /\ Place(kept[n]) = Place(Plain(kept[n].id))
           /\ Cardinality(TakenBefore(Place(kept[n]))) = total + n - 1
  BY KeptPlaces DEF Counted
<1>3. rows' = rows \o w /\ total' = total + Len(kept)
  BY DEF CollectChunk
<1> HIDE DEF kept
<1>4. \A n \in 1 .. Len(kept) : kept[n].id \in TakenIds /\ RefPlace(kept[n].id) = total + n - 1
  <2> TAKE n \in 1 .. Len(kept)
  <2>1. RefPlace(kept[n].id) = Cardinality(TakenBefore(Place(Plain(kept[n].id))))
    BY <1>1, <1>2, ReadInOrder
  <2> QED
    BY <1>2, <2>1
<1>5. /\ w \in Seq(HeldRows)
      /\ Len(w) = IF Smaller(Len(kept), P + Limit - total) <= d THEN 0
                  ELSE Smaller(Len(kept), P + Limit - total) - d
      /\ \A n \in 1 .. Len(w) : w[n] = kept[d + n] /\ d + n \in 1 .. Len(kept)
  <2>1. \A first \in Nat :
          /\ Window(kept, first) \in Seq(HeldRows)
          /\ LET e == IF first < total THEN 0 ELSE first - total
             IN  /\ Len(Window(kept, first)) =
                      IF Smaller(Len(kept), first + Limit - total) <= e THEN 0
                      ELSE Smaller(Len(kept), first + Limit - total) - e
                 /\ \A n \in 1 .. Len(Window(kept, first)) :
                      Window(kept, first)[n] = kept[e + n] /\ e + n \in 1 .. Len(kept)
    BY <1>1, <1>2, WindowOf
  <2> QED
    BY <1>1, <2>1
<1>6. /\ Len(rows) = IF total <= P THEN 0 ELSE IF P + Limit < total THEN Limit ELSE total - P
      /\ \A n \in 1 .. Len(rows) : rows[n].id \in TakenIds /\ RefPlace(rows[n].id) = P + n - 1
  BY DEF Cut
<1>7. d = IF P < total THEN 0 ELSE P - total
  OBVIOUS
<1> HIDE DEF w, d, P
<1>8. /\ Len(rows) + Len(w) = Shown(total + Len(kept), P, Limit)
      /\ Len(w) > 0 => total + d = P + Len(rows)
      /\ d \in Nat /\ Len(w) \in Nat
  <2>1. d = Skipped(total, P)
    BY <1>7 DEF Skipped
  <2>2. Len(rows) = Shown(total, P, Limit) /\ Len(w) = Added(Len(kept), total, P, Limit)
    BY <1>5, <1>6, <2>1 DEF Shown, Added
  <2> QED
    BY <1>1, <1>2, <2>1, <2>2, WindowSum
<1>9. /\ Len(rows') = Len(rows) + Len(w)
      /\ \A n \in 1 .. Len(rows) + Len(w) :
           rows'[n] = IF n <= Len(rows) THEN rows[n] ELSE w[n - Len(rows)]
  <2>1. Len(w) \in Nat
    BY <1>8
  <2>2. w \in Seq(HeldRows)
    BY <1>5
  <2> QED
    BY <1>1, <1>3, <2>1, <2>2, ConcatProperties
<1>10. \A n \in 1 .. Len(rows') : rows'[n].id \in TakenIds /\ RefPlace(rows'[n].id) = P + n - 1
  <2> TAKE n \in 1 .. Len(rows')
  <2>1. CASE n <= Len(rows)
    <3>1. n \in 1 .. Len(rows) /\ rows'[n] = rows[n]
      BY <1>1, <1>9, <2>1
    <3> QED
      BY <1>6, <3>1
  <2>2. CASE ~(n <= Len(rows))
    <3> DEFINE m == n - Len(rows)
    <3>1. m \in 1 .. Len(w) /\ rows'[n] = w[m] /\ n = Len(rows) + m
      BY <1>1, <1>8, <1>9, <2>2
    <3> HIDE DEF m
    <3>2. w[m] = kept[d + m] /\ d + m \in 1 .. Len(kept)
      BY <1>5, <3>1
    <3> DEFINE i == d + m
    <3>3. i \in 1 .. Len(kept) /\ w[m] = kept[i]
      BY <3>2
    <3>4. total + i - 1 = P + n - 1
      <4>1. m \in Nat /\ Len(w) > 0
        BY ONLY <1>8, <3>1
      <4>2. total + d = P + Len(rows)
        BY <1>8, <4>1
      <4>3. total \in Nat /\ P \in Nat /\ d \in Nat /\ Len(rows) \in Nat
        BY <1>1, <1>8
      <4>4. n = Len(rows) + m
        BY <3>1
      <4> QED
        BY ONLY <4>1, <4>2, <4>3, <4>4 DEF i
    <3> HIDE DEF i
    <3>5. kept[i].id \in TakenIds /\ RefPlace(kept[i].id) = total + i - 1
      BY <1>4, <3>3
    <3> QED
      BY <3>1, <3>3, <3>4, <3>5
  <2> QED
    BY <2>1, <2>2
<1>11. Len(rows') = IF total' <= P THEN 0 ELSE IF P + Limit < total' THEN Limit ELSE total' - P
  BY <1>3, <1>8, <1>9 DEF Shown
<1> QED
  BY <1>2, <1>3, <1>10, <1>11 DEF Cut, P

\* For a sort by risk all of it is kept, in the order it was read.
LEMMA CollectRisk ==
  ASSUME PagesAssumption, BaseInv, RankInv, at # "idle", CollectChunk, request.sort = "risk",
         Chunked, Counted, Collecting
  PROVE  /\ total' = Cardinality(TakenBefore(offset)) /\ Len(rows') = total'
         /\ \A n \in 1 .. Len(rows') : rows'[n].id \in TakenIds /\ Place(rows'[n]) < offset
         /\ \A m, n \in 1 .. Len(rows') : m < n => Place(rows'[m]) < Place(rows'[n])
<1> DEFINE kept == Filtered(WithRisk(chunk, request), request)
           a == offset - Len(chunk)
<1>1. /\ StoreInv /\ rows \in Seq(HeldRows) /\ Len(rows) \in Nat /\ total \in Nat
      /\ offset \in Nat /\ a \in Nat /\ a <= offset
  <2>1. /\ StoreInv /\ rows \in Seq(HeldRows) /\ Len(rows) \in Nat /\ total \in Nat /\ offset \in Nat
        /\ Len(chunk) \in Nat
    BY LenProperties DEF BaseInv, QueryInv
  <2> QED
    BY <2>1 DEF Chunked
<1>2. /\ kept \in Seq(HeldRows) /\ Len(kept) \in Nat
      /\ total + Len(kept) = Cardinality(TakenBefore(offset))
      /\ \A n \in 1 .. Len(kept) :
           /\ kept[n].id \in TakenIds
           /\ a <= Place(kept[n]) /\ Place(kept[n]) < offset
      /\ \A m, n \in 1 .. Len(kept) : m < n => Place(kept[m]) < Place(kept[n])
  BY KeptPlaces DEF Counted
<1>3. rows' = rows \o kept /\ total' = total + Len(kept)
  BY DEF CollectChunk
<1>4. \A n \in 1 .. Len(rows) : rows[n].id \in TakenIds /\ Place(rows[n]) < a
  BY DEF Collecting
<1> HIDE DEF kept, a
<1>5. \A x : Place(x) \in Nat
  BY <1>1, PlaceNat
<1>6. /\ Len(rows') = Len(rows) + Len(kept)
      /\ \A n \in 1 .. Len(rows) + Len(kept) :
           rows'[n] = IF n <= Len(rows) THEN rows[n] ELSE kept[n - Len(rows)]
  BY <1>1, <1>2, <1>3, ConcatProperties
<1>7. \A n \in 1 .. Len(rows') : \/ n \in 1 .. Len(rows) /\ rows'[n] = rows[n]
                                 \/ /\ n > Len(rows) /\ n - Len(rows) \in 1 .. Len(kept)
                                    /\ rows'[n] = kept[n - Len(rows)]
  BY <1>1, <1>2, <1>6
<1>8. ASSUME NEW n \in 1 .. Len(rows') PROVE rows'[n].id \in TakenIds /\ Place(rows'[n]) < offset
  <2>1. CASE n \in 1 .. Len(rows) /\ rows'[n] = rows[n]
    BY <1>1, <1>4, <1>5, <2>1
  <2>2. CASE n - Len(rows) \in 1 .. Len(kept) /\ rows'[n] = kept[n - Len(rows)]
    BY <1>2, <2>2
  <2> QED
    BY <1>7, <2>1, <2>2
<1>9. ASSUME NEW m \in 1 .. Len(rows'), NEW n \in 1 .. Len(rows'), m < n
      PROVE  Place(rows'[m]) < Place(rows'[n])
  <2>1. CASE n \in 1 .. Len(rows) /\ rows'[n] = rows[n]
    <3>1. m \in 1 .. Len(rows) /\ rows'[m] = rows[m]
      BY <1>1, <1>6, <1>9, <2>1
    <3> QED
      BY <1>9, <2>1, <3>1 DEF Collecting
  <2>2. CASE n - Len(rows) \in 1 .. Len(kept) /\ rows'[n] = kept[n - Len(rows)]
    <3>1. CASE m \in 1 .. Len(rows) /\ rows'[m] = rows[m]
      <4>1. Place(rows[m]) < a
        BY <1>4, <3>1
      <4>2. a <= Place(kept[n - Len(rows)])
        BY <1>2, <2>2
      <4> QED
        BY <1>1, <1>5, <2>2, <3>1, <4>1, <4>2
    <3>2. CASE m - Len(rows) \in 1 .. Len(kept) /\ rows'[m] = kept[m - Len(rows)]
      <4> DEFINE i == m - Len(rows)
                 j == n - Len(rows)
      <4>1. i < j
        BY <1>1, <1>9
      <4> HIDE DEF i, j
      <4>2. i \in 1 .. Len(kept) /\ j \in 1 .. Len(kept) /\ rows'[m] = kept[i] /\ rows'[n] = kept[j]
        BY <2>2, <3>2 DEF i, j
      <4> QED
        BY <1>2, <4>1, <4>2
    <3> QED
      BY <1>7, <3>1, <3>2
  <2> QED
    BY <1>7, <2>1, <2>2
<1>10. Len(rows') = total'
  BY <1>3, <1>6 DEF Collecting
<1> QED
  BY <1>2, <1>3, <1>8, <1>9, <1>10

\* The scan: the steps of the query,
LEMMA QueryScan ==
  ASSUME PagesAssumption, BaseInv, BaseInv', RankInv, ScanInv, Query
  PROVE  ScanInv'
<1> SUFFICES ASSUME at' # "idle", Steady', Scanning' PROVE ScanInv'
  BY DEF ScanInv
<1>1. UNCHANGED <<store, request, history>> /\ at # "idle" /\ UNCHANGED store
  BY QueryOrAsk
<1>2. request' = request /\ Steady
  BY <1>1 DEF Steady, OldestFirst, history
<1>3. /\ TakenIds' = TakenIds /\ Selected(request)' = Selected(request) /\ PlainRows' = PlainRows
      /\ Due' = Due
      /\ \A x : Place(x)' = Place(x)
      /\ \A id : Place(Plain(id))' = Place(Plain(id))
      /\ \A id : RefPlace(id)' = RefPlace(id)
      /\ \A k : TakenBefore(k)' = TakenBefore(k)
  BY <1>1, SameTaken DEF history
<1>4. Limit' = Limit /\ \A pg : Skip(pg)' = Skip(pg)
  BY <1>2 DEF Limit, Skip
<1>5. /\ StoreInv /\ chunk \in Seq(HeldRows) /\ rows \in Seq(HeldRows) /\ offset \in Nat
      /\ page' \in Nat \ {0} /\ Len(<< >>) = 0
  BY EmptySeq DEF BaseInv, QueryInv
<1>6. at \in {"scan", "collect", "finish"} =>
        /\ Chunked /\ Counted
        /\ IF request.sort = "risk" THEN Collecting ELSE Cut(rows, total, page)
        /\ at = "finish" => \A id \in Due : Place(Plain(id)) < offset
  BY <1>1, <1>2 DEF ScanInv, Scanning
<1>7. \A k : TakenBefore(k) \subseteq TakenIds
  BY DEF TakenBefore
<1> DEFINE N == Cardinality(PlainRows)
<1>8. CASE ScanChunk
  <2>1. /\ at = "scan" /\ chunk' = Read(request, ChunkSize, offset) /\ offset' = offset + Len(chunk')
        /\ rows' = rows /\ total' = total /\ page' = page /\ chunk = << >>
        /\ at' = IF chunk' = << >> THEN "finish" ELSE "collect"
    BY <1>8 DEF ScanChunk, Goes, result, BaseInv, QueryInv
  <2>2. ChunkSize \in Nat \ {0}
    <3>1. PageSize \in Nat \ {0} /\ ChunkSize \in Nat /\ ChunkSize >= PageSize
      BY DEF PagesAssumption
    <3>2. ChunkSize # 0
      BY <3>1
    <3> QED
      BY <3>1, <3>2
  <2>3. /\ chunk' \in Seq(PlainRows)
        /\ Len(chunk') = IF N <= offset THEN 0 ELSE IF offset + ChunkSize < N THEN ChunkSize ELSE N - offset
        /\ \A n \in 1 .. Len(chunk') : chunk'[n] \in PlainRows /\ Place(chunk'[n]) = offset + n - 1
        /\ \A x \in PlainRows : Place(x) \in 0 .. N - 1
    <3> DEFINE c == Read(request, ChunkSize, offset)
    <3>1. ChunkSize \in Nat
      BY <2>2
    <3>2. /\ c \in Seq(PlainRows)
          /\ Len(c) = IF N <= offset THEN 0 ELSE IF offset + ChunkSize < N THEN ChunkSize ELSE N - offset
          /\ \A n \in 1 .. Len(c) : c[n] \in PlainRows /\ Place(c[n]) = offset + n - 1
          /\ \A x \in PlainRows : Place(x) \in 0 .. N - 1
      BY <1>1, <1>5, <3>1, ReadOf
    <3>3. chunk' = c
      BY <2>1
    <3> HIDE DEF c, N
    <3> QED
      BY <3>2, <3>3
  <2>4. N \in Nat /\ \A x \in PlainRows : x.id \in Selected(request)
    BY <1>1, <1>5, PlainOrderable
  <2>5. Chunked /\ Counted /\ (IF request.sort = "risk" THEN Collecting ELSE Cut(rows, total, page))
    BY <1>6, <2>1
  <2>6. offset <= N /\ offset - Len(chunk) = offset
    BY <1>5, <2>1, <2>5 DEF Chunked
  <2>7. Len(chunk') \in Nat /\ offset' <= N /\ Len(chunk') <= offset' /\ offset' - Len(chunk') = offset
        /\ (Len(chunk') = 0 => N <= offset)
    <3> HIDE DEF N
    <3>1. Len(chunk') \in Nat
      BY <2>3, LenProperties
    <3> QED
      BY <1>5, <2>1, <2>2, <2>3, <2>4, <2>6, <3>1
  <2>8. Chunked'
    <3>1. offset' <= Cardinality(PlainRows') /\ Len(chunk') <= offset'
      BY <1>3, <2>7
    <3>2. ASSUME NEW n \in 1 .. Len(chunk')
          PROVE  /\ chunk'[n].id \in Selected(request)'
                 /\ Place(chunk[n])' = offset' - Len(chunk') + n - 1
      <4>1. chunk'[n] \in PlainRows /\ Place(chunk'[n]) = offset + n - 1
        BY <2>3
      <4>2. Place(chunk[n])' = Place(chunk'[n])
        BY <1>1, SameReading DEF Place
      <4> QED
        BY <1>3, <1>5, <2>4, <2>7, <4>1, <4>2
    <3> QED
      BY <3>1, <3>2 DEF Chunked
  <2>9. Counted'
    BY <1>3, <2>1, <2>5, <2>6, <2>7 DEF Counted
  <2>10. IF request'.sort = "risk" THEN Collecting' ELSE Cut(rows, total, page)'
    BY <1>2, <1>3, <1>4, <2>1, <2>5, <2>6, <2>7 DEF Collecting, Cut
  <2>11. at' = "finish" => \A id \in Due' : Place(Plain(id))' < offset'
    <3> SUFFICES ASSUME at' = "finish", NEW id \in Due PROVE Place(Plain(id)) < offset'
      BY <1>3
    <3>1. N <= offset /\ offset' = offset
      BY <1>5, <2>1, <2>7
    <3>2. Plain(id) \in PlainRows
      BY DEF Due, TakenIds, PlainRows
    <3>3. Place(Plain(id)) \in 0 .. N - 1
      BY <2>3, <3>2
    <3> HIDE DEF N
    <3> QED
      BY <1>5, <2>4, <3>1, <3>3
  <2> QED
    BY <2>8, <2>9, <2>10, <2>11 DEF ScanInv
<1>9. CASE CollectChunk
  <2>1. at = "collect" /\ at' = "scan" /\ offset' = offset /\ chunk' = << >> /\ page' = page
    BY <1>9 DEF CollectChunk, Goes
  <2>2. offset' - Len(chunk') = offset
    BY <1>5, <2>1
  <2>3. Chunked /\ Counted
    BY <1>6, <2>1
  <2>4. Chunked'
    BY <1>3, <1>5, <2>1, <2>3 DEF Chunked
  <2>5. CASE request.sort = "risk"
    <3>1. /\ total' = Cardinality(TakenBefore(offset)) /\ Len(rows') = total'
          /\ \A n \in 1 .. Len(rows') : rows'[n].id \in TakenIds /\ Place(rows'[n]) < offset
          /\ \A m, n \in 1 .. Len(rows') : m < n => Place(rows'[m]) < Place(rows'[n])
      BY <1>1, <1>6, <1>9, <2>1, <2>5, CollectRisk
    <3>2. Counted' /\ Collecting'
      <4>1. \A n \in 1 .. Len(rows') : Place(rows[n])' = Place(rows'[n])
        BY <1>1, SameReading DEF Place
      <4> QED
        BY <1>3, <2>2, <3>1, <4>1 DEF Counted, Collecting
    <3> QED
      BY <1>2, <2>1, <2>4, <2>5, <3>2 DEF ScanInv
  <2>6. CASE request.sort # "risk"
    <3>1. total' = Cardinality(TakenBefore(offset)) /\ Cut(rows', total', page)
      BY <1>1, <1>6, <1>9, <2>1, <2>6, CollectCut
    <3>2. Counted' /\ Cut(rows, total, page)'
      BY <1>3, <1>4, <2>1, <2>2, <3>1 DEF Counted, Cut
    <3> QED
      BY <1>2, <2>1, <2>4, <2>6, <3>2 DEF ScanInv
  <2> QED
    BY <2>5, <2>6
<1>10. CASE FinishFrames
  <2>1. /\ at' = "scan" /\ rows' = << >> /\ total' = 0 /\ offset' = 0 /\ request.op = "frames"
        /\ chunk' = chunk /\ chunk = << >>
    BY <1>10 DEF FinishFrames, Goes, Scanning, BaseInv, QueryInv
  <2>2. request.sort # "risk"
    BY <1>1, <1>5, <2>1, RequestType
  <2>3. TakenBefore(0) = {}
    <3>1. \A id \in TakenIds : Place(Plain(id)) \in Nat
      BY <1>1, <1>5, PlaceNat
    <3> QED
      BY <3>1 DEF TakenBefore
  <2>4. Skip(page') \in Nat /\ Cardinality({}) = 0 /\ N \in Nat
    BY <1>1, <1>5, SkipType, FS_EmptySet, PlainOrderable
  <2>5. Chunked'
    BY <1>3, <1>5, <2>1, <2>4 DEF Chunked
  <2>6. Counted'
    <3>1. offset' - Len(chunk') = 0
      <4>1. offset' = 0 /\ Len(chunk') = 0
        BY <1>5, <2>1
      <4> QED
        BY <4>1
    <3>2. TakenBefore(offset - Len(chunk))' = TakenBefore(offset' - Len(chunk'))
      <4>1. \A id : Place(Plain(id))' = Place(Plain(id))
        BY <1>3
      <4> QED
        BY <1>3, <4>1 DEF TakenBefore
    <3> QED
      BY <2>1, <2>3, <2>4, <3>1, <3>2 DEF Counted
  <2>7. Cut(rows, total, page)'
    BY <1>4, <1>5, <2>1, <2>4 DEF Cut
  <2> QED
    BY <1>2, <2>1, <2>2, <2>5, <2>6, <2>7 DEF ScanInv
<1>11. ~ReadPage /\ ~AttachPage /\ ~Count /\ ~FinishPackets /\ ~Consume
  BY DEF ReadPage, AttachPage, Count, FinishPackets, Consume, Goes, Scanning
<1> QED
  BY <1>8, <1>9, <1>10, <1>11 DEF Query

\* its beginning,
LEMMA AskScan ==
  ASSUME PagesAssumption, BaseInv, BaseInv', NEW r \in Requests, Ask(r)
  PROVE  ScanInv'
<1> SUFFICES ASSUME at' # "idle", Steady', Scanning' PROVE ScanInv'
  BY DEF ScanInv
<1>1. /\ at' = "scan" /\ chunk' = << >> /\ offset' = 0 /\ rows' = << >> /\ total' = 0
      /\ Len(<< >>) = 0
  BY EmptySeq DEF Ask, Goes, Scanning
<1>2. IsFiniteSet(PlainRows') /\ Cardinality(PlainRows') \in Nat
  <2> DEFINE S == Selected(request)'
             f == [id \in S |-> Plain(id)']
  <2>1. S \subseteq 1 .. last' /\ last' \in Nat
    <3>1. S \subseteq DOMAIN table'
      BY DEF Selected
    <3> QED
      BY <3>1 DEF BaseInv, StoreInv
  <2>2. IsFiniteSet(S)
    <3>1. IsFiniteSet(1 .. last')
      BY <2>1, FS_Interval
    <3> HIDE DEF S
    <3> QED
      BY <2>1, <3>1, FS_Subset
  <2>3. PlainRows' = {Plain(id)' : id \in S}
    BY DEF PlainRows
  <2>4. f \in Surjection(S, PlainRows')
    BY <2>3 DEF Surjection
  <2> HIDE DEF f, S
  <2> QED
    BY <2>2, <2>4, FS_Surjection, FS_CardinalityType
<1>3. TakenBefore(0)' = {}
  <2>1. \A id : Place(Plain(id))' \in Nat
    BY <1>2, PlaceType DEF Place
  <2> QED
    BY <2>1 DEF TakenBefore
<1>4. Skip(page)' \in Nat
  <2>1. \A pg \in Nat \ {0} : (pg - 1) * PageSize \in Nat
    BY DEF PagesAssumption
  <2>2. page' \in Nat \ {0}
    BY DEF BaseInv, QueryInv
  <2>3. (page' - 1) * PageSize \in Nat
    BY <2>1, <2>2
  <2> QED
    BY <2>3 DEF Skip
<1>5. Chunked'
  BY <1>1, <1>2 DEF Chunked
<1>6. Counted'
  <2>1. offset' - Len(chunk') = 0
    <3>1. offset' = 0 /\ Len(chunk') = 0
      BY <1>1
    <3> QED
      BY <3>1
  <2>2. TakenBefore(offset - Len(chunk))' = {}
    <3>1. TakenBefore(offset - Len(chunk))' =
            {id \in TakenIds' : Place(Plain(id))' < offset' - Len(chunk')}
      BY DEF TakenBefore
    <3>2. TakenBefore(0)' = {id \in TakenIds' : Place(Plain(id))' < 0}
      BY DEF TakenBefore
    <3> QED
      BY <1>3, <2>1, <3>1, <3>2
  <2> QED
    BY <1>1, <2>2, FS_EmptySet DEF Counted
<1>7. Cut(rows, total, page)' /\ Collecting'
  BY <1>1, <1>4 DEF Cut, Collecting
<1> QED
  BY <1>1, <1>5, <1>6, <1>7 DEF ScanInv

\* What may happen while nothing moves, or oldest first only newer rows come
LEMMA ElsewhereSteady ==
  ASSUME at # "idle", Elsewhere, Steady'
  PROVE  /\ UNCHANGED query /\ Steady /\ moved \subseteq {"grown"} /\ OldestFirst
         /\ \E c \in Contents : Insert(c) /\ Newest(c)
<1>1. UNCHANGED query /\ \E how : moved' = moved \cup {how}
  BY DEF Elsewhere, Insert, Discard, Rerank, Moves
<1>2. moved' # {} /\ moved \subseteq moved'
  BY <1>1
<1>3. moved' \subseteq {"grown"} /\ OldestFirst
  BY <1>1, <1>2 DEF Steady, OldestFirst, query
<1>4. PICK c \in Contents : Insert(c)
  <2>1. \A c, rank : ~Rerank(c, rank)
    BY <1>3 DEF Rerank, Moves
  <2>2. \A source : ~Discard(source)
    BY <1>3 DEF Discard, Moves
  <2> QED
    BY <2>1, <2>2 DEF Elsewhere
<1>5. Newest(c)
  BY <1>3, <1>4 DEF Insert, Moves
<1> QED
  BY <1>1, <1>2, <1>3, <1>4, <1>5 DEF Steady

\* what happens meanwhile,
LEMMA ElsewhereScan ==
  ASSUME PagesAssumption, BaseInv, StartInv, ScanInv, Elsewhere
  PROVE  ScanInv'
<1> SUFFICES ASSUME at' # "idle", Steady', Scanning' PROVE ScanInv'
  BY DEF ScanInv
<1>1. UNCHANGED query /\ at # "idle"
  BY DEF Elsewhere, Insert, Discard, Rerank, Moves, query
<1>2. PICK c \in Contents : Insert(c) /\ Newest(c)
  BY <1>1, ElsewhereSteady
<1>3. Steady /\ OldestFirst /\ "shrunk" \notin moved /\ request.sort # "risk"
  BY <1>1, ElsewhereSteady DEF OldestFirst
<1>4. UNCHANGED <<at, request, chunk, offset, rows, total, page>> /\ Scanning
  BY <1>1 DEF query, result, Scanning
<1>5. /\ Chunked /\ Counted /\ Cut(rows, total, page)
      /\ at = "finish" => \A id \in Due : Place(Plain(id)) < offset
  BY <1>1, <1>3, <1>4 DEF ScanInv
<1>6. /\ Selected(request) \subseteq Selected(request)' /\ TakenIds \subseteq TakenIds'
      /\ Due' = Due
      /\ Cardinality(PlainRows) <= Cardinality(PlainRows)' /\ Cardinality(PlainRows)' \in Nat
      /\ \A x \in HeldRows : x.id \in Selected(request) => Place(x)' = Place(x)
      /\ \A id \in Selected(request) : Place(Plain(id))' = Place(Plain(id))
      /\ \A id \in TakenIds : RefPlace(id)' = RefPlace(id)
      /\ \A k \in 0 .. Cardinality(PlainRows) : TakenBefore(k)' = TakenBefore(k)
  BY <1>1, <1>2, <1>3, InsertTaken
<1>7. /\ StoreInv /\ chunk \in Seq(HeldRows) /\ offset \in Nat /\ Len(chunk) \in Nat
      /\ Cardinality(PlainRows) \in Nat
  BY <1>1, PlainOrderable, LenProperties DEF BaseInv, QueryInv
<1>8. Chunked'
  <2>1. offset' <= Cardinality(PlainRows)' /\ Len(chunk') <= offset'
    BY <1>4, <1>5, <1>6, <1>7 DEF Chunked
  <2>2. ASSUME NEW n \in 1 .. Len(chunk)
        PROVE  /\ chunk'[n].id \in Selected(request)'
               /\ Place(chunk[n])' = offset' - Len(chunk') + n - 1
    <3>1. chunk[n] \in HeldRows /\ chunk[n].id \in Selected(request)
          /\ Place(chunk[n]) = offset - Len(chunk) + n - 1
      BY <1>5, <1>7, ElementOfSeq DEF Chunked
    <3>2. PICK x \in HeldRows : x = chunk[n]
      BY <3>1
    <3>3. Place(x)' = Place(x)
      BY <1>6, <3>1, <3>2
    <3>4. Place(chunk[n])' = Place(x)'
      BY <1>4, <3>2 DEF Place
    <3> QED
      BY <1>4, <1>6, <3>1, <3>2, <3>3, <3>4
  <2> QED
    BY <1>4, <2>1, <2>2 DEF Chunked
<1>9. Counted'
  <2>1. offset - Len(chunk) \in 0 .. Cardinality(PlainRows)
    BY <1>5, <1>7 DEF Chunked
  <2>2. PICK k \in 0 .. Cardinality(PlainRows) : k = offset - Len(chunk)
    BY <2>1
  <2>3. TakenBefore(k)' = TakenBefore(k)
    BY <1>6
  <2> QED
    BY <1>4, <1>5, <2>2, <2>3 DEF Counted
<1>10. Cut(rows, total, page)'
  BY <1>4, <1>5, <1>6 DEF Cut, Limit, Skip
<1>11. at' = "finish" => \A id \in Due' : Place(Plain(id))' < offset'
  <2>1. Due \subseteq Selected(request)
    BY DEF Due, TakenIds
  <2> QED
    BY <1>4, <1>5, <1>6, <2>1
<1> QED
  BY <1>3, <1>4, <1>8, <1>9, <1>10, <1>11 DEF ScanInv

\* and so any step.
LEMMA NextScan ==
  ASSUME PagesAssumption, BaseInv, BaseInv', StartInv, RankInv, ScanInv, [Next]_vars
  PROVE  ScanInv'
<1>1. CASE UNCHANGED vars
  <2>1. UNCHANGED <<store, request>> /\ started' = started /\ request' = request
    BY <1>1 DEF vars, query, history
  <2>2. /\ TakenIds' = TakenIds /\ Selected(request)' = Selected(request) /\ PlainRows' = PlainRows
        /\ Due' = Due
        /\ \A id : Place(Plain(id))' = Place(Plain(id))
        /\ \A id : RefPlace(id)' = RefPlace(id)
        /\ \A k : TakenBefore(k)' = TakenBefore(k)
    BY <2>1, SameTaken
  <2>3. UNCHANGED <<at, chunk, offset, rows, total, page, moved>>
    BY <1>1 DEF vars, query, result, history
  <2>4. (Steady' <=> Steady) /\ (Scanning' <=> Scanning)
    BY <2>1, <2>3 DEF Steady, OldestFirst, Scanning
  <2>5. ReadSort' = ReadSort
    BY <2>1 DEF ReadSort
  <2>6. /\ Chunked' <=> Chunked
        /\ Counted' <=> Counted
        /\ Collecting' <=> Collecting
        /\ Cut(rows, total, page)' <=> Cut(rows, total, page)
    <3>1. Chunked' <=> Chunked
      BY <2>1, <2>2, <2>3, <2>5 DEF Chunked, Place
    <3>2. Collecting' <=> Collecting
      BY <2>1, <2>2, <2>3, <2>5 DEF Collecting, Place
    <3>3. Cut(rows, total, page)' <=> Cut(rows, total, page)
      BY <2>1, <2>2, <2>3 DEF Cut, Limit, Skip
    <3>4. Counted' <=> Counted
      <4>1. TakenBefore(offset - Len(chunk))' = TakenBefore(offset - Len(chunk))
        BY <2>2, <2>3 DEF TakenBefore
      <4> QED
        BY <2>3, <4>1 DEF Counted
    <3> QED
      BY <3>1, <3>2, <3>3, <3>4
  <2> QED
    BY <2>1, <2>2, <2>3, <2>4, <2>6 DEF ScanInv
<1> QED
  BY <1>1, QueryScan, AskScan, ElsewhereScan DEF Next

\* When nothing moved, all that is taken was there from the beginning.
LEMMA StillDue ==
  ASSUME StartInv, at # "idle", moved = {}
  PROVE  Due = TakenIds
BY DEF StartInv, Due, TakenIds, Selected

\* What is due is part of what is taken.
LEMMA DueFinite ==
  ASSUME PagesAssumption, StoreInv, at # "idle"
  PROVE  /\ IsFiniteSet(TakenIds) /\ Cardinality(TakenIds) \in Nat /\ Cardinality(Due) \in Nat
         /\ Cardinality(Due) <= Cardinality(TakenIds)
<1>1. Due \subseteq TakenIds
  BY DEF Due
<1> QED
  BY <1>1, TakenFinite

\* At its end a scan has counted what was there when it began and still is.
LEMMA FinishAll ==
  ASSUME PagesAssumption, BaseInv, StartInv, ScanInv, at = "finish", Steady
  PROVE  /\ total \in Nat
         /\ Cardinality(Due) <= total /\ total <= Cardinality(TakenIds)
         /\ moved = {} => total = Cardinality(TakenIds)
         /\ request.sort = "risk" => Gathered /\ moved = {}
         /\ request.sort # "risk" => Cut(rows, total, page)
<1>1. /\ StoreInv /\ offset \in Nat /\ chunk = << >> /\ total \in Nat /\ Len(<< >>) = 0
  BY EmptySeq DEF BaseInv, QueryInv
<1>2. /\ Counted /\ IF request.sort = "risk" THEN Collecting ELSE Cut(rows, total, page)
      /\ \A id \in Due : Place(Plain(id)) < offset
  BY DEF ScanInv, Scanning
<1>3. total = Cardinality(TakenBefore(offset))
  <2>1. offset - Len(chunk) = offset
    BY <1>1
  <2> QED
    BY <1>2, <2>1 DEF Counted
<1>4. Due \subseteq TakenBefore(offset) /\ TakenBefore(offset) \subseteq TakenIds
  BY <1>2 DEF Due, TakenBefore
<1>5. /\ IsFiniteSet(TakenBefore(offset))
      /\ Cardinality(TakenBefore(offset)) <= Cardinality(TakenIds)
      /\ Cardinality(Due) <= Cardinality(TakenBefore(offset))
  <2>1. IsFiniteSet(TakenIds)
    BY <1>1, TakenFinite
  <2>2. IsFiniteSet(TakenBefore(offset))
    BY <1>4, <2>1, FS_Subset
  <2> QED
    BY <1>4, <2>1, <2>2, FS_Subset
<1>6. moved = {} => TakenBefore(offset) = TakenIds
  BY <1>4, StillDue
<1>7. request.sort = "risk" => moved = {}
  BY DEF Steady, OldestFirst
<1>8. request.sort = "risk" => Gathered
  BY <1>2, <1>3, <1>6, <1>7 DEF Collecting, Gathered
<1> QED
  BY <1>1, <1>2, <1>3, <1>5, <1>6, <1>7, <1>8

\* The first page, not full, shows all there is.
LEMMA ShortPage ==
  ASSUME PagesAssumption, NEW s, NEW k \in Nat, Cut(s, k, 1), Len(s) < Limit
  PROVE  /\ Len(s) = k
         /\ request.op # "export" => PagesOf(k) = 1
<1>1. Limit \in Nat /\ PageSize \in Nat \ {0} /\ Skip(1) = 0
  BY LimitType DEF PagesAssumption, Skip
<1>2. Len(s) = k /\ k < Limit
  BY <1>1 DEF Cut
<1>3. ASSUME request.op # "export" PROVE PagesOf(k) = 1
  <2>1. k < PageSize
    BY <1>2, <1>3 DEF Limit
  <2>2. CASE k = 0
    BY <2>2 DEF PagesOf
  <2>3. CASE k # 0
    <3> DEFINE q == (k + PageSize - 1) \div PageSize
    <3>1. q \in Int /\ PageSize * q <= k + PageSize - 1 /\ k + PageSize - 1 < PageSize * (q + 1)
      BY <1>1
    <3> HIDE DEF q
    <3>2. ~(q <= 0)
      <4> SUFFICES ASSUME q <= 0 PROVE FALSE
        OBVIOUS
      <4>1. PageSize * (q + 1) <= PageSize
        BY <1>1, <3>1
      <4> QED
        BY <1>1, <2>3, <3>1, <4>1
    <3>3. ~(q >= 2)
      <4> SUFFICES ASSUME q >= 2 PROVE FALSE
        OBVIOUS
      <4>1. PageSize * q >= PageSize * 2
        BY <1>1, <3>1
      <4> QED
        BY <1>1, <2>1, <3>1, <4>1
    <3>4. q = 1
      BY <3>1, <3>2, <3>3
    <3> QED
      BY <2>3, <3>4 DEF PagesOf, q
  <2> QED
    BY <2>2, <2>3
<1> QED
  BY <1>2, <1>3

-------------------------------------------------------------------------------
(* The page, and what it shows *)

PageInv ==
  at # "idle" =>
    /\ Scanning /\ pages # 0 => request.op = "frames"
    /\ at = "count" => pages = 0
    /\ at = "done" => pages # 0
    /\ pages = 0 => page = request.page
    /\ pages # 0 /\ request.op # "export" => page = Smaller(request.page, pages)
    /\ pages # 0 /\ moved = {} /\ request.op # "export" => pages = PagesOf(Cardinality(TakenIds))
AnswerInv ==
  at # "idle" /\ Steady =>
    /\ at = "attach" => Shows(chunk, page)
    /\ at = "count" /\ request.op # "frames" => Shows(rows, page)
    /\ at \in {"attach", "read"} /\ pages # 0 /\ moved = {} => total = Cardinality(TakenIds)
    /\ at = "done" => (Beyond \/ Shows(rows, page)) /\ (moved = {} => total = Cardinality(TakenIds))

\* What is shown depends on the ids of the rows, and on where the page begins.
LEMMA SameShows ==
  ASSUME NEW s, NEW t, NEW pg, NEW pg2, Shows(s, pg), Len(t) = Len(s), Skip(pg2) = Skip(pg),
         \A n \in 1 .. Len(s) : t[n].id = s[n].id
  PROVE  Shows(t, pg2)
BY DEF Shows, Cut

\* The page: the steps of the query,
LEMMA QueryPage ==
  ASSUME PagesAssumption, BaseInv, StartInv, RankInv, ScanInv, PageInv, AnswerInv, Query, at' # "idle"
  PROVE  PageInv' /\ AnswerInv'
<1>1. UNCHANGED <<store, request, history>> /\ UNCHANGED <<store, request>> /\ at # "idle"
  BY QueryOrAsk
<1>2. request' = request /\ moved' = moved /\ (Steady' <=> Steady)
  BY <1>1 DEF Steady, OldestFirst, history
<1>3. TakenIds' = TakenIds /\ Due' = Due /\ (\A id : RefPlace(id)' = RefPlace(id))
      /\ Selected(request)' = Selected(request)
  BY <1>1, SameTaken DEF history
<1>4. /\ Shows(chunk, page)' <=> Shows(chunk', page')
      /\ Shows(rows, page)' <=> Shows(rows', page')
      /\ Beyond' <=> ~Direct(request) /\ request.op = "page" /\ request.sort # "risk"
                     /\ request.page > pages'
  <2>1. (\A pg : Skip(pg)' = Skip(pg)) /\ Limit' = Limit
    BY <1>2 DEF Limit, Skip
  <2>2. Skip(page)' = Skip(page') /\ Direct(request)' = Direct(request)
    BY <1>1, <1>2, SameReading DEF Skip
  <2> QED
    BY <1>2, <1>3, <2>1, <2>2 DEF Shows, Cut, Beyond
<1>5. /\ StoreInv /\ chunk \in Seq(HeldRows) /\ rows \in Seq(HeldRows)
      /\ total \in Nat /\ page \in Nat \ {0} /\ pages \in Nat
      /\ request.page \in Nat \ {0} /\ request.op \in {"page", "frames", "export"}
  BY <1>1, RequestType DEF BaseInv, QueryInv
<1>6. /\ Scanning /\ pages # 0 => request.op = "frames"
      /\ at = "count" => pages = 0
      /\ pages = 0 => page = request.page
      /\ pages # 0 /\ request.op # "export" => page = Smaller(request.page, pages)
      /\ pages # 0 /\ moved = {} /\ request.op # "export" => pages = PagesOf(Cardinality(TakenIds))
  BY <1>1 DEF PageInv
<1>7. Steady =>
        /\ at = "attach" => Shows(chunk, page)
        /\ at = "count" /\ request.op # "frames" => Shows(rows, page)
        /\ at \in {"attach", "read"} /\ pages # 0 /\ moved = {} => total = Cardinality(TakenIds)
  BY <1>1 DEF AnswerInv
<1>8. SUFFICES
      /\ Scanning' /\ pages' # 0 => request.op = "frames"
      /\ at' = "count" => pages' = 0
      /\ at' = "done" => pages' # 0
      /\ pages' = 0 => page' = request.page
      /\ pages' # 0 /\ request.op # "export" => page' = Smaller(request.page, pages')
      /\ pages' # 0 /\ moved = {} /\ request.op # "export" => pages' = PagesOf(Cardinality(TakenIds))
      /\ Steady =>
           /\ at' = "attach" => Shows(chunk', page')
           /\ at' = "count" /\ request.op # "frames" => Shows(rows', page')
           /\ at' \in {"attach", "read"} /\ pages' # 0 /\ moved = {} => total' = Cardinality(TakenIds)
           /\ at' = "done" => /\ \/ /\ ~Direct(request) /\ request.op = "page"
                                    /\ request.sort # "risk" /\ request.page > pages'
                                 \/ Shows(rows', page')
                              /\ moved = {} => total' = Cardinality(TakenIds)
  BY <1>2, <1>3, <1>4 DEF PageInv, AnswerInv
<1>9. /\ Cardinality(TakenIds) \in Nat /\ Cardinality(Due) \in Nat
      /\ Cardinality(Due) <= Cardinality(TakenIds)
  BY <1>1, <1>5, DueFinite
<1>10. \A n \in Nat : PagesOf(n) \in Nat \ {0}
  BY PagesOfType
<1>11. \A s, k, pg : Cut(s, k, pg) /\ k \in Nat /\ Cardinality(Due) <= k /\ k <= Cardinality(TakenIds)
         => Shows(s, pg)
  BY DEF Shows
<1>12. moved = {} => Steady /\ Cardinality(Due) = Cardinality(TakenIds)
  BY <1>1, StillDue DEF Steady
<1>13. CASE ReadPage
  <2>1. /\ at = "read" /\ at' = "attach" /\ chunk' = Read(request, Limit, Skip(page))
        /\ page' = page /\ pages' = pages /\ total' = total
    BY <1>13 DEF ReadPage, Goes, result
  <2>2. Direct(request)
    BY <2>1 DEF BaseInv, QueryInv
  <2>3. Cut(chunk', Cardinality(TakenIds), page)
    BY <1>1, <1>5, <2>1, <2>2, ReadCut
  <2>4. Shows(chunk', page)
    BY <1>9, <1>11, <2>3
  <2> QED
    BY <1>6, <1>7, <2>1, <2>4 DEF Scanning
<1>14. CASE AttachPage
  <2>1. /\ at = "attach" /\ page' = page /\ rows' = WithRisk(chunk, request)
        /\ \/ pages # 0 /\ at' = "done" /\ pages' = pages /\ total' = total
           \/ /\ pages = 0 /\ page = 1 /\ Len(rows') < Limit
              /\ at' = "done" /\ total' = Len(rows') /\ pages' = 1
           \/ pages = 0 /\ at' = "count" /\ pages' = pages
    BY <1>14 DEF AttachPage, Goes
  <2>2. Len(rows') = Len(chunk) /\ \A n \in 1 .. Len(chunk) : rows'[n].id = chunk[n].id
    BY <1>5, <2>1, WithRiskOf
  <2>3. Steady => Shows(rows', page')
    BY <1>7, <2>1, <2>2, SameShows
  <2>4. CASE pages # 0 /\ at' = "done" /\ pages' = pages /\ total' = total
    BY <1>6, <1>7, <1>12, <2>1, <2>3, <2>4 DEF Scanning
  <2>5. CASE pages = 0 /\ page = 1 /\ Len(rows') < Limit /\ at' = "done" /\ total' = Len(rows') /\ pages' = 1
    <3>1. moved = {} => /\ total' = Cardinality(TakenIds)
                        /\ request.op # "export" => PagesOf(Cardinality(TakenIds)) = 1
      <4> SUFFICES ASSUME moved = {}
                   PROVE  /\ total' = Cardinality(TakenIds)
                          /\ request.op # "export" => PagesOf(Cardinality(TakenIds)) = 1
        OBVIOUS
      <4>1. Shows(rows', 1)
        BY <1>12, <2>1, <2>3, <2>5
      <4>2. PICK k \in Nat : Cardinality(Due) <= k /\ k <= Cardinality(TakenIds) /\ Cut(rows', k, 1)
        BY <4>1 DEF Shows
      <4>3. k = Cardinality(TakenIds)
        BY <1>9, <1>12, <4>2
      <4>4. Len(rows') = k /\ (request.op # "export" => PagesOf(k) = 1)
        BY <2>5, <4>2, ShortPage
      <4> QED
        BY <2>5, <4>3, <4>4
    <3>2. request.page = 1 /\ Smaller(request.page, pages') = 1
      BY <1>6, <2>5 DEF Smaller
    <3> QED
      BY <2>1, <2>3, <2>5, <3>1, <3>2 DEF Scanning
  <2>6. CASE pages = 0 /\ at' = "count" /\ pages' = pages
    BY <1>6, <2>1, <2>3, <2>6 DEF Scanning
  <2> QED
    BY <2>1, <2>4, <2>5, <2>6
<1>15. CASE Count
  <2>1. /\ at = "count" /\ total' = Cardinality(Selected(request)) /\ pages' = PagesOf(total')
        /\ page' = Smaller(page, pages') /\ rows' = rows
        /\ at' = IF request.op = "frames" \/ (request.op = "page" /\ page' # request.page)
                 THEN "read" ELSE "done"
    BY <1>15 DEF Count, Goes
  <2>2. Direct(request) /\ pages = 0 /\ page = request.page
    BY <1>6, <2>1 DEF BaseInv, QueryInv
  <2>3. total' = Cardinality(TakenIds)
    BY <1>1, <1>5, <2>1, <2>2, DirectPlaces
  <2>4. pages' \in Nat \ {0}
    BY <1>9, <1>10, <2>1, <2>3
  <2>5. at' = "done" => Skip(page') = Skip(page)
    BY <1>5, <2>1, <2>2 DEF Skip
  <2>6. Steady /\ at' = "done" => Shows(rows', page')
    <3>1. Steady /\ at' = "done" => Shows(rows, page)
      BY <1>7, <2>1
    <3> QED
      BY <2>1, <2>5, <3>1, SameShows
  <2> QED
    BY <2>1, <2>2, <2>3, <2>4, <2>6 DEF Scanning
<1>16. CASE ScanChunk
  <2>1. /\ at = "scan" /\ at' \in {"finish", "collect"} /\ page' = page /\ pages' = pages
    BY <1>16 DEF ScanChunk, Goes, result
  <2> QED
    BY <1>6, <2>1 DEF Scanning
<1>17. CASE CollectChunk
  <2>1. at = "collect" /\ at' = "scan" /\ page' = page /\ pages' = pages
    BY <1>17 DEF CollectChunk, Goes
  <2> QED
    BY <1>6, <2>1 DEF Scanning
<1>18. ASSUME at = "finish", Steady
       PROVE  /\ total \in Nat
              /\ Cardinality(Due) <= total /\ total <= Cardinality(TakenIds)
              /\ moved = {} => total = Cardinality(TakenIds)
              /\ request.sort = "risk" => Gathered /\ moved = {}
              /\ request.sort # "risk" => Shows(rows, page)
  <2>1. /\ total \in Nat
        /\ Cardinality(Due) <= total /\ total <= Cardinality(TakenIds)
        /\ moved = {} => total = Cardinality(TakenIds)
        /\ request.sort = "risk" => Gathered /\ moved = {}
        /\ request.sort # "risk" => Cut(rows, total, page)
    BY <1>18, FinishAll
  <2> QED
    BY <1>11, <2>1
<1>19. CASE FinishPackets
  <2>1. /\ at = "finish" /\ request.op # "frames" /\ at' = "done" /\ total' = total
        /\ pages' = PagesOf(total) /\ page' = Smaller(page, pages')
        /\ IF request.sort = "risk"
           THEN rows' = Slice(ByRisk(rows, request.desc), Limit, Skip(page'))
           ELSE rows' = rows
    BY <1>19 DEF FinishPackets, Goes
  <2>2. pages' \in Nat \ {0} /\ pages = 0 /\ page = request.page /\ page' \in Nat \ {0}
    <3>1. pages' \in Nat \ {0} /\ pages = 0
      BY <1>5, <1>6, <1>10, <2>1 DEF Scanning
    <3> QED
      BY <1>5, <1>6, <2>1, <3>1 DEF Smaller
  <2>3. ~Direct(request)
    BY <2>1 DEF BaseInv, QueryInv
  <2>4. ASSUME Steady
        PROVE  \/ /\ ~Direct(request) /\ request.op = "page"
                  /\ request.sort # "risk" /\ request.page > pages'
               \/ Shows(rows', page')
    <3>1. CASE request.sort = "risk"
      <4>1. Gathered /\ moved = {} /\ total = Cardinality(TakenIds)
        BY <1>18, <2>1, <2>4, <3>1
      <4>2. Cut(rows', Cardinality(TakenIds), page')
        BY <1>1, <2>1, <2>2, <3>1, <4>1, RiskCut
      <4> QED
        BY <1>9, <1>11, <4>2
    <3>2. CASE request.sort # "risk"
      <4>1. Shows(rows, page) /\ rows' = rows
        BY <1>18, <2>1, <2>4, <3>2
      <4>2. CASE request.op = "export"
        <5>1. Skip(page') = Skip(page)
          BY <4>2 DEF Skip
        <5> QED
          BY <4>1, <5>1, SameShows
      <4>3. CASE request.op = "page" /\ ~(request.page > pages')
        <5>1. page' = page
          BY <1>5, <2>1, <2>2, <4>3 DEF Smaller
        <5> QED
          BY <4>1, <5>1
      <4> QED
        BY <1>5, <2>1, <2>3, <3>2, <4>2, <4>3
    <3> QED
      BY <3>1, <3>2
  <2>5. moved = {} => total' = Cardinality(TakenIds)
    BY <1>12, <1>18, <2>1
  <2> QED
    BY <2>1, <2>2, <2>4, <2>5 DEF Scanning
<1>20. CASE FinishFrames
  <2>1. /\ at = "finish" /\ request.op = "frames"
        /\ \/ pages # 0 /\ at' = "done" /\ UNCHANGED <<rows, total, page, pages>>
           \/ /\ pages = 0 /\ pages' = PagesOf(total) /\ page' = Smaller(page, pages')
              /\ \/ page' = page /\ at' = "done" /\ rows' = rows /\ total' = total
                 \/ page' # page /\ at' = "scan"
    BY <1>20 DEF FinishFrames, Goes
  <2>2. request.sort # "risk"
    BY <1>1, <1>5, <2>1, RequestType
  <2>3. Steady => Shows(rows, page)
    BY <1>18, <2>1, <2>2
  <2>4. moved = {} => total = Cardinality(TakenIds)
    BY <1>12, <1>18, <2>1
  <2>5. CASE pages # 0 /\ at' = "done" /\ UNCHANGED <<rows, total, page, pages>>
    BY <1>6, <2>1, <2>3, <2>4, <2>5 DEF Scanning
  <2>6. CASE pages = 0 /\ pages' = PagesOf(total) /\ page' = Smaller(page, pages')
    <3>1. pages' \in Nat \ {0} /\ page = request.page
      BY <1>5, <1>6, <1>10, <2>6
    <3>2. CASE page' = page /\ at' = "done" /\ rows' = rows /\ total' = total
      BY <2>1, <2>3, <2>4, <2>6, <3>1, <3>2 DEF Scanning
    <3>3. CASE page' # page /\ at' = "scan"
      BY <2>1, <2>4, <2>6, <3>1, <3>3 DEF Scanning
    <3> QED
      BY <2>1, <2>6, <3>2, <3>3
  <2> QED
    BY <2>1, <2>5, <2>6
<1>21. ~Consume
  BY DEF Consume, Goes
<1> QED
  BY <1>13, <1>14, <1>15, <1>16, <1>17, <1>19, <1>20, <1>21 DEF Query

\* its beginning,
LEMMA AskPage ==
  ASSUME NEW r \in Requests, Ask(r)
  PROVE  PageInv' /\ AnswerInv'
BY DEF Ask, Goes, PageInv, AnswerInv, Scanning

\* what happens meanwhile,
LEMMA ElsewherePage ==
  ASSUME PagesAssumption, BaseInv, StartInv, PageInv, AnswerInv, Elsewhere
  PROVE  PageInv' /\ AnswerInv'
<1>1. UNCHANGED query /\ at # "done" /\ \E how : at # "idle" => moved' = moved \cup {how}
  BY DEF Elsewhere, Insert, Discard, Rerank, Moves
<1>2. at # "idle" => moved' # {}
  BY <1>1
<1>3. UNCHANGED <<at, request, chunk, offset, rows, total, page, pages>>
  BY <1>1 DEF query, result
<1>4. PageInv'
  BY <1>1, <1>2, <1>3 DEF PageInv, Scanning
<1>5. AnswerInv'
  <2> SUFFICES ASSUME at # "idle", Steady' PROVE AnswerInv'
    BY <1>3 DEF AnswerInv
  <2>1. PICK c \in Contents : Insert(c) /\ Newest(c)
    BY ElsewhereSteady
  <2>2. Steady /\ OldestFirst /\ "shrunk" \notin moved
    BY ElsewhereSteady
  <2>3. /\ TakenIds \subseteq TakenIds' /\ Due' = Due
        /\ Cardinality(TakenIds) <= Cardinality(TakenIds)' /\ Cardinality(TakenIds)' \in Nat
        /\ \A id \in TakenIds : RefPlace(id)' = RefPlace(id)
    BY <2>1, <2>2, InsertTaken
  <2>4. Cardinality(TakenIds) \in Nat
    BY DueFinite DEF BaseInv
  <2>5. (\A pg : Skip(pg)' = Skip(pg)) /\ Limit' = Limit
    BY <1>3 DEF Limit, Skip
  <2>6. ASSUME NEW s, NEW pg, NEW k \in Nat, Cut(s, k, pg) PROVE Cut(s, k, pg)'
    BY <2>3, <2>5, <2>6 DEF Cut
  <2>7. ASSUME NEW s, NEW pg, Shows(s, pg) PROVE Shows(s, pg)'
    <3>1. PICK k \in Nat : Cardinality(Due) <= k /\ k <= Cardinality(TakenIds) /\ Cut(s, k, pg)
      BY <2>7 DEF Shows
    <3>2. Cut(s, k, pg)'
      BY <2>6, <3>1
    <3>3. Cardinality(Due)' <= k /\ k <= Cardinality(TakenIds)'
      BY <2>3, <2>4, <3>1
    <3> QED
      BY <3>2, <3>3 DEF Shows
  <2>8. at = "attach" => Shows(chunk, page)'
    <3> SUFFICES ASSUME at = "attach" PROVE Shows(chunk, page)'
      OBVIOUS
    <3>1. PICK s, pg : s = chunk /\ pg = page
      OBVIOUS
    <3>2. Shows(s, pg)'
      BY <2>2, <2>7, <3>1 DEF AnswerInv
    <3> QED
      BY <1>3, <3>1, <3>2 DEF Shows, Cut, Skip
  <2>9. at = "count" /\ request.op # "frames" => Shows(rows, page)'
    <3> SUFFICES ASSUME at = "count", request.op # "frames" PROVE Shows(rows, page)'
      OBVIOUS
    <3>1. PICK s, pg : s = rows /\ pg = page
      OBVIOUS
    <3>2. Shows(s, pg)'
      BY <2>2, <2>7, <3>1 DEF AnswerInv
    <3> QED
      BY <1>3, <3>1, <3>2 DEF Shows, Cut, Skip
  <2> QED
    BY <1>1, <1>2, <1>3, <2>8, <2>9 DEF AnswerInv
<1> QED
  BY <1>4, <1>5

\* and so any step.
LEMMA NextPage ==
  ASSUME PagesAssumption, BaseInv, StartInv, RankInv, ScanInv, PageInv, AnswerInv, [Next]_vars
  PROVE  PageInv' /\ AnswerInv'
<1>1. CASE UNCHANGED vars
  <2>1. UNCHANGED <<store, request>> /\ started' = started /\ request' = request
    BY <1>1 DEF vars, query, history
  <2>2. TakenIds' = TakenIds /\ Due' = Due /\ (\A id : RefPlace(id)' = RefPlace(id))
    BY <2>1, SameTaken
  <2>3. UNCHANGED <<at, chunk, offset, rows, total, page, pages, moved>>
    BY <1>1 DEF vars, query, result, history
  <2>4. (Steady' <=> Steady) /\ (Scanning' <=> Scanning)
    BY <2>1, <2>3 DEF Steady, OldestFirst, Scanning
  <2>5. (\A pg : Skip(pg)' = Skip(pg)) /\ Limit' = Limit /\ Skip(page)' = Skip(page)
    BY <2>1, <2>3 DEF Limit, Skip
  <2>6. /\ Shows(chunk, page)' <=> Shows(chunk, page)
        /\ Shows(rows, page)' <=> Shows(rows, page)
    BY <2>2, <2>3, <2>5 DEF Shows, Cut
  <2>7. Beyond' <=> Beyond
    <3>1. Direct(request)' = Direct(request)
      BY <2>1, SameReading
    <3> QED
      BY <2>1, <2>3, <3>1 DEF Beyond
  <2> QED
    BY <2>1, <2>2, <2>3, <2>4, <2>6, <2>7 DEF PageInv, AnswerInv
<1>2. CASE Query
  <2>1. CASE at' = "idle"
    BY <2>1 DEF PageInv, AnswerInv
  <2>2. CASE at' # "idle"
    BY <1>2, <2>2, QueryPage
  <2> QED
    BY <2>1, <2>2
<1> QED
  BY <1>1, <1>2, AskPage, ElsewherePage DEF Next

-------------------------------------------------------------------------------
(* From the places to the rows *)

\* Ids taken, and with each all that come before it, are sorted by their places.
LEMMA SortedIds ==
  ASSUME PagesAssumption, StoreInv, at # "idle", NEW D, D \subseteq TakenIds,
         \A id \in D : \A j \in TakenIds :
           Comes(Ranked(j), Ranked(id), request.sort, request.desc) => j \in D
  PROVE  LET s == Sorted({Ranked(id) : id \in D}, request.sort, request.desc)
         IN  /\ s \in Seq(PageRow) /\ Len(s) = Cardinality(D) /\ Cardinality(D) \in Nat
             /\ \A n \in 1 .. Len(s) :
                  s[n].id \in D /\ s[n] = Ranked(s[n].id) /\ RefPlace(s[n].id) = n - 1
             /\ \A id \in D : /\ RefPlace(id) \in 0 .. Len(s) - 1
                              /\ s[RefPlace(id) + 1] = Ranked(id)
<1> DEFINE R == {Ranked(id) : id \in D}
           s == Sorted(R, request.sort, request.desc)
           below == Ahead(R, request.sort, request.desc)
           g == [id \in D |-> Ranked(id)]
<1>1. /\ IsFiniteSet(D) /\ TakenIds \subseteq DOMAIN table /\ D \subseteq DOMAIN table
      /\ request.sort \in Sorts /\ request.desc \in BOOLEAN
  BY TakenFinite, RequestType DEF TakenIds, Selected
<1>2. \A id \in DOMAIN table :
        /\ Ranked(id) \in PageRow /\ Ranked(id).id = id /\ Ranked(id).content = table[id]
  BY RankedRow
<1>3. \A i, j \in D : Ranked(i) = Ranked(j) => i = j
  BY <1>1, <1>2
<1>4. IsFiniteSet(R) /\ Cardinality(R) = Cardinality(D) /\ Cardinality(D) \in Nat
  <2>1. g \in [D -> R] /\ \A i \in D : g[i] = Ranked(i)
    OBVIOUS
  <2>2. \A x \in R : \E i \in D : g[i] = x
    OBVIOUS
  <2>3. \A i \in D : \A j \in D : g[i] = g[j] => i = j
    BY <1>3
  <2> HIDE DEF g, R
  <2> QED
    BY <1>1, <2>1, <2>2, <2>3, CountBy
<1>5. \A id \in D : Sortable(Ranked(id), request.sort)
  <2> TAKE id \in D
  <2>1. id \in DOMAIN table /\ id \in Selected(request)
    BY <1>1 DEF TakenIds
  <2>2. Ranked(id) \in HeldRows
    <3>1. IsFrame(table[id]) <=> request.op = "frames"
      BY <2>1 DEF Selected, Visible
    <3>2. id \in 1 .. last
      BY <2>1 DEF StoreInv
    <3> QED
      BY <1>2, <2>1, <3>1, <3>2 DEF HeldRows
  <2> QED
    BY <2>2, HeldSortable
<1>6. Orderable(R, request.sort)
  <2>1. \A x \in R : Sortable(x, request.sort)
    BY <1>5
  <2>2. \A x \in R : \A y \in R : x.id = y.id => x = y
    BY <1>1, <1>2
  <2> HIDE DEF R
  <2> QED
    BY <1>4, <2>1, <2>2 DEF Orderable
<1>7. InOrder(s, below) /\ DOMAIN below = R
  <2>1. InOrder(s, below)
    BY <1>1, <1>6, RowsInOrder
  <2> QED
    BY <2>1 DEF Ahead
<1>8. ASSUME NEW id \in D PROVE Cardinality(below[Ranked(id)]) = RefPlace(id)
  <2> DEFINE I == {j \in TakenIds : Comes(Ranked(j), Ranked(id), request.sort, request.desc)}
             B == {y \in R : Comes(y, Ranked(id), request.sort, request.desc)}
             h == [j \in I |-> Ranked(j)]
  <2>1. below[Ranked(id)] = B
    BY DEF Ahead
  <2>2. IsFiniteSet(I) /\ I \subseteq D
    BY TakenFinite
  <2>3. h \in [I -> B] /\ \A j \in I : h[j] = Ranked(j)
    BY <2>2
  <2>4. \A x \in B : \E j \in I : h[j] = x
    BY <2>3
  <2>5. \A i \in I : \A j \in I : h[i] = h[j] => i = j
    BY <1>3, <2>2, <2>3
  <2> HIDE DEF h, I, B
  <2>6. Cardinality(B) = Cardinality(I)
    BY <2>2, <2>3, <2>4, <2>5, CountBy
  <2> QED
    BY <2>1, <2>6 DEF RefPlace, I
<1>9. \A x \in R : \E id \in D : x = Ranked(id)
  OBVIOUS
<1>10. \A id \in D : Ranked(id) \in R
  OBVIOUS
<1>11. R \subseteq PageRow
  BY <1>1, <1>2
<1> HIDE DEF R, s, below, g
<1>12. s \in Seq(PageRow) /\ Len(s) = Cardinality(D)
  BY <1>4, <1>7, <1>11, SeqMonotonic DEF InOrder
<1>13. ASSUME NEW n \in 1 .. Len(s)
       PROVE  s[n].id \in D /\ s[n] = Ranked(s[n].id) /\ RefPlace(s[n].id) = n - 1
  <2>1. s[n] \in R /\ Cardinality(below[s[n]]) = n - 1
    BY <1>7 DEF InOrder
  <2>2. PICK id \in D : s[n] = Ranked(id)
    BY <1>9, <2>1
  <2>3. s[n].id = id
    BY <1>1, <1>2, <2>2
  <2> QED
    BY <1>8, <2>1, <2>2, <2>3
<1>14. ASSUME NEW id \in D
       PROVE  RefPlace(id) \in 0 .. Len(s) - 1 /\ s[RefPlace(id) + 1] = Ranked(id)
  BY <1>7, <1>8, <1>10 DEF InOrder
<1> QED
  BY <1>4, <1>12, <1>13, <1>14 DEF s, R

\* The rows shown are those of the page cut out of the order, as far as they go.
LEMMA ShownRows ==
  ASSUME PagesAssumption, BaseInv, RankInv, at # "idle", "reranked" \notin moved,
         NEW k \in Nat, k <= Cardinality(TakenIds), Cut(rows, k, page)
  PROVE  LET all == Sorted(Taken, request.sort, request.desc)
             p == Slice(all, Limit, Skip(page))
         IN  /\ Len(all) = Cardinality(TakenIds) /\ p \in Seq(PageRow) /\ rows \in Seq(PageRow)
             /\ Len(rows) <= Len(p)
             /\ k = Cardinality(TakenIds) => Len(rows) = Len(p)
             /\ \A n \in 1 .. Len(rows) : rows[n] = p[n] /\ rows[n] = Ranked(rows[n].id)
<1> DEFINE all == Sorted(Taken, request.sort, request.desc)
           P == Skip(page)
           p == Slice(all, Limit, P)
<1>1. /\ StoreInv /\ rows \in Seq(HeldRows) /\ rows \in Seq(PageRow) /\ Len(rows) \in Nat
      /\ P \in Nat /\ Limit \in Nat
  <2>1. rows \in Seq(HeldRows) /\ HeldRows \subseteq PageRow /\ StoreInv /\ page \in Nat \ {0}
    BY DEF BaseInv, QueryInv, HeldRows
  <2> QED
    BY <2>1, SeqMonotonic, LenProperties, SkipType, LimitType
<1>2. /\ all \in Seq(PageRow) /\ Len(all) = Cardinality(TakenIds) /\ Cardinality(TakenIds) \in Nat
      /\ \A id \in TakenIds : /\ RefPlace(id) \in 0 .. Len(all) - 1
                              /\ all[RefPlace(id) + 1] = Ranked(id)
  BY <1>1, SortedIds DEF Taken
<1> HIDE DEF all
<1>3. /\ p \in Seq(PageRow)
      /\ Len(p) = IF Len(all) <= P THEN 0 ELSE IF P + Limit < Len(all) THEN Limit ELSE Len(all) - P
      /\ \A n \in 1 .. Len(p) : p[n] = all[P + n]
  <2> HIDE DEF P
  <2>1. /\ p \in Seq(PageRow)
        /\ Len(p) = IF Len(all) <= P THEN 0 ELSE IF P + Limit < Len(all) THEN Limit ELSE Len(all) - P
        /\ \A n \in 1 .. Len(p) : p[n] = all[P + n] /\ P + n \in 1 .. Len(all)
    BY <1>1, <1>2, SliceOf, Zenon
  <2> QED
    BY <2>1
<1> HIDE DEF p, P
<1>4. /\ Len(rows) = IF k <= P THEN 0 ELSE IF P + Limit < k THEN Limit ELSE k - P
      /\ \A n \in 1 .. Len(rows) : rows[n].id \in TakenIds /\ RefPlace(rows[n].id) = P + n - 1
  BY DEF Cut, P
<1>5. Len(rows) <= Len(p) /\ (k = Cardinality(TakenIds) => Len(rows) = Len(p))
  <2>1. CASE k <= P
    BY <1>1, <1>2, <1>3, <1>4, <2>1
  <2>2. CASE ~(k <= P) /\ P + Limit < k
    BY <1>1, <1>2, <1>3, <1>4, <2>2
  <2>3. CASE ~(k <= P) /\ ~(P + Limit < k)
    BY <1>1, <1>2, <1>3, <1>4, <2>3
  <2> QED
    BY <2>1, <2>2, <2>3
<1>6. ASSUME NEW n \in 1 .. Len(rows) PROVE rows[n] = p[n] /\ rows[n] = Ranked(rows[n].id)
  <2>1. rows[n] \in HeldRows /\ rows[n].id \in TakenIds /\ RefPlace(rows[n].id) = P + n - 1
    BY <1>1, <1>4, ElementOfSeq
  <2>2. rows[n].id \in DOMAIN table
    BY <2>1 DEF TakenIds, Selected
  <2>3. rows[n] \in PageRow /\ rows[n].content = table[rows[n].id]
    BY <2>1, <2>2 DEF HeldRows
  <2>4. rows[n].rank = risk[table[rows[n].id]]
    BY <2>3 DEF RankInv
  <2>5. /\ Ranked(rows[n].id) \in PageRow /\ Ranked(rows[n].id).id = rows[n].id
        /\ Ranked(rows[n].id).content = table[rows[n].id]
        /\ Ranked(rows[n].id).rank = risk[table[rows[n].id]]
    BY <1>1, <2>2, RankedRow
  <2>6. rows[n] = Ranked(rows[n].id)
    BY <2>3, <2>4, <2>5 DEF PageRow
  <2>7. n \in 1 .. Len(p)
    <3>1. Len(p) \in Nat
      BY <1>3, LenProperties
    <3> QED
      BY <1>1, <1>5, <3>1
  <2>8. p[n] = all[P + n] /\ RefPlace(rows[n].id) + 1 = P + n
    BY <1>1, <1>3, <2>1, <2>7
  <2>9. p[n] = Ranked(rows[n].id)
    BY <1>2, <2>1, <2>8
  <2> QED
    BY <2>6, <2>9
<1> QED
  BY <1>1, <1>2, <1>3, <1>5, <1>6 DEF all, p, P

\* In the order of time, oldest first, what was there when only newer rows came is sorted
\* as it was, before the newer rows.
LEMMA DueFirst ==
  ASSUME PagesAssumption, StoreInv, StartInv, at # "idle", moved \subseteq {"grown"}, OldestFirst,
         Alike(table)
  PROVE  /\ Wanted(started, request) = {Ranked(id) : id \in Due}
         /\ \A id \in Due : \A j \in TakenIds :
              Comes(Ranked(j), Ranked(id), request.sort, request.desc) => j \in Due
<1>1. \A id \in DOMAIN started : id \in DOMAIN table /\ table[id] = started[id]
  BY DEF StartInv
<1>2. \A id \in DOMAIN table : /\ Ranked(id) \in Wanted(table, request) <=> id \in TakenIds
                               /\ Ranked(id) \in PageRow /\ Ranked(id).id = id
                               /\ Ranked(id).content = table[id]
                               /\ Ranked(id).rank = risk[table[id]]
  BY RankedRow, TakenIsWanted
<1>3. Wanted(started, request) = {Ranked(id) : id \in Due}
  <2> DEFINE Is(x) == /\ Visible(x.content, request)
                      /\ Match(request, Row(x.id, x.content, x.rank))
                      /\ request.abnormal => x.rank > 0
             old == {[id |-> id, content |-> started[id], rank |-> risk[started[id]]] :
                       id \in DOMAIN started}
             now == {[id |-> id, content |-> table[id], rank |-> risk[table[id]]] :
                       id \in DOMAIN table}
  <2>1. Wanted(started, request) = {x \in old : Is(x)} /\ Wanted(table, request) = {x \in now : Is(x)}
    BY DEF Wanted
  <2> HIDE DEF Is
  <2>2. \A id \in DOMAIN started :
          [id |-> id, content |-> started[id], rank |-> risk[started[id]]] = Ranked(id)
    BY <1>1 DEF Ranked
  <2>3. old = {Ranked(id) : id \in DOMAIN started} /\ now = {Ranked(id) : id \in DOMAIN table}
    <3>1. now = {Ranked(id) : id \in DOMAIN table}
      BY DEF Ranked
    <3>2. ASSUME NEW x \in old PROVE \E id \in DOMAIN started : x = Ranked(id)
      <4>1. PICK id \in DOMAIN started : x = [id |-> id, content |-> started[id], rank |-> risk[started[id]]]
        BY <3>2
      <4> QED
        BY <2>2, <4>1
    <3>3. ASSUME NEW id \in DOMAIN started PROVE Ranked(id) \in old
      BY <2>2, <3>3
    <3> HIDE DEF old
    <3> QED
      BY <3>1, <3>2, <3>3
  <2> HIDE DEF old, now
  <2>4. \A id \in DOMAIN started : Is(Ranked(id)) <=> id \in TakenIds
    BY <1>1, <1>2, <2>1, <2>3
  <2> QED
    <3>1. Due = {id \in DOMAIN started : Is(Ranked(id))}
      BY <1>1, <2>4 DEF Due
    <3>2. ASSUME NEW x \in old, Is(x) PROVE x \in {Ranked(id) : id \in Due}
      BY <2>3, <3>1, <3>2
    <3>3. ASSUME NEW id \in Due PROVE Ranked(id) \in old /\ Is(Ranked(id))
      BY <2>3, <3>1, <3>3
    <3> QED
      BY <2>1, <3>2, <3>3
<1>4. ASSUME NEW id \in Due, NEW j \in TakenIds, j \notin Due
      PROVE  ~Comes(Ranked(j), Ranked(id), request.sort, request.desc)
  <2>1. id \in DOMAIN started /\ j \in DOMAIN table /\ j \notin DOMAIN started /\ id \in DOMAIN table
    BY <1>1, <1>4 DEF Due, TakenIds, Selected
  <2>2. id < j /\ table[id].ts.halves <= table[j].ts.halves
    BY <2>1 DEF StartInv
  <2>3. request.sort = "ts" /\ request.desc = FALSE
    BY RequestType DEF OldestFirst
  <2>4. /\ Ranked(id).id = id /\ Ranked(j).id = j
        /\ Key(Ranked(id), "ts") = table[id].ts.halves /\ Key(Ranked(j), "ts") = table[j].ts.halves
    BY <1>2, <2>1 DEF Key
  <2>5. /\ Key(Ranked(id), "ts") \in Int /\ Key(Ranked(j), "ts") \in Int
        /\ Ranked(id).id \in Int /\ Ranked(j).id \in Int
    BY <1>2, <2>1, KeyInt DEF Sorts, Sortable
  <2>6. ~Before(Ranked(j), Ranked(id), "ts")
    BY <2>2, <2>4, <2>5 DEF Before
  <2> QED
    BY <2>3, <2>6 DEF Comes
<1> QED
  BY <1>3, <1>4

\* The invariant of a query: its state, what was there when it began, its risks, its scan,
\* its page and what that shows
PagesInv == BaseInv /\ StartInv /\ RankInv /\ ScanInv /\ PageInv /\ AnswerInv

\* It holds in the first state and after any step.
LEMMA PagesInvariant ==
  ASSUME PagesAssumption
  PROVE  (Init => PagesInv) /\ (PagesInv /\ [Next]_vars => PagesInv')
<1>1. Init => PagesInv
  <2>1. Len(<< >>) = 0
    BY EmptySeq
  <2> QED
    BY <2>1, InitBase DEF Init, StartInv, RankInv, ScanInv, PageInv, AnswerInv, PagesInv
<1>2. PagesInv /\ [Next]_vars => PagesInv'
  BY NextBase, NextStart, NextRank, NextScan, NextPage DEF PagesInv
<1> QED
  BY <1>1, <1>2

\* When nothing moved, the answer is that of the matcher in Python: total, pages and rows,
\* for any rule that is not compiled, or that is and is spelt like the rows.
THEOREM AnswerIsExact ==
  PagesAssumption /\ Spec => []AnswerExact
<1> SUFFICES ASSUME PagesAssumption PROVE Spec => []AnswerExact
  OBVIOUS
<1>1. PagesInv => AnswerExact
  <2> SUFFICES ASSUME PagesInv, Answered, moved = {}, Alike(table), ~Beyond PROVE AnswerExact
    BY DEF AnswerExact
  <2>1. /\ BaseInv /\ StartInv /\ RankInv /\ StoreInv /\ at = "done" /\ at # "idle" /\ Steady
        /\ Shows(rows, page) /\ total = Cardinality(TakenIds)
    BY DEF PagesInv, AnswerInv, BaseInv, Answered, Steady
  <2>2. /\ request.op # "export" => pages = PagesOf(total) /\ page = Smaller(request.page, pages)
    BY <2>1 DEF PagesInv, PageInv
  <2>3. Cardinality(TakenIds) \in Nat /\ Cardinality(Due) = Cardinality(TakenIds)
    BY <2>1, StillDue, DueFinite
  <2>4. Cut(rows, Cardinality(TakenIds), page)
    BY <2>1, <2>3 DEF Shows
  <2> DEFINE all == Sorted(Taken, request.sort, request.desc)
             p == Slice(all, Limit, Skip(page))
  <2>5. /\ Len(all) = Cardinality(TakenIds) /\ p \in Seq(PageRow) /\ rows \in Seq(PageRow)
        /\ Len(rows) = Len(p) /\ \A n \in 1 .. Len(rows) : rows[n] = p[n]
    BY <2>1, <2>3, <2>4, ShownRows
  <2>6. Reference(table) = all
    BY <2>1, TakenIsWanted DEF Reference
  <2>7. rows = p
    <3> HIDE DEF p
    <3> QED
      BY <2>5, SeqEqual
  <2> QED
    BY <2>1, <2>2, <2>5, <2>6, <2>7 DEF AnswerExact, ThePage
<1> QED
  BY <1>1, PagesInvariant, PTL DEF Spec

\* A sequence is a prefix of one that has its elements and more.
LEMMA PrefixOf ==
  ASSUME NEW S, NEW s \in Seq(S), NEW t \in Seq(S), Len(s) <= Len(t),
         \A n \in 1 .. Len(s) : s[n] = t[n]
  PROVE  IsPrefix(s, t)
<1> DEFINE k == Len(s)
           u == SubSeq(s, 1, k)
           v == SubSeq(t, 1, k)
<1>1. k \in Nat /\ Len(t) \in Nat /\ \A n \in 1 .. k : n \in 1 .. Len(t)
  BY LenProperties
<1>2. u \in Seq(S) /\ Len(u) = k /\ \A n \in 1 .. k : u[n] = s[n]
  BY <1>1, SubSeqProperties
<1>3. v \in Seq(S) /\ Len(v) = k /\ \A n \in 1 .. k : v[n] = t[n]
  BY <1>1, SubSeqProperties
<1> HIDE DEF u, v
<1>4. u = v
  BY <1>2, <1>3, SeqEqual
<1> QED
  BY <1>4 DEF IsPrefix, u, v

\* While only newer rows came, an answer in the order of time, oldest first, shows what the
\* page held when the query began and nothing but what it would hold now.
LEMMA OldestShown ==
  ASSUME PagesAssumption, PagesInv, Answered, moved \subseteq {"grown"}, OldestFirst,
         Alike(table), ~Beyond
  PROVE  IsPrefix(ThePage(started), rows) /\ IsPrefix(rows, ThePage(table))
<1> DEFINE old == Sorted({Ranked(id) : id \in Due}, request.sort, request.desc)
           all == Sorted(Taken, request.sort, request.desc)
           P == Skip(page)
           was == Slice(old, Limit, P)
           is == Slice(all, Limit, P)
<1>1. /\ BaseInv /\ StartInv /\ RankInv /\ StoreInv /\ at # "idle" /\ Steady /\ Shows(rows, page)
      /\ page \in Nat \ {0} /\ "reranked" \notin moved
  BY DEF PagesInv, AnswerInv, BaseInv, QueryInv, Answered, Steady
<1>2. PICK k \in Nat : /\ Cardinality(Due) <= k /\ k <= Cardinality(TakenIds)
                       /\ Cut(rows, k, page)
  BY <1>1 DEF Shows
<1>3. /\ is \in Seq(PageRow) /\ rows \in Seq(PageRow) /\ Len(rows) <= Len(is)
      /\ \A n \in 1 .. Len(rows) : rows[n] = is[n] /\ rows[n] = Ranked(rows[n].id)
  BY <1>1, <1>2, ShownRows
<1>4. Reference(table) = all /\ ThePage(table) = is
  BY <1>1, TakenIsWanted DEF Reference, ThePage
<1>5. Reference(started) = old /\ ThePage(started) = was
  BY <1>1, DueFirst DEF Reference, ThePage
<1>6. IsPrefix(rows, is)
  <2> HIDE DEF is
  <2> QED
    BY <1>3, PrefixOf
<1>7. /\ old \in Seq(PageRow) /\ Len(old) = Cardinality(Due) /\ Cardinality(Due) \in Nat
      /\ \A n \in 1 .. Len(old) :
           old[n].id \in Due /\ old[n] = Ranked(old[n].id) /\ RefPlace(old[n].id) = n - 1
  <2>1. Due \subseteq TakenIds
    BY DEF Due
  <2>2. \A id \in Due : \A j \in TakenIds :
          Comes(Ranked(j), Ranked(id), request.sort, request.desc) => j \in Due
    BY <1>1, DueFirst
  <2> QED
    BY <1>1, <2>1, <2>2, SortedIds
<1>8. \A id \in TakenIds : all[RefPlace(id) + 1] = Ranked(id)
  BY <1>1, SortedIds DEF Taken
<1>9. P \in Nat /\ Limit \in Nat /\ Len(rows) \in Nat
  BY <1>1, <1>3, LenProperties, SkipType, LimitType
<1>10. /\ was \in Seq(PageRow) /\ Len(was) \in Nat
       /\ Len(was) = IF Len(old) <= P THEN 0 ELSE IF P + Limit < Len(old) THEN Limit ELSE Len(old) - P
       /\ \A n \in 1 .. Len(was) : was[n] = old[P + n] /\ P + n \in 1 .. Len(old)
  <2> HIDE DEF old, P
  <2> QED
    BY <1>7, <1>9, SliceOf, LenProperties
<1>11. /\ Len(rows) = IF k <= P THEN 0 ELSE IF P + Limit < k THEN Limit ELSE k - P
       /\ \A n \in 1 .. Len(rows) : rows[n].id \in TakenIds /\ RefPlace(rows[n].id) = P + n - 1
  BY <1>2 DEF Cut
<1> HIDE DEF old, all, was, is, P
<1>12. Len(was) <= Len(rows)
  BY <1>2, <1>7, <1>9, <1>10, <1>11
<1>13. ASSUME NEW n \in 1 .. Len(was) PROVE was[n] = rows[n]
  <2>1. n \in 1 .. Len(rows)
    BY <1>9, <1>10, <1>12
  <2>2. PICK m \in 1 .. Len(old) : m = P + n /\ was[n] = old[m]
    BY <1>10
  <2>3. old[m].id \in Due /\ old[m] = Ranked(old[m].id) /\ RefPlace(old[m].id) = m - 1
    BY <1>7
  <2>4. /\ rows[n].id \in TakenIds /\ RefPlace(rows[n].id) = P + n - 1
        /\ rows[n] = Ranked(rows[n].id)
    BY <1>3, <1>11, <2>1
  <2>5. old[m].id \in TakenIds /\ RefPlace(old[m].id) = RefPlace(rows[n].id)
    <3>1. old[m].id \in TakenIds
      BY <2>3 DEF Due
    <3>2. RefPlace(old[m].id) = P + n - 1
      <4>1. m = P + n /\ RefPlace(old[m].id) = m - 1 /\ m \in Int /\ P \in Int /\ n \in Int
        BY <1>7, <1>9, <1>10, <2>2, <2>3
      <4> QED
        BY ONLY <4>1
    <3> QED
      BY <2>4, <3>1, <3>2
  <2>6. Ranked(old[m].id) = Ranked(rows[n].id)
    BY <1>8, <2>4, <2>5
  <2> QED
    BY <2>2, <2>3, <2>4, <2>6
<1>14. IsPrefix(was, rows)
  BY <1>3, <1>10, <1>12, <1>13, PrefixOf
<1> QED
  BY <1>4, <1>5, <1>6, <1>14

\* While rows are only added, none older than those stored, a page sorted with the oldest row
\* first begins with what it held when the query began and is the beginning of what it holds now,
\* by the matcher's account of the rule: one that is not compiled, or is spelt like the rows.
THEOREM OldestFirstStays ==
  PagesAssumption /\ Spec => []OldestFirstIsStable
<1> SUFFICES ASSUME PagesAssumption PROVE Spec => []OldestFirstIsStable
  OBVIOUS
<1>1. PagesInv => OldestFirstIsStable
  BY OldestShown DEF OldestFirstIsStable
<1> QED
  BY <1>1, PagesInvariant, PTL DEF Spec
===============================================================================
