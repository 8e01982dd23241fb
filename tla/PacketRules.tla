------------------------------ MODULE PacketRules ------------------------------
(***************************************************************************)
(* The rule of the traffic page ("tcp && ip.src==10.0.0.2", "!icmp &&      *)
(* len>100"), which exists twice: as a matcher in Python that knows every  *)
(* rule, and as an SQL condition for those without "||" and "!".           *)
(*                                                                         *)
(* A rule is a set of alternatives, an alternative a set of terms.  A text *)
(* is a word and whether it is written in capitals; a number is in halves, *)
(* so that 3 is the literal 1.5, and as a text it is the way it is typed.  *)
(* Aliases of a field are one field.                                       *)
(***************************************************************************)
EXTENDS Integers, FiniteSets

CONSTANTS
  Within,  (* pairs of words: the first is part of the second              *)
  Wild,    (* pairs of words: LIKE finds the first in the second, though it *)
           (* is no part of it, because "_" and "%" in it stand for letters *)
  Below    (* pairs of texts or numbers: as texts, the first sorts first   *)

\* A column, or the literal of a comparison, that float() does not take for a number
Texts == [word : STRING, capitals : BOOLEAN]
Numbers == [halves : Int]
Operators == {"==", "!=", "<", "<=", ">", ">="}

\* The terms of a rule, with no literal that reaches from one column into the next
Terms ==
  [is : {"proto", "word"}, literal : Texts]
  \cup [is : {"contains"}, field : STRING, literal : Texts]
  \cup [is : {"compare"}, field : STRING, op : Operators, literal : Numbers \cup Texts]
IsRule(rule) ==
  /\ IsFiniteSet(rule)
  /\ \A alternative \in rule : alternative \subseteq [nots : Nat, term : Terms]

\* A packet as it is stored, its protocol in capitals, and a frame
Packets ==
  [ts : Numbers, src_port : Numbers, dst_port : Numbers, length : Numbers,
   src_ip : Texts, dst_ip : Texts, process : Texts, source : Texts,
   proto : [word : STRING, capitals : {TRUE}]]
Frames ==
  [ts : Numbers, frame_no : Numbers, linktype : Numbers, wirelen : Numbers,
   iface : Texts, frame_type : Texts, summary : Texts, source : Texts]

Text(word, capitals) == [word |-> word, capitals |-> capitals]
Number(n) == [halves |-> 2 * n]
Empty == Text("", FALSE)

With(row, column, value) ==
  [c \in DOMAIN row \cup {column} |-> IF c = column THEN value ELSE row[c]]

IsNumber(v) == "halves" \in DOMAIN v

Lower(t) == [t EXCEPT !.capitals = FALSE]
Upper(t) == [t EXCEPT !.capitals = TRUE]
PartOf(v, t) == v.word = t.word \/ <<v.word, t.word>> \in Within

Compare(m, op, n) ==
  CASE op = "==" -> m = n
    [] op = "!=" -> m # n
    [] op = "<" -> m < n
    [] op = "<=" -> m <= n
    [] op = ">" -> m > n
    [] op = ">=" -> m >= n

\* The same for texts, and for numbers as they are spelt
TextCompare(v, op, l) ==
  CASE op = "==" -> v = l
    [] op = "!=" -> v # l
    [] op = "<" -> <<v, l>> \in Below
    [] op = "<=" -> v = l \/ <<v, l>> \in Below
    [] op = ">" -> <<l, v>> \in Below
    [] op = ">=" -> v = l \/ <<l, v>> \in Below

-------------------------------------------------------------------------------
(* The matcher in Python                                                    *)

\* _extract_compare_values and _lookup_contains_text: "ip" and "port" stand for
\* two columns, a field the row does not have is the empty text.
Columns(field) ==
  CASE field = "ip" -> {"src_ip", "dst_ip"}
    [] field = "port" -> {"src_port", "dst_port"}
    [] OTHER -> {field}

Values(row, field) ==
  {IF c \in DOMAIN row THEN row[c] ELSE Empty : c \in Columns(field)}

\* _compare_rule_value: a literal that is a number compares with numbers only, any
\* other with what str() makes of the value, both in lower case.
Satisfies(value, op, literal) ==
  IF IsNumber(literal)
  THEN IsNumber(value) /\ Compare(value.halves, op, literal.halves)
  ELSE TextCompare(IF IsNumber(value) THEN value ELSE Lower(value), op, Lower(literal))

\* v in text, both in lower case
Mentioned(value, v) == ~IsNumber(value) /\ PartOf(v, value)

\* match_packet_term
MatchTerm(row, term) ==
  CASE term.is = "proto" -> Lower(row.proto) = Lower(term.literal)
    [] term.is = "contains" -> \E value \in Values(row, term.field) : Mentioned(value, term.literal)
    [] term.is = "word" -> \E c \in DOMAIN row : Mentioned(row[c], term.literal)
    [] term.is = "compare" ->
         IF term.op = "!="
         THEN \A value \in Values(row, term.field) : Satisfies(value, "!=", term.literal)
         ELSE \E value \in Values(row, term.field) : Satisfies(value, term.op, term.literal)

\* match_frame_term: "tcp" has no meaning of its own
MatchFrameTerm(frame, term) ==
  MatchTerm(frame, IF term.is = "proto" THEN [is |-> "word", literal |-> term.literal]
                                        ELSE term)

\* The loops of match_packet_rule and match_frame_rule; each "!" before a term
\* negates it once more.
MatchRule(row, rule, isFrame) ==
  LET holds(term) == IF isFrame THEN MatchFrameTerm(row, term) ELSE MatchTerm(row, term)
  IN  rule = {} \/ \E alternative \in rule :
                     \A t \in alternative : holds(t.term) # (t.nots % 2 = 1)

-------------------------------------------------------------------------------
(* The SQL condition: _build_packet_rule_sql                                *)

NumberFields == {"port", "src_port", "dst_port", "length", "id"}
TextFields == {"ip", "src_ip", "dst_ip", "process", "proto", "source"}

TermInSql(term) ==
  CASE term.is = "proto" -> TRUE
    [] term.is = "contains" -> term.field \in {"ip", "process", "proto", "source"}
    [] term.is = "word" -> FALSE
    [] term.is = "compare" ->
         /\ term.op # "!="
         /\ \/ term.field \in NumberFields /\ IsNumber(term.literal)
            \/ term.field \in TextFields

\* Not empty, no "||" and no "!" anywhere
InSql(rule) ==
  /\ Cardinality(rule) = 1
  /\ \A alternative \in rule : \A t \in alternative : t.nots = 0 /\ TermInSql(t.term)

\* int(): the fraction is cut off
Truncated(n) == Number(IF n.halves < 0 THEN -((-n.halves) \div 2) ELSE n.halves \div 2)

\* Mutant of SqlLiteral: the protocol is taken as it was typed.
SqlLiteralAsTyped(term) ==
  IF term.field \in NumberFields THEN Truncated(term.literal) ELSE term.literal

\* coerce_value: int(float(raw)) for a number field, any other literal as it was
\* typed, a protocol in capitals
SqlLiteral(term) ==
  IF term.field \in NumberFields THEN Truncated(term.literal)
  ELSE IF term.field = "proto" /\ ~IsNumber(term.literal) THEN Upper(term.literal)
  ELSE term.literal

\* LIKE with the literal between two "%"; DuckDB heeds the case.
Like(value, literal, duck) ==
  /\ PartOf(literal, value) \/ <<literal.word, value.word>> \in Wild
  /\ duck => value.capitals = literal.capitals

\* A column against the literal.  Texts compare by case, numbers with them as typed.
SqlTerm(row, term, duck) ==
  CASE term.is = "proto" -> row.proto = Upper(term.literal)
    [] term.is = "contains" ->
         \E value \in Values(row, term.field) : Like(value, term.literal, duck)
    [] term.is = "compare" ->
         \E value \in Values(row, term.field) :
           IF term.field \in NumberFields
           THEN Compare(value.halves, term.op, SqlLiteral(term).halves)
           ELSE TextCompare(value, term.op, SqlLiteral(term))

SqlRule(row, rule, duck) ==
  \A alternative \in rule : \A t \in alternative : SqlTerm(row, t.term, duck)

-------------------------------------------------------------------------------
(* Where the two are meant to agree.                                        *)

\* The literal of a compiled term is written the way the row has it: whole numbers
\* for numbers, letters in the case of the column unless the comparison takes no
\* notice of it, no wildcard that finds more.  Texts are ordered alike in small
\* letters only, and never against a number, which is above and below no text for
\* the matcher.  A frame number is not alike in DuckDB, where the page shows another
\* than the SQL condition compares.
SpeltAlike(row, term, duck) ==
  LET values == Values(row, term.field)
  IN  CASE term.is = "proto" -> TRUE
        [] term.is = "contains" ->
             \A value \in values :
               /\ <<term.literal.word, value.word>> \notin Wild
               /\ duck /\ Mentioned(value, term.literal) => value.capitals = term.literal.capitals
        [] term.is = "compare" ->
             /\ term.field \in NumberFields =>
                  term.literal.halves % 2 = 0 /\ (term.field = "id" => ~duck)
             /\ term.field \in TextFields /\ term.op # "==" =>
                  /\ ~IsNumber(term.literal) /\ term.field # "proto"
                  /\ \A text \in values \cup {term.literal} : ~text.capitals
             /\ term.field \in TextFields \ {"proto"} /\ ~IsNumber(term.literal) =>
                  \A value \in values : Lower(value) = Lower(term.literal) => value = term.literal

SpeltLike(row, rule, duck) ==
  \A alternative \in rule : \A t \in alternative : SpeltAlike(row, t.term, duck)

SameInBoth(row, rule, duck) ==
  InSql(rule) /\ SpeltLike(row, rule, duck) =>
    (SqlRule(row, rule, duck) <=> MatchRule(row, rule, FALSE))
===============================================================================
