---------------------------- MODULE AnswerJudge ----------------------------
(***************************************************************************)
(* How the AI client reads the answer in a reply (src/src/llm_client.py):  *)
(* _extract_json_value looks for the JSON, _judge_answer_text turns it     *)
(* into rows and says whether the model has to be asked again.             *)
(*                                                                         *)
(* A text is the sequence of its opening brackets, each with what decoding *)
(* from there gives: a value of some kind that spans so many of the        *)
(* following brackets, an error, or a nesting too deep to decode.  A value *)
(* is its rows: whether each is an object, has the declared keys, and      *)
(* which page it claims (NoClaim: none, or something that is no integer).  *)
(***************************************************************************)
EXTENDS Ordered, Sequences

CONSTANT MaxOpenersTried     \* _MAX_OPENERS_TRIED (256)

ASSUME OpenersAssumption == MaxOpenersTried \in Nat

NoClaim == 0
Values == {"list", "dict"}
RowClaims == [object : BOOLEAN, whole : BOOLEAN, claim : Nat]
Brackets == [kind : Values \cup {"broken", "deep"}, span : Nat, finite : BOOLEAN,
             rows : Seq(RowClaims)]
ExpectedKind(mode) == IF mode = "table_per_page" THEN "list" ELSE "dict"

-----------------------------------------------------------------------------
(* _extract_json_value: the bracket whose value is taken, 0 when there is none *)

\* Mutant: the search goes on inside a value of the wrong kind.
AfterValueInside(text, i) == i + 1

AfterValue(text, i) == i + 1 + text[i].span

\* One turn of the search: s is where it is, how many brackets it tried, and the first value
\* it met.  It is over past the text, and s.first is then what it takes.
Tried(text, mode, s) ==
  LET Over(taken) == [at |-> Len(text) + 1, tried |-> s.tried, first |-> taken]
      Onward(i, first) == [at |-> i, tried |-> s.tried + 1, first |-> first]
  IN  IF s.at > Len(text) THEN s
      ELSE IF s.tried = MaxOpenersTried \/ text[s.at].kind = "deep" THEN Over(0)
      ELSE IF text[s.at].kind = "broken" THEN Onward(s.at + 1, s.first)
      ELSE IF text[s.at].kind = ExpectedKind(mode) THEN Over(s.at)
      ELSE Onward(AfterValue(text, s.at), IF s.first = 0 THEN s.at ELSE s.first)

\* Every turn passes a bracket at least.
extract_json_value(text, mode) ==
  LET after[n \in Nat] ==
        IF n = 0 THEN [at |-> 1, tried |-> 0, first |-> 0] ELSE Tried(text, mode, after[n - 1])
  IN  after[Len(text)].first

-----------------------------------------------------------------------------
(* _judge_answer_text *)

AnswerRow(page, warning) == [page |-> page, warning |-> warning]
Refused == [rows |-> << >>, problem |-> TRUE]

Genuine(row, sent) == \E i \in DOMAIN sent : sent[i] = row.claim
ClaimedBefore(rows, i) == \E j \in 1..(i - 1) : rows[j].claim = rows[i].claim

\* Mutant: the second row of a page passes for its first.
JudgedRowOnce(rows, i, sent) ==
  IF Genuine(rows[i], sent) THEN AnswerRow(rows[i].claim, "")
  ELSE AnswerRow(NoClaim, "hallucinated_page_number")

JudgedRow(rows, i, sent) ==
  IF ~Genuine(rows[i], sent) THEN AnswerRow(NoClaim, "hallucinated_page_number")
  ELSE IF ClaimedBefore(rows, i) THEN AnswerRow(rows[i].claim, "duplicate_page_number")
  ELSE AnswerRow(rows[i].claim, "")

\* The pages sent that no row claims, in the order they were sent.
Unanswered(rows, sent) ==
  LET left == {p \in DOMAIN sent : \A i \in DOMAIN rows : rows[i].claim # sent[p]}
  IN  [k \in DOMAIN InOrder(left) |-> sent[InOrder(left)[k]]]

PageRows(rows, sent) ==
  LET judged == [i \in DOMAIN rows |-> JudgedRow(rows, i, sent)]
      missing == Unanswered(rows, sent)
  IN  [rows |-> judged \o [i \in DOMAIN missing |-> AnswerRow(missing[i], "no_row_returned")],
       problem |-> \E i \in DOMAIN judged : judged[i].warning # ""]

judge_answer_text(text, mode, sent) ==
  LET at == extract_json_value(text, mode) IN
  IF at \notin DOMAIN text THEN Refused
  ELSE LET value == text[at] IN
    IF \/ ~value.finite \/ value.kind # ExpectedKind(mode) \/ value.rows = << >>
       \/ \E i \in DOMAIN value.rows : ~value.rows[i].object \/ ~value.rows[i].whole
    THEN Refused
    ELSE IF mode = "table_per_page" THEN PageRows(value.rows, sent)
    ELSE [rows |-> <<AnswerRow(NoClaim, "")>>, problem |-> FALSE]

-----------------------------------------------------------------------------
(* What they should compute *)

\* Text as it can be written: a value ends before the text, and inside the value around it.
WellNested(text) ==
  \A i \in DOMAIN text :
    /\ i + text[i].span <= Len(text)
    /\ text[i].kind \notin Values => text[i].span = 0
    /\ \A j \in (i + 1)..(i + text[i].span) : j + text[j].span <= i + text[i].span

Outermost(text) ==
  {i \in DOMAIN text :
     \A j \in 1..(i - 1) : text[j].kind \in Values => j + text[j].span < i}

Least(S) == CHOOSE least \in S : \A other \in S : least <= other

\* The value to take: the first outermost one of the expected kind, or else the first
\* outermost one, unless the search meets a value it cannot decode or runs out of tries.
ValueToTake(text, mode) ==
  LET hits == {i \in Outermost(text) : text[i].kind = ExpectedKind(mode)}
      before == {i \in Outermost(text) : hits # {} => i < Least(hits)}
      tries == Cardinality(before) + (IF hits # {} THEN 1 ELSE 0)
      others == {i \in before : text[i].kind \in Values}
  IN  IF tries > MaxOpenersTried \/ \E i \in before : text[i].kind = "deep" THEN 0
      ELSE IF hits # {} THEN Least(hits)
      ELSE IF others # {} THEN Least(others) ELSE 0

\* Every row of the reply is kept, in order, and every page sent ends up with exactly one
\* row that answers it or says that none came; the model is asked again exactly when the
\* claims are not pages sent, each at most once.
AccountsForPages(rows, sent) ==
  LET judged == PageRows(rows, sent)
      Answering(page) == {i \in DOMAIN judged.rows :
                            /\ judged.rows[i].page = page
                            /\ judged.rows[i].warning \in {"", "no_row_returned"}}
  IN  /\ \A i \in DOMAIN rows : judged.rows[i].page \in {rows[i].claim, NoClaim}
      /\ \A i \in DOMAIN sent : Cardinality(Answering(sent[i])) = 1
      /\ Len(judged.rows) >= Len(rows)
      /\ judged.problem <=>
           \/ \E i \in DOMAIN rows : \A p \in DOMAIN sent : rows[i].claim # sent[p]
           \/ \E i, j \in DOMAIN rows : i # j /\ rows[i].claim = rows[j].claim

=============================================================================
