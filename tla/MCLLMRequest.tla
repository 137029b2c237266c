---------------------------- MODULE MCLLMRequest ----------------------------
(* Values for the constants of LLMRequest, bounded inputs for AnswerJudge among them. *)
EXTENDS LLMRequest

CONSTANT MaxBrackets    \* bound: opening brackets in a text

MCFrames == <<1, 3>>

Row(claim) == [object |-> TRUE, whole |-> TRUE, claim |-> claim]
NoKey(claim) == [object |-> TRUE, whole |-> FALSE, claim |-> claim]
NotAnObject == [object |-> FALSE, whole |-> FALSE, claim |-> NoClaim]
Bracket(kind, span, rows) == [kind |-> kind, span |-> span, finite |-> TRUE, rows |-> rows]

\* A JSON array as its bracket and those of its objects, and a text around it.
Table(rows) == <<Bracket("list", Len(rows), rows)>> \o [i \in DOMAIN rows |-> Bracket("dict", 0, <<rows[i]>>)]
Remark == <<Bracket("broken", 0, << >>)>>

Rows(claims) == [i \in DOMAIN claims |-> Row(claims[i])]

MCTexts ==
  {Table(Rows(<<1, 3>>)), Remark \o Table(Rows(<<3>>)), Table(Rows(<<1, 1>>)), Table(Rows(<<2, 3>>)),
   Table(<<Row(1), NoKey(3)>>), Table(<<Row(1), NotAnObject>>), Table(<< >>), Remark,
   <<Bracket("dict", 0, <<Row(1)>>)>>,
   <<[Bracket("list", 0, <<Row(1)>>) EXCEPT !.finite = FALSE]>>}

Reply(cut, shape, reply) == [cut |-> cut, shape |-> shape, text |-> reply]
MCAnswers ==
  {Reply(FALSE, "text", t) : t \in MCTexts} \cup
  {Reply(TRUE, "text", Remark), Reply(FALSE, "schema", << >>), Reply(TRUE, "schema", << >>),
   Reply(FALSE, "odd", << >>)}

BoundedTexts ==
  {t \in UNION {[1..n -> {Bracket(kind, span, << >>) : kind \in Values \cup {"broken", "deep"},
                                                       span \in 0..(MaxBrackets - 1)}] :
                n \in 0..MaxBrackets} : WellNested(t)}
BoundedRows == {Rows(claims) : claims \in UNION {[1..n -> {NoClaim, 1, 2, 3}] : n \in 1..3}}
BoundedPages == {<<1>>, <<1, 3>>, <<3, 1>>}

=============================================================================
