------------------------------ MODULE MCTickData -------------------------------
(* The instance of TickData that TLC checks: messages of one or two elements, *)
(* the second of which may be a sequence of one or two.                       *)
EXTENDS TickData

Leaf(name, dt, null, values) == [name |-> name, kids |-> <<>>, dt |-> dt, null |-> null, values |-> values]
Tree(name, kids) == [name |-> name, kids |-> kids, dt |-> "SEQUENCE", null |-> FALSE, values |-> <<>>]

Dated(n) == [number |-> n, dated |-> TRUE]
Undated(n) == [number |-> n, dated |-> FALSE]

ValuesOf(dt) ==
  {<<>>, <<Dated(1)>>, <<Dated(2), Dated(1)>>} \cup
  IF dt # "DATETIME" THEN {}
  ELSE {<<Undated(1)>>, <<Undated(1), Undated(2)>>, <<Dated(1), Undated(2)>>, <<Undated(1), Dated(2)>>}

LeavesOf(name) ==
  UNION {{Leaf(name, dt, FALSE, values) : values \in ValuesOf(dt)} : dt \in Datatypes}
    \cup {Leaf(name, dt, TRUE, <<Dated(1)>>) : dt \in {"FLOAT64", "DATETIME"}}

\* one leaf for each way to end
FewLeavesOf(name) ==
  {Leaf(name, "FLOAT64", FALSE, <<Dated(1)>>), Leaf(name, "INT64", FALSE, <<Dated(1)>>),
   Leaf(name, "SEQUENCE", FALSE, <<Dated(1)>>)}

TreesOf(name) ==
  {Tree(name, <<e>>) : e \in LeavesOf("BID")} \cup
  {Tree(name, <<e, f>>) : e \in LeavesOf("ASK"), f \in FewLeavesOf("BID")}

AllMessages ==
  {Tree("tick", <<e>>) : e \in LeavesOf("BID")} \cup
  {Tree("tick", <<e, f>>) : e \in FewLeavesOf("BID"), f \in LeavesOf("ASK") \cup TreesOf("ASK")}

AllElements ==
  LET leaves == LeavesOf("BID") \cup LeavesOf("ASK")
  IN [d \in 0 .. 2 |-> CASE d = 0 -> leaves
                         [] d = 1 -> leaves \cup TreesOf("ASK")
                         [] d = 2 -> AllMessages]
===============================================================================
