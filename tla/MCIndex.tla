------------------------------ MODULE MCIndex -------------------------------
(***************************************************************************)
(* SemanticIndex for TLC: directions on a line of angles, so that some are *)
(* near, some unlike and some opposite; equal entries, a zero vector and   *)
(* one of another length.                                                  *)
(***************************************************************************)
EXTENDS SemanticIndex

MCCosine(a, b) == LET d == IF a < b THEN b - a ELSE a - b IN 2 - d

Vec(length, dir) == [length |-> length, dir |-> dir]
Entry(model, scope, vec) == [model |-> model, scope |-> scope, vec |-> vec]
Query(model, scopes, vec) == [model |-> model, scopes |-> scopes, vec |-> vec]

NoEntry == Entry("", "", Vec(0, None))
NoQuery == Query("", {}, Vec(0, None))

AddOf(e)    == [op |-> "add", entry |-> e, query |-> NoQuery]
SearchOf(q) == [op |-> "search", entry |-> NoEntry, query |-> q]

MCJobs ==
  {AddOf(Entry(m, s, v)) : m \in {"m"}, s \in {"shared", "a"}, v \in {Vec(2, 0), Vec(2, 1), Vec(2, 4)}}
  \cup {AddOf(Entry("n", "shared", Vec(2, 0))), AddOf(Entry("m", "shared", Vec(2, None))),
        AddOf(Entry("m", "shared", Vec(3, 0)))}
  \cup {SearchOf(Query("m", s, v)) : s \in {{"shared"}, {}}, v \in {Vec(2, 0), Vec(2, None)}}
  \cup {[op |-> "len", entry |-> NoEntry, query |-> NoQuery]}
=============================================================================
