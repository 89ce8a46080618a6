------------------------------- MODULE JoinGraph -------------------------------
(***************************************************************************)
(* The join graph (server/linking/join_graph.py): the directed graph of    *)
(* the relations between tables, the search for the shortest join paths,   *)
(* and the completion of a set of tables with those the joins need.        *)
(*                                                                         *)
(* A graph has its edges, in the order they were added, and for each table *)
(* the numbers of the edges that leave it.  A path is a sequence of        *)
(* numbers of edges.                                                       *)
(***************************************************************************)
EXTENDS Naturals, Sequences, FiniteSets, Functions, Lists

\* what a row of table_relationship is read for
Relationship(from, to, cardinality, purpose) ==
  [from |-> from, to |-> to, cardinality |-> cardinality, purpose |-> purpose]

Nodes(edges) == UNION {{edges[i].from, edges[i].to} : i \in DOMAIN edges}

Graph(edges) ==
  [edges |-> edges,
   out |-> [t \in Nodes(edges) |->
             LET leaving == {i \in DOMAIN edges : edges[i].from = t}
             IN Selection([i \in DOMAIN edges |-> i], leaving)]]

\* load_from_records: inactive rows are skipped, no reverse edges are added
LoadFromRecords(rels, active) == Graph(Selection(rels, active))

\* build_graph_from_foreign_keys, from columns with a foreign_key_ref
GraphFromForeignKeys(columns) ==
  Graph([i \in DOMAIN columns |->
           Relationship(columns[i].table, columns[i].ref, "many_to_one", "join")])

RequiresPreAggregation(e) == e.cardinality = "many_to_many" \/ e.purpose = "agg_join"

-----------------------------------------------------------------------------
(* find_paths: breadth first, over paths.  seen[t] is visited_at_depth; for *)
(* a table not seen yet it is beyond every depth.                           *)
MaxDepth == 5

End(g, source, path) == IF path = <<>> THEN source ELSE g.edges[path[Len(path)]].to

\* mutant: a table is visited once, even by paths of the same length
ExpandOnce(g, path, st) ==
  LET out == g.out[End(g, st.source, path)]
      new == Selection(out, {k \in DOMAIN out : st.seen[g.edges[out[k]].to] > Len(path) + 1})
      reached == {g.edges[new[k]].to : k \in DOMAIN new}
  IN [st EXCEPT !.queue = @ \o [k \in DOMAIN new |-> Append(path, new[k])],
                !.seen = [t \in DOMAIN @ |-> IF t \in reached THEN Len(path) + 1 ELSE @[t]]]

\* the edges that leave the end, but for those to a table met at a lower depth
Expand(g, path, st) ==
  LET out == g.out[End(g, st.source, path)]
      new == Selection(out, {k \in DOMAIN out : ~(st.seen[g.edges[out[k]].to] < Len(path) + 1)})
      reached == {g.edges[new[k]].to : k \in DOMAIN new}
  IN [st EXCEPT !.queue = @ \o [k \in DOMAIN new |-> Append(path, new[k])],
                !.seen = [t \in DOMAIN @ |-> IF t \in reached THEN Len(path) + 1 ELSE @[t]]]

\* the next path of the queue
Visit(g, target, max, st) ==
  LET path == Head(st.queue)
      rest == [st EXCEPT !.queue = Tail(@)]
  IN IF Len(path) > max THEN rest
     ELSE IF End(g, st.source, path) = target THEN [rest EXCEPT !.found = Append(@, path)]
     ELSE IF st.found # <<>> /\ Len(path) >= Len(Head(st.found)) THEN rest
     ELSE Expand(g, path, rest)

Searches(g) ==
  [source : DOMAIN g.out, queue : Seq(Seq(DOMAIN g.edges)), found : Seq(Seq(DOMAIN g.edges)),
   seen : [DOMAIN g.out -> Nat]]

SearchPaths(g, target, max, start) ==
  LET search[st \in Searches(g)] ==
        IF st.queue = <<>> THEN st.found ELSE search[Visit(g, target, max, st)]
  IN search[start]

FindPaths(g, source, target, max) ==
  IF source = target THEN << <<>> >>
  ELSE IF ~({source, target} \subseteq DOMAIN g.out) THEN <<>>
  ELSE SearchPaths(g, target, max,
         [source |-> source, queue |-> << <<>> >>, found |-> <<>>,
          seen |-> [t \in DOMAIN g.out |-> IF t = source THEN 0 ELSE max + 2]])

-----------------------------------------------------------------------------
(* complete_schema: for each pair the first path found, else the first of   *)
(* the other direction; the tables these paths pass are added.              *)
PathTables(g, path) == Nodes([i \in DOMAIN path |-> g.edges[path[i]]])

PairPaths(g, src, tgt) ==
  LET found == FindPaths(g, src, tgt, MaxDepth)
  IN IF found # <<>> THEN found ELSE FindPaths(g, tgt, src, MaxDepth)

\* mutant: only the tables of the last edge are collected
BridgeTablesLast(g, selected, path) ==
  (IF path = <<>> THEN {} ELSE PathTables(g, <<path[Len(path)]>>)) \ selected

BridgeTables(g, selected, path) == PathTables(g, path) \ selected

CompleteSchema(g, selected, facts) ==
  LET tables == {selected[i] : i \in DOMAIN selected}
      pairs == {p \in (DOMAIN selected) \X (DOMAIN selected) : p[1] < p[2]}
      found == [p \in pairs |-> PairPaths(g, selected[p[1]], selected[p[2]])]
      joined == {p \in pairs : found[p] # <<>>}
  IN [tables |-> tables \cup UNION {BridgeTables(g, tables, found[p][1]) : p \in joined},
      missing |-> pairs \ joined,
      aggregate |-> {p \in joined : \E i \in DOMAIN found[p][1] :
                       RequiresPreAggregation(g.edges[found[p][1][i]])},
      clarify |-> joined # pairs \/ Cardinality(tables \cap facts) > 1]

-----------------------------------------------------------------------------
(* What the search should find: the walks of the least length that lead to  *)
(* the target in at most max edges, each once.                              *)
Walks(g, source, n) ==
  LET walks[k \in 0..n] ==
        IF k = 0 THEN {<<>>}
        ELSE {Append(w[1], w[2]) : w \in {v \in walks[k - 1] \X (DOMAIN g.edges) :
                g.edges[v[2]].from = End(g, source, v[1])}}
  IN walks[n]

ShortestWalks(g, source, target, max) ==
  LET To(n) == {w \in Walks(g, source, n) : End(g, source, w) = target}
      lengths == {n \in 0..max : To(n) # {}}
  IN IF lengths = {} THEN {} ELSE To(CHOOSE n \in lengths : \A k \in lengths : n <= k)

FindsShortest(g, source, target, max) ==
  LET found == FindPaths(g, source, target, max)
  IN /\ Range(found) = ShortestWalks(g, source, target, max)
     /\ \A i, j \in DOMAIN found : found[i] = found[j] => i = j

(* Unless something is reported, the selected tables hang together by joins *)
(* among the completed tables, and no table was added that no join passes.  *)
Reach(g, tables, S) ==
  LET Ends(k) == {g.edges[k].from, g.edges[k].to}
      joins == {k \in DOMAIN g.edges : Ends(k) \subseteq tables}
      Grow(T) == T \cup UNION {Ends(k) : k \in {e \in joins : Ends(e) \cap T # {}}}
      reach[n \in 0..Cardinality(tables)] == IF n = 0 THEN S ELSE Grow(reach[n - 1])
  IN reach[Cardinality(tables)]

CompletionJoins(g, selected, facts) ==
  LET r == CompleteSchema(g, selected, facts)
  IN r.missing = {} => r.tables \subseteq Reach(g, r.tables, {selected[1]})
=============================================================================
