----------------------------- MODULE LabelTree ------------------------------
(***************************************************************************)
(* The segment tree of labels (LabelTree in evaluator.cpp) from which the  *)
(* scorers take the label of a range of consecutive edges: the label of    *)
(* node n joins those of 2n and 2n + 1, the leaf of edge e, counted from   *)
(* 0, is node base + e.                                                    *)
(***************************************************************************)
EXTENDS Plans

\* The first power of two that is no less than the number of edges.
TreeBase(edges) ==
  Folded(LAMBDA base, k : IF base < Len(edges) THEN 2 * base ELSE base,
         1, [k \in 1 .. Len(edges) |-> k])

Tree(edges) ==
  LET base == TreeBase(edges)
      node[n \in 1 .. 2 * base - 1] ==
        IF n < base THEN Join(node[2 * n], node[2 * n + 1])
        ELSE IF n - base < Len(edges) THEN edges[n - base + 1] ELSE NoLabel
  IN [base |-> base, node |-> node]

\* One round of append_range: a node of an odd bound cannot be taken with its
\* sibling and is set aside, and the bounds go up to the parents.
Halve(s) ==
  IF s.l >= s.r THEN s
  ELSE [l |-> (s.l + 1) \div 2, r |-> s.r \div 2,
        left |-> IF s.l % 2 = 1 THEN Append(s.left, s.l) ELSE s.left,
        right |-> IF s.r % 2 = 1 THEN <<s.r - 1>> \o s.right ELSE s.right]

\* The nodes that make up the leaves l .. r - 1, in order; the rounds end when
\* the bounds meet, and there are no more of them than r.
Spans(l, r) ==
  LET end == Folded(LAMBDA s, k : Halve(s), [l |-> l, r |-> r, left |-> << >>, right |-> << >>],
                    [k \in 1 .. r |-> k])
  IN end.left \o end.right

\* The label of the edges from .. to - 1.
RangeLabel(tree, from, to) ==
  LET nodes == Spans(from + tree.base, to + tree.base)
  IN JoinAll([k \in DOMAIN nodes |-> tree.node[nodes[k]]])
=============================================================================
