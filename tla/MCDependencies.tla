--------------------------- MODULE MCDependencies ---------------------------
(* Four packages, two of them members of one suite. *)
EXTENDS Dependencies

MCMembers == [s \in {"s"} |-> <<"b", "c">>]

To(dir) == [kind |-> "package", dir |-> dir, member |-> dir]
In(member) == [kind |-> "member", dir |-> "s", member |-> member]
All == [kind |-> "glob", dir |-> "s", member |-> "s"]
Else == [kind |-> "elsewhere", dir |-> "s", member |-> "s"]

EdgesOf ==
  [a |-> {<<To("b")>>, <<To("c"), To("b")>>, <<All>>, <<In("b"), To("d")>>, <<Else, In("c")>>},
   b |-> {<<>>, <<To("d")>>, <<To("c")>>, <<In("c")>>},
   c |-> {<<>>, <<To("d")>>, <<To("d"), To("b")>>, <<To("a")>>},
   d |-> {<<>>, <<Else, To("a")>>, <<To("d")>>, <<In("a")>>, <<In("b")>>,
         <<In("c")>>}]

Health == {[unreadable |-> {}, misnamed |-> {}], [unreadable |-> {"d"}, misnamed |-> {}],
           [unreadable |-> {"s"}, misnamed |-> {}], [unreadable |-> {}, misnamed |-> {"c"}]}

MCWorlds ==
  {[edges |-> [a |-> ea, b |-> eb, c |-> ec, d |-> ed], unreadable |-> h.unreadable,
    misnamed |-> h.misnamed, summarised |-> {"c", "d"}] :
     ea \in EdgesOf.a, eb \in EdgesOf.b, ec \in EdgesOf.c, ed \in EdgesOf.d, h \in Health}
=============================================================================
