----------------------------- MODULE MCPrograms ------------------------------
(***************************************************************************)
(* Instances of Programs for TLC.                                          *)
(***************************************************************************)
EXTENDS Programs

Set0(role, updated, replaced, deleted) ==
  [role |-> role, update |-> updated, replace |-> replaced, delete |-> deleted]

\* Telemetry: everything, a subtree, and a list of two paths.
MCPathLists == {{}, {<<"a">>}, {<<"a", "b">>, <<"c">>}}
MCRequests ==
  {Set0("ADMIN", <<<<"a", "b">>>>, <<<<"c">>>>, <<>>),
   Set0("ADMIN", <<>>, <<<<"a">>>>, <<<<"a", "b">>>>),
   Set0("VIEWER", <<<<"a">>>>, <<>>, <<>>)}

\* Completion: commands without parameters, with values, and with tables down
\* to the third level, one name being the beginning of another.
Leaf(values) == [kind |-> "leaf", values |-> values]
Table(members) == [kind |-> "table", members |-> members]
MCKeys == {<<"a">>, <<"a", "b">>, <<"b">>}
MCValues == {<<"x">>, <<"x", "y">>, <<"y">>}
MCTables ==
  LET flat   == [k \in {<<"a">>, <<"b">>} |-> Leaf({<<"x">>, <<"x", "y">>})]
      shared == [k \in {<<"a">>, <<"a", "b">>} |-> Leaf({<<"x">>})]
      nested == [k \in {<<"a">>, <<"b">>} |-> IF k = <<"a">> THEN Table(shared) ELSE Table(flat)]
  IN {[k \in {} |-> Leaf({})], flat, shared, nested,
      [k \in MCKeys |-> IF k = <<"b">> THEN Leaf({<<"y">>}) ELSE Table(flat)],
      [k \in {<<"b">>, <<"a", "b">>} |-> IF k = <<"b">> THEN Table(nested) ELSE Table(shared)]}
MCTyped ==
  {<<>>} \cup {<<c>> : c \in {"a", "b", "x"}}
  \cup {<<"a", c>> : c \in {"b", Dot, Equals}}
  \cup {<<"a", Dot, c>> : c \in {"a", "b", Equals}}
  \cup {<<"a", Equals, "x">>, <<"a", Dot, "b", Equals, "x">>, <<"a", "b", Dot, "b">>,
        <<"b", Dot, "a", Dot, "a">>, <<Dot, "a">>}

\* TUIs: a narrow line, and a message of a wide and a narrow one.
MCMessages == {<<4>>, <<30, 4>>}

\* The peer tool: blank lines and CRs, commands behind a quit, a last line
\* that does not end, and input without any command.
MCScripts ==
  {<<>>, <<NL, Blank, NL, "get">>,
   <<"gnmi", Blank, "sub", "spec", NL, "set", CR, NL, "sub", "spec", NL,
     "quit", NL, "get", "spec", NL>>,
   <<"get", Blank, "spec", CR, NL, "set", "spec", NL, "sub", "spec", NL,
     "help", NL, "sub", "spec">>}
=============================================================================
