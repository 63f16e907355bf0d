----------------------------- MODULE Completion ------------------------------
(***************************************************************************)
(* TAB completion of the CLI over the command files it has loaded. A file  *)
(* is a table whose keys are commands; a command is a table of parameters, *)
(* which may hold tables again. The behaviour is one user who types a text *)
(* and asks for its completions.                                           *)
(*                                                                         *)
(* A text is a sequence of letters; Dot and Equals are the two characters  *)
(* the completion looks for. A leaf holds the texts of its values.         *)
(***************************************************************************)
EXTENDS Naturals, FiniteSets, SequencesExt

CONSTANTS
  Letters,   \* characters of the names of commands and parameters
  Keys,      \* names of commands and parameters
  Values,    \* texts of the values in the files
  Depth,     \* bound: how deep the tables of a command nest
  Tables,    \* tables of parameters a command may have
  Typed      \* texts a user may have typed

Dot == "."
Equals == "="
Chars == Letters \cup {Dot, Equals}

IsTable(entry) == entry.kind = "table"

\* What the tables of parameters hold, level by level: values and arrays of
\* values (leaves), and tables of such entries.
Entries[d \in 1..Depth] ==
  IF d = 1 THEN UNION {Range(t) : t \in Tables}
  ELSE UNION {Range(e.members) : e \in {x \in Entries[d - 1] : IsTable(x)}}

\* Names are identifiers: the keys of a command are fields of a message. The
\* tables end at Depth.
ASSUME CompletionAssumption ==
  /\ Dot \notin Letters /\ Equals \notin Letters
  /\ Keys \subseteq Seq(Letters) \ {<<>>}
  /\ Values \subseteq Seq(Chars) /\ Typed \subseteq Seq(Chars)
  /\ Depth \in Nat \ {0}
  /\ \A t \in Tables : DOMAIN t \subseteq Keys
  /\ \A d \in 1..Depth : \A e \in Entries[d] :
       \/ e.kind = "leaf" /\ e.values \subseteq Values
       \/ IsTable(e) /\ d < Depth /\ DOMAIN e.members \subseteq Keys

VARIABLES
  table,     \* the parameters of the command at the start of the line
  typed,     \* the word under the cursor
  asked,     \* TAB was pressed on it
  offered    \* the matches handed to readline

completion == <<table, typed, asked, offered>>

Join(prefix, key) == IF prefix = <<>> THEN key ELSE prefix \o <<Dot>> \o key

\* get_sub_keys: the dotted paths under a table that a filter may still
\* become, with what may follow each of them.
Suffix(entry) == IF IsTable(entry) THEN <<Dot>> ELSE <<Equals>>
RelevantForwardOnly(path, filter) == IsPrefix(filter, path)
Relevant(path, filter) == IsPrefix(filter, path) \/ IsPrefix(path, filter)
Found(prefix, members, filter) ==
  {[path |-> Join(prefix, k), entry |-> members[k]] :
     k \in {j \in DOMAIN members : Relevant(Join(prefix, j), filter)}}
GetSubKeys(t, filter) ==
  LET level[d \in 1..Depth] ==
        IF d = 1 THEN Found(<<>>, t, filter)
        ELSE UNION {Found(f.path, f.entry.members, filter) :
                      f \in {g \in level[d - 1] : IsTable(g.entry)}}
  IN {f.path \o Suffix(f.entry) :
        f \in {g \in UNION {level[d] : d \in 1..Depth} : IsPrefix(filter, g.path)}}

\* walk_dotted_path: the entry a dotted path leads to, if there is one. A dot
\* ends a segment, and no segment follows a dot at the end.
Nothing == [kind |-> "nothing"]
Member(entry, seg) ==
  IF IsTable(entry) /\ seg \in DOMAIN entry.members
  THEN entry.members[seg] ELSE Nothing
Stepped(walk, c) ==
  IF c = Dot THEN [at |-> Member(walk.at, walk.seg), seg |-> <<>>]
  ELSE [at |-> walk.at, seg |-> Append(walk.seg, c)]
WalkDottedPath(t, path) ==
  LET walk[i \in 0..Len(path)] ==
        IF i = 0 THEN [at |-> [kind |-> "table", members |-> t], seg |-> <<>>]
        ELSE Stepped(walk[i - 1], path[i])
      end == walk[Len(path)]
  IN IF path = <<>> THEN Nothing
     ELSE IF end.seg = <<>> THEN end.at
     ELSE Member(end.at, end.seg)

\* param_name_generator.
ParamNames(t, text) == GetSubKeys(t, text)

\* param_value_generator: the value a leaf has, or the elements of an array,
\* that begin with what was typed after the equals sign.
UpTo(text, c) == SelectInSeq(text, LAMBDA x : x = c)
ParamValues(t, text) ==
  LET eq    == UpTo(text, Equals)
      path  == SubSeq(text, 1, eq - 1)
      value == SubSeq(text, eq + 1, Len(text))
      entry == WalkDottedPath(t, path)
  IN IF entry.kind # "leaf" THEN {}
     ELSE {path \o <<Equals>> \o v : v \in {w \in entry.values : IsPrefix(value, w)}}

\* command_completion, past the first word.
CommandCompletion(t, text) ==
  IF UpTo(text, Equals) # 0 THEN ParamValues(t, text) ELSE ParamNames(t, text)

CompletionInit ==
  /\ table \in Tables
  /\ typed \in Typed
  /\ asked = FALSE /\ offered = {}

Tab ==
  /\ asked' = TRUE
  /\ offered' = CommandCompletion(table, typed)
  /\ UNCHANGED <<table, typed>>

\* The user takes one of the matches and goes on from there.
TakeMatch ==
  /\ \E m \in offered : typed' = m
  /\ asked' = FALSE /\ offered' = {}
  /\ UNCHANGED table

CompletionNext == Tab \/ TakeMatch

CompletionSpec == CompletionInit /\ [][CompletionNext]_completion

-----------------------------------------------------------------------------
(* Properties.                                                             *)

\* The dotted paths of a table, by walk_dotted_path alone.
Lengthened(paths) == {Join(p, k) : p \in paths, k \in Keys}
Dotted[d \in 1..Depth] == IF d = 1 THEN Keys ELSE Lengthened(Dotted[d - 1])
PathsOf(t) ==
  {p \in UNION {Dotted[d] : d \in 1..Depth} : WalkDottedPath(t, p) # Nothing}

\* What TAB offers extends what was typed; the names offered are exactly the
\* paths that walk_dotted_path finds and that begin with the text, so a name
\* that was offered can be completed further (get_sub_keys against
\* walk_dotted_path).
CompletionIsExact ==
  /\ \A m \in offered : IsPrefix(typed, m)
  /\ asked /\ UpTo(typed, Equals) = 0 =>
       {Front(m) : m \in offered} = {p \in PathsOf(table) : IsPrefix(typed, p)}
=============================================================================
