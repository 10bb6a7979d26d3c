-------------------------- MODULE MCKnowledgeIndex --------------------------
(* Two documents built in, imports that replace one, clash, or are bad.  Of *)
(* the terms, runner stands for ci-runner, c1 and c2 for the pairs of a run *)
(* of three CJK characters.                                                 *)
EXTENDS KnowledgeIndex
CONSTANTS b1, b2, i1, runner, the, c1, c2

MCIds == {b1, b2, i1}
MCDocument(id, text, matches) == [id |-> id, text |-> text, matches |-> matches, valid |-> TRUE]
MCBad(id) == [id |-> id, text |-> {runner}, matches |-> {runner}, valid |-> FALSE]

\* A text that says ci runner and, alone, the first pair, and one that has ci-runner
\* and the run of three next to other CJK characters.
MCBuiltIn == <<MCDocument(b1, {c1}, {runner, the, c1}), MCDocument(b2, {runner, c1, c2}, {})>>

\* Imports: another text of a built-in document, two texts of one new document.
MCOverride == MCDocument(b1, {runner, c2}, {runner, the})
MCNew == MCDocument(i1, {runner, c2}, {runner, c2})
MCClash == MCDocument(i1, {c1}, {})
MCDirectories ==
    {<<>>, <<Unreadable>>, <<<<MCOverride>>>>, <<<<MCNew>>, <<MCClash>>>>, <<<<MCClash, MCNew, MCOverride>>>>,
     <<<<MCNew>>, <<MCBad(b2)>>>>, <<<<MCNew, MCOverride>>, Unreadable>>}

\* ci-runner, with a stopword or in full-width letters, the run, its second pair, a
\* stopword alone, and nothing that either takes.
MCQuery(terms, quoted) == [terms |-> terms, quoted |-> quoted]
MCQueries ==
    {MCQuery({runner}, {runner}), MCQuery({runner}, {runner, the}), MCQuery({runner}, {}),
     MCQuery({c1, c2}, {c1}), MCQuery({c2}, {c2}), MCQuery({runner, c2}, {runner, c2}),
     MCQuery({}, {the}), MCQuery({}, {})}
=============================================================================
