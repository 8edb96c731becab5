---------------------------- MODULE MCMappingFile ----------------------------
\* TLC instances of MappingFile: the forms a mapping file may take.
EXTENDS MappingFile

CONSTANTS p, q, t, u, v

A  == <<"a">>
AB == <<"a", "b">>
B  == <<"b">>

First(line)          == [line EXCEPT !.dash = TRUE]
TargetLine(n, ts)    == Line("target", n, ts)
Item(n, path)        == Line("item", n, <<path>>)
Comment(n)           == Line("comment", n, <<>>)
Key(n)               == Line("key", n, <<>>)
Blank                == Line("blank", 0, <<>>)
Open(line)           == [line EXCEPT !.open = TRUE]

\* One mapping on its own, its keys in either order, ending in blank lines or in
\* a line without newline that is no entry.
Alone ==
  {<<TargetLine(2, <<t>>), Key(2), Item(4, A), Blank, Blank>>,
   <<Key(2), Item(2, AB), Open(TargetLine(2, <<t, u>>))>>,
   <<TargetLine(2, <<t>>), Open(Line("empty", 2, <<>>))>>,
   <<TargetLine(2, <<t>>)>>}

\* A list of mappings with comments around and within.
Listed ==
  {<<First(TargetLine(2, <<t, u>>)), Key(4), Item(6, A), Comment(8), Item(6, B), Comment(8),
     Blank, Comment(2),
     First(TargetLine(2, <<v>>)), Key(4), Item(4, A)>>,
   <<First(TargetLine(2, <<t>>)), Line("empty", 4, <<>>), Comment(2),
     First(TargetLine(2, <<u>>)), Key(4), Item(6, AB), Blank>>,
   <<Comment(2), First(Line("string", 2, <<t>>)),
     First(TargetLine(2, <<v, u>>)), Comment(4), Key(4), Item(4, A), Item(4, B), Blank,
     Blank>>}

\* A list in brackets.
InBrackets ==
  {<<First(TargetLine(2, <<t>>)), Line("flow", 4, <<B, A>>)>>}

TwoProjects == {p, q}
OneProject  == {p}
BlockForms  == [x \in TwoProjects |->
                  IF x = p THEN Alone \cup Listed
                  ELSE {<<First(Line("string", 2, <<v>>))>>}]
FlowForms   == [x \in OneProject |-> InBrackets]
TwoPaths    == {A, AB}
Directories == {t, u, v}
TwoNames    == {"a", "b"}
==============================================================================
