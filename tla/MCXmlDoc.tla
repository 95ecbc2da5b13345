------------------------------ MODULE MCXmlDoc ------------------------------
(* Elements "p" (whose content is never aligned) and "a" (which has the  *)
(* attribute), and paths like those the program looks for.             *)
EXTENDS XmlDoc

MCShapes == {<<"p", "">>, <<"a", "x">>}
MCTexts == {<<"n">>, <<"t">>, <<"u">>}

Sel(what, filters) == Seg(<<what>>, filters)
Tag(tag, filters) == Seg(<<"tag", tag>>, filters)

MCPaths == {<<Sel("self", <<>>), Sel("children", <<>>)>>,                   \* ./*
            <<Sel("self", <<>>), Tag("a", <<>>), Tag("p", <<>>)>>,          \* ./a/p
            <<Sel("self", <<>>), Sel("descendants", <<>>), Tag("p", <<>>)>>,\* .//p
            <<Sel("root", <<>>), Sel("descendants", <<>>),
              Tag("a", <<<<"attr">>>>)>>,                                   \* //a[@href]
            <<Sel("descendants", <<<<"child", "p">>>>),
              Sel("parent", <<<<"text">>>>)>>}                              \* [p]/..[text()]
=============================================================================
