------------------------------ MODULE MCNavTree ------------------------------
(***************************************************************************)
(* An instance of NavTree for TLC: a main page and a class page, whose     *)
(* anchor has two nodes; two nodes keep their children in scripts.         *)
(***************************************************************************)
EXTENDS NavTree

CONSTANTS root, main, classes, class, member, again,
          index_html, class_html, h, line

mc_Nodes == {root, main, classes, class, member, again}
mc_Kids ==
    [n \in mc_Nodes |-> CASE n = root -> <<main>>
                          [] n = main -> <<again, classes>>
                          [] n = classes -> <<class>>
                          [] n = class -> <<member>>
                          [] OTHER -> <<>>]
mc_Lazy == {classes, class}
mc_Pages == {index_html, class_html}
Link(page, hash) == [page |-> page, hash |-> hash]
mc_LinkOf ==
    [n \in mc_Nodes |-> CASE n \in {root, main, classes} -> Link(index_html, NoHash)
                          [] n = class -> Link(class_html, NoHash)
                          [] OTHER -> Link(class_html, h)]
mc_Index ==
    [l \in {Link(index_html, NoHash), Link(class_html, NoHash), Link(class_html, h)} |->
        CASE l.page = index_html -> <<>>
          [] l.hash = h -> <<2, 1, 1>>
          [] OTHER -> <<2, 1>>]
mc_Hashes == {h, line}
mc_LineHashes == {line}
mc_MainPages == {index_html}
=============================================================================
