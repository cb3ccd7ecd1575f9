---------------------------- MODULE MCDocumentMove ----------------------------
(* Files and keys are numbers.  The files may have keys of their own; two may get   *)
(* the same key, from keys of their own or from one that they share; one may get    *)
(* the key that another has; and the patch may be sent again, or to a company of    *)
(* which one file was moved already.                                                *)
EXTENDS DocumentMove

Layout(old, new) == [f \in Files |-> [old |-> old[f], new |-> new[f]]]

MCLayouts ==
    {Layout(<<1, 2, 3>>, new) :
        new \in {<<4, 5, 6>>, <<4, 5, 5>>, <<4, 3, 5>>, <<1, 2, 3>>, <<1, 4, 5>>}}
    \cup {Layout(<<1, 2, 2>>, <<4, 5, 5>>), Layout(<<1, 2, 2>>, <<4, 5, 6>>)}
=============================================================================
