--------------------------- MODULE MCBundleStatus ---------------------------
(* Two files, of which the second one may be added later. *)
EXTENDS BundleStatus

CONSTANTS f1, f2

OneOfTwo == {f1}
Both == {f1, f2}
YesNo == {TRUE, FALSE}
Yes == {TRUE}
Moved == {"target"}
MovedOrNot == {"target", "unmoved"}
=============================================================================
