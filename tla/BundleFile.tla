----------------------------- MODULE BundleFile -----------------------------
(***************************************************************************)
(* What the queue promises about one file: the bytes it holds grow by      *)
(* whole ranges, it is declared complete with its last byte and not        *)
(* before, and it never holds less afterwards.  Held bytes are only given  *)
(* up all at once, when the temporary file is gone.                        *)
(***************************************************************************)
EXTENDS Integers

CONSTANT FileSize

VARIABLES
    have,       \* positions of the file that are held
    complete,   \* the file has been taken off the queue as downloaded
    stored      \* there is a temporary file

File == 0 .. FileSize - 1

Init == have = {} /\ complete = FALSE /\ stored = FALSE

\* A download brought a range of the file.
Receive ==
    /\ ~complete
    /\ \E from, to \in 0 .. FileSize : have' = have \union (from .. to - 1)
    /\ complete' \in BOOLEAN
    /\ complete' => have' = File
    /\ UNCHANGED stored

\* The temporary file is created or disappears.
ChangeStore == stored' = ~stored /\ UNCHANGED << have, complete >>

\* What the missing temporary file held is forgotten.
Forget == ~stored /\ ~complete /\ have' = {} /\ UNCHANGED << complete, stored >>

Next == Receive \/ ChangeStore \/ Forget

Spec == Init /\ [][Next]_<< have, complete, stored >>
=============================================================================
