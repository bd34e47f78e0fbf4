------------------------------ MODULE OcImages ------------------------------
(***************************************************************************)
(* The output directory as its reader wants it to be: an image is absent,  *)
(* unsealed (it has no valid footer and does not pass for finished), or    *)
(* sealed around the device tree of one build.                             *)
(***************************************************************************)
CONSTANTS
    Names,      \* file names in the output directory
    Trees,      \* device trees a build may produce
    NoImage,
    Unsealed

VARIABLE image

TypeOK == image \in [Names -> Trees \cup {NoImage, Unsealed}]

Init == image = [name \in Names |-> NoImage]

(* A build takes the name; what was there is lost. *)
Unseal(name) ==
    image' = [image EXCEPT ![name] = Unsealed]

Seal(name, tree) ==
    /\ image[name] = Unsealed
    /\ image' = [image EXCEPT ![name] = tree]

Next == \E name \in Names :
    \/ Unseal(name)
    \/ \E tree \in Trees : Seal(name, tree)

Spec == Init /\ [][Next]_image

=============================================================================
