------------------------- MODULE MCCapabilityCalls -------------------------
(* The portal with a member of staff and an approved guest.                  *)
EXTENDS CapabilityCalls

CONSTANTS ann, guest

\* Armor grants ann three of the capabilities requested, and the guest two.
MCGranted ==
    {<<ann, "execution">>, <<ann, "products">>, <<ann, "legal">>,
     <<guest, "execution">>, <<guest, "commit">>}
=============================================================================
