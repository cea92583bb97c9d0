---------------------------- MODULE MCChannelInbox ----------------------------
(* Finite instances of ChannelInbox.                                       *)
EXTENDS ChannelInbox

\* Sizes of which two fit together, two do not, and one never fits.
MixedSizes == {1, 2, 4}
OneSize == {1}
=============================================================================
