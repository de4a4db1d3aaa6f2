------------------------------ MODULE MCAsdcs -------------------------------
(***************************************************************************)
(* The instances of Asdcs that TLC checks.                                  *)
(***************************************************************************)
EXTENDS Asdcs

\* The shipped scenarios in small: the radios listen to every channel of the
\* property range, and two of them, the initial one included, may be switched to.
ThreeChannels == {0, 1, 2}
TwoSwitchable == {1, 2}

\* The radios listen to three of five channels, with a gap of two that the scan skips
\* and an end of the range where it wraps around.
WithGap == {0, 1, 4}
SwitchableWithGap == {1, 4}
=============================================================================
